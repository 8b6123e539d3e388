---------------------------- MODULE MCLspServer ----------------------------
(* Small instances of LspServer: a filetype with a server of its own, and one
   that either has its own server too or uses the server of the first, as the
   default lsp.conf lets C++ use the server of C. *)
EXTENDS LspServer, TLC

CONSTANTS c, cpp

NoRef == [ft \in Ft |-> NULL]
Symmetry == Permutations(Obj)
CppUsesC == [ft \in Ft |-> IF ft = cpp THEN c ELSE NULL]
=============================================================================
