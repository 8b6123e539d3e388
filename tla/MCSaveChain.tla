---------------------------- MODULE MCSaveChain ----------------------------
(* Small instances of SaveChain. *)
EXTENDS SaveChain, TLC

CONSTANTS d, organize, fix

OnSave  == {x \in [actions : BOOLEAN, format : BOOLEAN] : x.actions \/ x.format}
Default == {[actions |-> FALSE, format |-> FALSE]}
Symmetry == Permutations({organize, fix})
=============================================================================
