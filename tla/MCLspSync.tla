----------------------------- MODULE MCLspSync -----------------------------
(* Small instances of LspSync: one document that may have every name and filetype, and
   one that contends with it for the places of one server. *)
EXTENDS LspSync

CONSTANTS d1, d2, a, b

MCNameOf == [d \in Doc |-> IF d = d1 THEN Name ELSE {"x.c"}]
MCFtOf   == [d \in Doc |-> IF d = d1 THEN {a, b, None} ELSE {a}]
Versions == [d \in Doc |-> IF d = d1 THEN 3 ELSE 1]
=============================================================================
