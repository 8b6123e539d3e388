------------------------------ MODULE RpcCalls ------------------------------
(***************************************************************************)
(* What the plugin relies on when it calls a language server: the promise  *)
(* of jsonrpc_client_call_async() and of call_cb() to lsp_rpc_call().  A   *)
(* call is answered by the server or fails, once; it fails only when the   *)
(* connection is broken, a broken connection answers nothing, and no call  *)
(* is left waiting on one.  Its caller is told at most once, when that     *)
(* happens.  After the connection was closed only the calls that start and *)
(* stop the server are told, and these always are.                         *)
(***************************************************************************)
CONSTANT Call   \* the calls, in the order they are made

VARIABLES
    call,       \* what became of each call
    startup,    \* the calls that start and stop the server
    told,       \* the calls whose caller was told
    broken,     \* the connection failed or was closed
    closed      \* the plugin closed it

vars == <<call, startup, told, broken, closed>>

Init ==
    /\ call = [c \in Call |-> "unused"]
    /\ startup = {}
    /\ told = {}
    /\ broken = FALSE
    /\ closed = FALSE

Invoke(c) ==
    /\ ~closed
    /\ call[c] = "unused"
    /\ call' = [call EXCEPT ![c] = "waiting"]
    /\ startup' \in {startup, startup \cup {c}}
    /\ UNCHANGED <<told, broken, closed>>

\* Some of the callers of C are told.
Tell(C) ==
    \E T \in SUBSET C :
        /\ C \cap startup \subseteq T
        /\ closed => T \subseteq startup
        /\ told' = told \cup T

Answer(c) ==
    /\ call[c] = "waiting"
    /\ ~broken
    /\ call' = [call EXCEPT ![c] = "answered"]
    /\ Tell({c})
    /\ UNCHANGED <<startup, broken, closed>>

\* Calls fail together: the table of the waiting ones is stolen as a whole.
Fail(C) ==
    /\ broken
    /\ \A c \in C : call[c] = "waiting"
    /\ call' = [c \in Call |-> IF c \in C THEN "failed" ELSE call[c]]
    /\ Tell(C)
    /\ UNCHANGED <<startup, broken, closed>>

Break ==
    /\ broken' = TRUE
    /\ UNCHANGED <<call, startup, told, closed>>

Close ==
    /\ ~closed
    /\ closed' = TRUE
    /\ broken' = TRUE
    /\ UNCHANGED <<call, startup, told>>

Next ==
    \/ \E c \in Call : Invoke(c) \/ Answer(c)
    \/ \E C \in SUBSET Call : Fail(C)
    \/ Break
    \/ Close

Spec == Init /\ [][Next]_vars

\* A call that waits on a broken connection fails in the end.
Settled == \A c \in Call : (broken /\ call[c] = "waiting") ~> (call[c] = "failed")
=============================================================================
