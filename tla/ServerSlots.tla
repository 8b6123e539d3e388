---------------------------- MODULE ServerSlots ----------------------------
(***************************************************************************)
(* What the rest of the plugin relies on when it asks lsp_server_get() for *)
(* the server of a filetype: one server at a time, handed out only after   *)
(* its handshake, replaced when it crashes, and given up for good when it  *)
(* crashed too often.  Objects, processes, timers and answers are hidden.  *)
(***************************************************************************)
EXTENDS Naturals

CONSTANTS
    Ft,     \* the filetypes
    Limit,  \* so many restarts and a server is given up
    Most    \* the count of restarts of one that cannot be started

VARIABLE slot   \* the state of the server of each filetype and how often it restarted

Slot(state, count) == [state |-> state, count |-> count]

Empty == Slot("none", 0)
Down  == Slot("down", 0)

Init == slot = [ft \in Ft |-> Empty]

\* Servers for all filetypes, whatever became of those before.
Provide == slot' = [ft \in Ft |-> Down]

Withdraw == slot' = [ft \in Ft |-> Empty]

\* A server that restarted n times, or that cannot be started at all.
Started(n) ==
    {Slot("given up", Most), Slot(IF n < Limit THEN "starting" ELSE "given up", n)}

Launch(ft) ==
    /\ slot[ft].state = "down"
    /\ \E new \in Started(slot[ft].count) : slot' = [slot EXCEPT ![ft] = new]

Handshake(ft) ==
    /\ slot[ft].state = "starting"
    /\ slot' = [slot EXCEPT ![ft].state = "ready"]

Crash(ft) ==
    /\ slot[ft].state \in {"starting", "ready"}
    /\ \E new \in Started(slot[ft].count + 1) : slot' = [slot EXCEPT ![ft] = new]

Next ==
    \/ Provide \/ Withdraw
    \/ \E ft \in Ft : Launch(ft) \/ Handshake(ft) \/ Crash(ft)

Spec == Init /\ [][Next]_slot
=============================================================================
