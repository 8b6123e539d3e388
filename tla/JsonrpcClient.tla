--------------------------- MODULE JsonrpcClient ---------------------------
(***************************************************************************)
(* The connection to one language server: the bundled jsonrpc-glib client  *)
(* (src/lsp/deps/jsonrpc-glib/jsonrpc-client.c and -output-stream.c) and   *)
(* the layer over it, src/lsp/src/lsp-rpc.c.                               *)
(*                                                                         *)
(* A call enters the table of invocations and the output queue; the queue  *)
(* is written one message at a time.  A read loop takes one message after  *)
(* the other from the server.  The client panics when a read or the write  *)
(* of a call fails, and on a message it cannot place; lsp_rpc_destroy()    *)
(* closes it.  Both take the whole table away and complete its calls with  *)
(* an error from an idle callback.                                         *)
(*                                                                         *)
(* The server is any peer: it answers late, twice, with an unknown id or   *)
(* with rubbish, or it is gone.                                            *)
(***************************************************************************)
EXTENDS Naturals, Sequences, FiniteSets

CONSTANTS
    MaxCalls,   \* bound: calls of the plugin
    MaxNotes,   \* bound: messages sent that expect no answer
    MaxPeer     \* bound: messages of the server

ASSUME BoundsAssumption == MaxCalls \in Nat /\ MaxNotes \in Nat /\ MaxPeer \in Nat

VARIABLES
    sequence,         \* calls made so far; the last one is this request id
    handshake,        \* the calls with cb_on_startup_shutdown
    invocations,      \* priv->invocations: calls that await their reply
    doomed,           \* calls of a PanicData: error_invocations_from_idle is due
    rejected,         \* calls of a client that was not ready, error due
    completed,        \* how often the task of each call was completed
    answered,         \* calls completed by a message of the server
    ran,              \* calls whose LspRpcCallback ran
    queue,            \* output stream: messages not yet written
    processing,       \* output stream: the message being written, or Nothing
    notes,            \* notifications and replies sent so far
    reading,          \* a read of the read loop is outstanding
    failed,           \* priv->failed
    in_shutdown,      \* priv->in_shutdown: the connection is closed, the read cancelled
    registered,       \* the client is in client_table
    startup_shutdown, \* s->startup_shutdown of the server
    lifecycle,        \* which of initialize_cb() and stop_process() ran
    received,         \* peer: the messages that reached it, in order
    wire,             \* peer: its messages the client has not read
    sent,             \* peer: how many messages it sent
    gone              \* peer: the process ended

tables == <<handshake, invocations, doomed, rejected>>
done   == <<completed, answered, ran>>
output == <<queue, processing, notes>>
server == <<startup_shutdown, lifecycle>>
flags  == <<failed, in_shutdown, registered, server>>
peer   == <<received, wire, sent, gone>>
vars   == <<sequence, tables, done, output, reading, flags, peer>>

-----------------------------------------------------------------------------
Call  == 1 .. MaxCalls
NoMsg == 0
\* A message of the plugin: a call with its id, or one that expects no answer
\* (NoMsg).  Its number tells when it was made.
Out     == [no : 1 .. MaxCalls + MaxNotes, id : Call \cup {NoMsg}]
Nothing == [no |-> 0, id |-> NoMsg]

\* A message of the server: a result or an error for a request id (NoMsg: an id
\* that was never used or is no number), a notification, a request, or one that
\* cannot be parsed or is no JSON-RPC 2.0.
In == [type : {"result", "error"}, id : Call \cup {NoMsg}]
      \cup [type : {"notification", "call", "rubbish"}, id : {NoMsg}]

TypeOK ==
    /\ sequence \in 0 .. MaxCalls
    /\ handshake \subseteq Call
    /\ invocations \subseteq Call
    /\ doomed \subseteq Call
    /\ rejected \subseteq Call
    /\ completed \in [Call -> Nat]
    /\ answered \subseteq Call
    /\ ran \subseteq Call
    /\ queue \in Seq(Out)
    /\ processing \in Out \cup {Nothing}
    /\ notes \in 0 .. MaxNotes
    /\ reading \in BOOLEAN
    /\ failed \in BOOLEAN
    /\ in_shutdown \in BOOLEAN
    /\ registered \in BOOLEAN
    /\ startup_shutdown \in BOOLEAN
    /\ lifecycle \subseteq {"initialized", "stopped"}
    /\ received \in Seq(Out)
    /\ wire \in Seq(In)
    /\ sent \in 0 .. MaxPeer
    /\ gone \in BOOLEAN

\* lsp_rpc_new(): the client is registered and listens.
Init ==
    /\ sequence = 0
    /\ handshake = {}
    /\ invocations = {}
    /\ doomed = {}
    /\ rejected = {}
    /\ completed = [c \in Call |-> 0]
    /\ answered = {}
    /\ ran = {}
    /\ queue = <<>>
    /\ processing = Nothing
    /\ notes = 0
    /\ reading = TRUE
    /\ failed = FALSE
    /\ in_shutdown = FALSE
    /\ registered = TRUE
    /\ startup_shutdown = TRUE
    /\ lifecycle = {}
    /\ received = <<>>
    /\ wire = <<>>
    /\ sent = 0
    /\ gone = FALSE

-----------------------------------------------------------------------------
\* jsonrpc_client_check_ready(): the streams are NULL only after a panic.
Ready == ~failed /\ ~in_shutdown

\* The reply m is for a call of the table.
Awaited(m) == m.type \in {"result", "error"} /\ m.id \in invocations

\* The message that is made now.
Made(id) == [no |-> sequence + notes + 1, id |-> id]

\* Mutant: the message waits at the head of the queue.
EnqueueHead(m) ==
    IF processing = Nothing
    THEN processing' = m /\ UNCHANGED queue
    ELSE queue' = <<m>> \o queue /\ UNCHANGED processing

\* jsonrpc_output_stream_write_message_async() and its pump: m is written at
\* once when nothing else is.
Enqueue(m) ==
    IF processing = Nothing
    THEN processing' = m /\ UNCHANGED queue
    ELSE queue' = Append(queue, m) /\ UNCHANGED processing

\* Mutant: the callback runs whether or not the client is still registered.
CompleteAnyway(C) ==
    /\ completed' = [c \in Call |-> IF c \in C THEN completed[c] + 1 ELSE completed[c]]
    /\ ran' = ran \cup {c \in C : c \in handshake \/ ~startup_shutdown}

\* The tasks of C are completed; call_cb() runs the callback of an ordinary call
\* only while the client is registered and the server neither starts nor stops.
Complete(C) ==
    /\ completed' = [c \in Call |-> IF c \in C THEN completed[c] + 1 ELSE completed[c]]
    /\ ran' = ran \cup {c \in C : c \in handshake \/ (registered /\ ~startup_shutdown)}

\* Mutants: the table is copied, not taken; the calls of the table are dropped.
PanicCopies(left) ==
    /\ failed' = TRUE
    /\ doomed' = doomed \cup left
    /\ UNCHANGED invocations
PanicDrops(left) ==
    /\ failed' = TRUE
    /\ invocations' = {}
    /\ UNCHANGED doomed

\* jsonrpc_client_panic(), when calls left is what the table still holds.  The
\* jsonrpc_client_close() it ends with finds failed set and returns at once.
Panic(left) ==
    /\ failed' = TRUE
    /\ doomed' = doomed \cup left
    /\ invocations' = {}

-----------------------------------------------------------------------------
(* The plugin *)

\* call_full(): lsp_rpc_call() and lsp_rpc_call_startup_shutdown().
CallAsync(startup) ==
    /\ registered
    /\ sequence < MaxCalls
    /\ sequence' = sequence + 1
    /\ LET c == sequence + 1
       IN /\ handshake' = IF startup THEN handshake \cup {c} ELSE handshake
          /\ \/ /\ Ready
                /\ invocations' = invocations \cup {c}
                /\ Enqueue(Made(c))
                /\ UNCHANGED rejected
             \/ /\ ~Ready
                /\ rejected' = rejected \cup {c}
                /\ UNCHANGED <<invocations, queue, processing>>
    /\ UNCHANGED <<doomed, done, notes, reading, flags, peer>>

\* The error of a call that was rejected, returned from the main loop.
RejectedFails(c) ==
    /\ c \in rejected
    /\ rejected' = rejected \ {c}
    /\ Complete({c})
    /\ UNCHANGED <<sequence, handshake, invocations, doomed, answered, output,
                   reading, flags, peer>>

\* lsp_rpc_notify(): nothing is sent when the client is not ready.
Notify ==
    /\ registered
    /\ Ready
    /\ notes < MaxNotes
    /\ notes' = notes + 1
    /\ Enqueue(Made(NoMsg))
    /\ UNCHANGED <<sequence, tables, done, reading, flags, peer>>

\* lsp_rpc_destroy() and jsonrpc_client_close().
Destroy ==
    /\ registered
    /\ registered' = FALSE
    /\ IF Ready
       THEN /\ in_shutdown' = TRUE
            /\ doomed' = doomed \cup invocations
            /\ invocations' = {}
       ELSE UNCHANGED <<in_shutdown, doomed, invocations>>
    /\ UNCHANGED <<sequence, handshake, rejected, done, output, reading, failed,
                   server, peer>>

\* initialize_cb() clears s->startup_shutdown and stop_process() sets it, once each
\* and in either order.
StartupShutdown(event) ==
    /\ registered
    /\ event \notin lifecycle
    /\ lifecycle' = lifecycle \cup {event}
    /\ startup_shutdown' = (event = "stopped")
    /\ UNCHANGED <<sequence, tables, done, output, reading, failed, in_shutdown,
                   registered, peer>>

-----------------------------------------------------------------------------
(* The main loop *)

\* error_invocations_from_idle(): a task that is completed already is skipped.
ErrorInvocations ==
    /\ doomed # {}
    /\ Complete({c \in doomed : completed[c] = 0})
    /\ doomed' = {}
    /\ UNCHANGED <<sequence, handshake, invocations, rejected, answered, output,
                   reading, flags, peer>>

\* jsonrpc_output_stream_write_message_async_cb() after a successful write: the
\* next message of the queue is taken.
Written ==
    /\ processing # Nothing
    /\ ~gone
    /\ received' = Append(received, processing)
    /\ processing' = IF queue = <<>> THEN Nothing ELSE Head(queue)
    /\ queue' = IF queue = <<>> THEN <<>> ELSE Tail(queue)
    /\ UNCHANGED <<sequence, tables, done, notes, reading, flags, wire, sent, gone>>

\* The same after a failed write: the queued messages fail too; the client
\* panics when a call is among them, and nothing happens otherwise.
WriteFailed ==
    /\ processing # Nothing
    /\ gone \/ in_shutdown
    /\ processing' = Nothing
    /\ queue' = <<>>
    /\ IF processing.id \in Call \/ \E i \in DOMAIN queue : queue[i].id \in Call
       THEN Panic(invocations)
       ELSE UNCHANGED <<failed, doomed, invocations>>
    /\ UNCHANGED <<sequence, handshake, rejected, done, notes, reading, in_shutdown,
                   registered, server, peer>>

\* Mutant: the read loop ends after a message.
NextReadNever == reading' = FALSE

\* jsonrpc_client_call_read_cb(): the label begin_next_read.
NextRead == reading' = ~(in_shutdown \/ failed')

\* A message of the server was read.
ReadMessage(m) ==
    /\ reading
    /\ ~in_shutdown
    /\ wire # <<>>
    /\ m = Head(wire)
    /\ wire' = Tail(wire)
    /\ \/ /\ Awaited(m)
          /\ Complete({m.id})
          /\ answered' = answered \cup {m.id}
          /\ invocations' = invocations \ {m.id}
          /\ UNCHANGED <<doomed, output, failed>>
          /\ NextRead
       \/ /\ \/ m.type = "result" /\ ~Awaited(m)
             \/ m.type = "error" /\ m.id = NoMsg /\ ~Awaited(m)
             \/ m.type = "rubbish"
          /\ Panic(invocations)
          /\ reading' = FALSE
          /\ UNCHANGED <<done, output>>
       \/ /\ \/ m.type = "error" /\ m.id # NoMsg /\ ~Awaited(m)
             \/ m.type = "notification"
          /\ UNCHANGED <<invocations, doomed, done, output, failed>>
          /\ NextRead
       \/ /\ m.type = "call"     \* handle_call() replies, or reports no method
          /\ IF Ready /\ notes < MaxNotes
             THEN Enqueue(Made(NoMsg)) /\ notes' = notes + 1
             ELSE UNCHANGED output
          /\ UNCHANGED <<invocations, doomed, done, failed>>
          /\ NextRead
    /\ UNCHANGED <<sequence, handshake, rejected, in_shutdown, registered,
                   server, received, sent, gone>>

\* The read fails: the server closed its end.
ReadFailed ==
    /\ reading
    /\ ~in_shutdown
    /\ wire = <<>> /\ gone
    /\ Panic(invocations)
    /\ reading' = FALSE
    /\ UNCHANGED <<sequence, handshake, rejected, done, output, in_shutdown,
                   registered, server, peer>>

\* The read was cancelled by jsonrpc_client_close().
ReadCancelled ==
    /\ reading
    /\ in_shutdown
    /\ reading' = FALSE
    /\ UNCHANGED <<sequence, tables, done, output, flags, peer>>

-----------------------------------------------------------------------------
(* The server *)

\* It answers what it received, perhaps again, or sends something else.
PeerSends(m) ==
    /\ ~gone
    /\ sent < MaxPeer
    /\ m.id # NoMsg => \E i \in DOMAIN received : received[i].id = m.id
    /\ wire' = Append(wire, m)
    /\ sent' = sent + 1
    /\ UNCHANGED <<sequence, tables, done, output, reading, flags, received, gone>>

PeerExits ==
    /\ ~gone
    /\ gone' = TRUE
    /\ UNCHANGED <<sequence, tables, done, output, reading, flags, received, wire, sent>>

-----------------------------------------------------------------------------
Next ==
    \/ \E startup \in BOOLEAN : CallAsync(startup)
    \/ \E c \in Call : RejectedFails(c)
    \/ Notify
    \/ Destroy
    \/ \E event \in {"initialized", "stopped"} : StartupShutdown(event)
    \/ ErrorInvocations
    \/ Written
    \/ WriteFailed
    \/ \E m \in In : ReadMessage(m)
    \/ ReadFailed
    \/ ReadCancelled
    \/ \E m \in In : PeerSends(m)
    \/ PeerExits

Spec == Init /\ [][Next]_vars

\* The main loop gets round to its idle callbacks and to what it can read and
\* write; neither the plugin nor the server owes anything.
Fairness ==
    /\ WF_vars(ErrorInvocations)
    /\ \A c \in Call : WF_vars(RejectedFails(c))
    /\ WF_vars(Written \/ WriteFailed)
    /\ WF_vars((\E m \in In : ReadMessage(m)) \/ ReadFailed \/ ReadCancelled)

FairSpec == Spec /\ Fairness

-----------------------------------------------------------------------------
(* Properties *)

\* The calls that were made and not yet completed.
Waiting == {c \in 1 .. sequence : completed[c] = 0}

\* No call is completed twice, whatever answers, failed writes, panics and a close
\* cross each other, and each call that waits is found by exactly one of the three
\* that can complete it: a reply, the idle callback, the rejection.
EachCallOnce ==
    /\ \A c \in Call : completed[c] <= 1
    /\ Waiting = invocations \cup doomed \cup rejected
    /\ invocations \cap doomed = {}
    /\ rejected \cap (invocations \cup doomed) = {}

\* A client that failed or was closed keeps no call in its table, where no answer
\* would look for it any more.
NoneLeftBehind == failed \/ in_shutdown => invocations = {}

\* What the plugin sends reaches the server in the order it was made, each once:
\* no change of a document overtakes another one, or the call that relies on it.
MessagesInOrder ==
    \A i, j \in DOMAIN received : i < j => received[i].no < received[j].no

\* When the server is gone, no call waits for ever: the end of its output makes
\* the client fail, and failing completes what waits.
NoneWaitsOnTheDead ==
    \A c \in Call : (gone /\ c \in Waiting) ~> (completed[c] = 1)

-----------------------------------------------------------------------------
\* The client implements RpcCalls.
status == [c \in Call |->
              IF c > sequence THEN "unused"
              ELSE IF completed[c] = 0 THEN "waiting"
              ELSE IF c \in answered THEN "answered" ELSE "failed"]

Abstract == INSTANCE RpcCalls WITH
    call    <- status,
    startup <- handshake,
    told    <- ran,
    broken  <- failed \/ in_shutdown,
    closed  <- ~registered

\* Every step of the client is a step of RpcCalls or none.  In particular no answer,
\* rejection or failure that is still due when lsp_rpc_destroy() took the client away
\* runs the callback of an ordinary call, which may hold a document or a server that
\* is gone; and a server that is stopped hears of its last call.
ImplementsRpcCalls == Abstract!Spec

\* A call that waits on a broken connection fails in the end.
CallsSettled == Abstract!Settled
=============================================================================
