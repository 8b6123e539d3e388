------------------------ MODULE JsonrpcClientProofs ------------------------
(***************************************************************************)
(* Proofs about JsonrpcClient: every call is completed at most once, none  *)
(* is left in the table of a broken client, what the plugin sends arrives  *)
(* in order, and the client implements RpcCalls, whatever the numbers of   *)
(* calls and messages are.                                                 *)
(***************************************************************************)
EXTENDS JsonrpcClient, TLAPS

-----------------------------------------------------------------------------
\* A call fails only on a connection that is broken.
DoomedBroken == doomed \cup rejected # {} => failed \/ in_shutdown

\* A call that was answered is complete.
AnsweredComplete == answered \subseteq {c \in 1 .. sequence : completed[c] = 1}

\* A call that was not made has not been completed.
UnusedUntouched == \A c \in Call : c > sequence => completed[c] = 0

IInv ==
    /\ TypeOK
    /\ EachCallOnce
    /\ NoneLeftBehind
    /\ DoomedBroken
    /\ AnsweredComplete
    /\ UnusedUntouched

-----------------------------------------------------------------------------
\* The connection of a client that was just created satisfies the invariant.
LEMMA InitIInv == Init => IInv
<1> SUFFICES ASSUME Init PROVE IInv
  OBVIOUS
<1>1. TypeOK
  <2>1. 0 \in 0 .. MaxCalls /\ 0 \in 0 .. MaxNotes /\ 0 \in 0 .. MaxPeer
    BY BoundsAssumption
  <2>2. <<>> \in Seq(Out) /\ <<>> \in Seq(In)
    OBVIOUS
  <2> QED BY <2>1, <2>2 DEF Init, TypeOK
<1>2. EachCallOnce
  <2>1. Waiting = {}
    BY DEF Init, Waiting
  <2> QED BY <2>1 DEF Init, EachCallOnce
<1> QED
  BY <1>1, <1>2
  DEF Init, IInv, NoneLeftBehind, DoomedBroken, AnsweredComplete, UnusedUntouched

\* The message that is made now has the next number; there is one left for a call or
\* a notification that the bounds allow.
LEMMA MadeType ==
    ASSUME TypeOK, NEW id \in Call \cup {NoMsg}, sequence < MaxCalls \/ notes < MaxNotes
    PROVE  /\ Made(id) \in Out /\ Made(id).no = sequence + notes + 1
           /\ sequence \in Nat /\ notes \in Nat
<1>1. /\ sequence \in Nat /\ notes \in Nat /\ MaxCalls \in Nat /\ MaxNotes \in Nat
      /\ sequence <= MaxCalls /\ notes <= MaxNotes
  BY BoundsAssumption DEF TypeOK
<1>2. sequence + notes + 1 \in 1 .. MaxCalls + MaxNotes
  BY <1>1
<1> QED BY <1>1, <1>2 DEF Made, Out

\* A message enters the output queue or is written: both stay well-typed.
LEMMA EnqueueType ==
    ASSUME TypeOK, NEW m \in Out, Enqueue(m)
    PROVE  queue' \in Seq(Out) /\ processing' \in Out \cup {Nothing}
  BY DEF TypeOK, Enqueue

\* Completing calls that wait completes each of them once and no other.
LEMMA CompleteOnce ==
    ASSUME TypeOK, NEW C \in SUBSET Call, \A c \in C : completed[c] = 0, Complete(C)
    PROVE  /\ completed' \in [Call -> Nat]
           /\ ran' \subseteq Call
           /\ \A c \in Call : completed'[c] = IF c \in C THEN 1 ELSE completed[c]
  BY DEF TypeOK, Complete

-----------------------------------------------------------------------------
\* No step of the client changes the type of its state.
LEMMA TypeStep == ASSUME IInv, [Next]_vars PROVE TypeOK'
<1> USE BoundsAssumption DEF IInv, flags, server, done, output, peer, tables
<1>1. ASSUME NEW startup \in BOOLEAN, CallAsync(startup) PROVE TypeOK'
  <2>1. sequence + 1 \in Call /\ Made(sequence + 1) \in Out
    <3>1. sequence + 1 \in Call /\ sequence < MaxCalls
      BY <1>1 DEF CallAsync, TypeOK, Call
    <3> QED BY <3>1, MadeType
  <2>2. sequence' \in 0 .. MaxCalls /\ handshake' \subseteq Call
    BY <1>1, <2>1 DEF CallAsync, TypeOK, Call
  <2>3. CASE Ready
    <3>1. queue' \in Seq(Out) /\ processing' \in Out \cup {Nothing}
      BY <1>1, <2>1, <2>3, EnqueueType DEF CallAsync
    <3>2. invocations' \subseteq Call /\ UNCHANGED rejected
      BY <1>1, <2>1, <2>3 DEF CallAsync, TypeOK
    <3> QED BY <1>1, <2>2, <3>1, <3>2 DEF CallAsync, TypeOK
  <2>4. CASE ~Ready
    <3>1. rejected' \subseteq Call /\ UNCHANGED <<invocations, queue, processing>>
      BY <1>1, <2>1, <2>4 DEF CallAsync, TypeOK
    <3> QED BY <1>1, <2>2, <3>1 DEF CallAsync, TypeOK
  <2> QED BY <2>3, <2>4
<1>2. ASSUME NEW c \in Call, RejectedFails(c) PROVE TypeOK'
  BY <1>2 DEF RejectedFails, Complete, TypeOK
<1>3. CASE Notify
  <2>1. Made(NoMsg) \in Out
    BY <1>3, MadeType DEF Notify
  <2> QED BY <1>3, <2>1, EnqueueType DEF Notify, TypeOK
<1>4. CASE Destroy
  BY <1>4 DEF Destroy, TypeOK
<1>5. ASSUME NEW event \in {"initialized", "stopped"}, StartupShutdown(event) PROVE TypeOK'
  BY <1>5 DEF StartupShutdown, TypeOK
<1>6. CASE ErrorInvocations
  BY <1>6 DEF ErrorInvocations, Complete, TypeOK
<1>7. CASE Written
  BY <1>7 DEF Written, TypeOK
<1>8. CASE WriteFailed
  <2>1. processing' = Nothing /\ queue' = <<>>
    BY <1>8 DEF WriteFailed
  <2>2. failed' \in BOOLEAN /\ doomed' \subseteq Call /\ invocations' \subseteq Call
    BY <1>8 DEF WriteFailed, Panic, TypeOK
  <2>3. queue' \in Seq(Out)
    BY <2>1
  <2> QED BY <1>8, <2>1, <2>2, <2>3 DEF WriteFailed, TypeOK
<1>9. ASSUME NEW m \in In, ReadMessage(m) PROVE TypeOK'
  <2>1. notes < MaxNotes => Made(NoMsg) \in Out
    BY MadeType
  <2>2. wire' \in Seq(In)
    BY <1>9 DEF ReadMessage, TypeOK
  <2>3. reading' \in BOOLEAN
    BY <1>9 DEF ReadMessage, NextRead, TypeOK
  <2>4. /\ invocations' \subseteq Call /\ doomed' \subseteq Call
        /\ answered' \subseteq Call /\ failed' \in BOOLEAN
    BY <1>9 DEF ReadMessage, Awaited, Panic, TypeOK
  <2>5. completed' \in [Call -> Nat] /\ ran' \subseteq Call
    <3>1. (m.id \in invocations /\ Complete({m.id})) \/ UNCHANGED <<completed, ran>>
      BY <1>9 DEF ReadMessage, Awaited
    <3>2. CASE m.id \in invocations /\ Complete({m.id})
      BY <3>2 DEF Complete, TypeOK
    <3>3. CASE UNCHANGED <<completed, ran>>
      BY <3>3 DEF TypeOK
    <3> QED BY <3>1, <3>2, <3>3
  <2>6. /\ queue' \in Seq(Out) /\ processing' \in Out \cup {Nothing}
        /\ notes' \in 0 .. MaxNotes
    BY <1>9, <2>1, EnqueueType DEF ReadMessage, TypeOK
  <2> QED
    BY <1>9, <2>2, <2>3, <2>4, <2>5, <2>6 DEF ReadMessage, TypeOK
<1>10. CASE ReadFailed
  BY <1>10 DEF ReadFailed, Panic, TypeOK
<1>11. CASE ReadCancelled
  BY <1>11 DEF ReadCancelled, TypeOK
<1>12. ASSUME NEW m \in In, PeerSends(m) PROVE TypeOK'
  BY <1>12 DEF PeerSends, TypeOK
<1>13. CASE PeerExits
  BY <1>13 DEF PeerExits, TypeOK
<1>14. CASE UNCHANGED vars
  BY <1>14 DEF vars, TypeOK
<1> QED
  BY <1>1, <1>2, <1>3, <1>4, <1>5, <1>6, <1>7, <1>8, <1>9, <1>10, <1>11, <1>12, <1>13,
     <1>14 DEF Next

-----------------------------------------------------------------------------
\* What EachCallOnce says of each call, after a step that completes the waiting
\* calls C and leaves the others in one of the three tables.
LEMMA CompletedOnce ==
    ASSUME IInv, NEW C \in SUBSET Waiting, Complete(C), UNCHANGED sequence,
           (invocations \cup doomed \cup rejected)' = Waiting \ C,
           (invocations \cap doomed)' = {},
           (rejected \cap (invocations \cup doomed))' = {}
    PROVE  EachCallOnce' /\ UnusedUntouched'
<1>1. C \subseteq Call /\ Waiting \subseteq Call /\ \A c \in C : completed[c] = 0
  BY BoundsAssumption DEF IInv, TypeOK, Waiting, Call
<1>2. \A c \in Call : completed'[c] = IF c \in C THEN 1 ELSE completed[c]
  BY <1>1, CompleteOnce DEF IInv
<1>3. \A c \in Call : completed'[c] <= 1
  BY <1>2 DEF IInv, EachCallOnce
<1>4. 1 .. sequence \subseteq Call
  BY BoundsAssumption DEF IInv, TypeOK, Call
<1>5. Waiting' = Waiting \ C
  BY <1>2, <1>4 DEF Waiting
<1>6. UnusedUntouched'
  BY <1>1, <1>2 DEF IInv, UnusedUntouched, Waiting, TypeOK
<1> QED BY <1>3, <1>5, <1>6 DEF EachCallOnce

\* The same after a step that completes none.
LEMMA NoneCompleted ==
    ASSUME IInv, UNCHANGED <<completed, sequence>>,
           (invocations \cup doomed \cup rejected)' = Waiting,
           (invocations \cap doomed)' = {},
           (rejected \cap (invocations \cup doomed))' = {}
    PROVE  EachCallOnce' /\ UnusedUntouched'
<1>1. Waiting' = Waiting
  BY DEF Waiting
<1> QED BY <1>1 DEF IInv, EachCallOnce, UnusedUntouched

\* Completing calls that wait leaves the answered ones as they are.
LEMMA AnsweredStay ==
    ASSUME IInv, NEW C \in SUBSET Waiting, Complete(C), UNCHANGED sequence,
           answered' \subseteq answered \cup C
    PROVE  AnsweredComplete'
<1>1. C \subseteq Call /\ 1 .. sequence \subseteq Call /\ C \subseteq 1 .. sequence
      /\ \A c \in C : completed[c] = 0
  BY BoundsAssumption DEF IInv, TypeOK, Waiting, Call
<1>2. \A c \in Call : completed'[c] = IF c \in C THEN 1 ELSE completed[c]
  BY <1>1, CompleteOnce DEF IInv
<1> QED BY <1>1, <1>2 DEF IInv, AnsweredComplete

\* A panic moves the calls of the table to the idle callback.
LEMMA PanicSafe ==
    ASSUME IInv, Panic(invocations), UNCHANGED <<sequence, rejected, completed, answered>>
    PROVE  /\ EachCallOnce' /\ UnusedUntouched'
           /\ NoneLeftBehind' /\ DoomedBroken' /\ AnsweredComplete'
<1>1. EachCallOnce' /\ UnusedUntouched'
  <2>1. (invocations \cup doomed \cup rejected)' = Waiting
    BY DEF IInv, EachCallOnce, Panic
  <2>2. (invocations \cap doomed)' = {} /\ (rejected \cap (invocations \cup doomed))' = {}
    BY DEF IInv, EachCallOnce, Panic
  <2> QED BY <2>1, <2>2, NoneCompleted
<1>2. NoneLeftBehind' /\ DoomedBroken' /\ AnsweredComplete'
  BY DEF IInv, Panic, NoneLeftBehind, DoomedBroken, AnsweredComplete
<1> QED BY <1>1, <1>2

-----------------------------------------------------------------------------
\* No step of the client breaks the invariant.
LEMMA SafeStep == ASSUME IInv, [Next]_vars PROVE IInv'
<1> DEFINE Safe == EachCallOnce /\ NoneLeftBehind /\ DoomedBroken /\ AnsweredComplete
                   /\ UnusedUntouched
<1> SUFFICES Safe'
  BY TypeStep DEF IInv
<1>0. ASSUME sequence' = sequence, invocations' = invocations, doomed' = doomed,
             rejected' = rejected, completed' = completed, answered' = answered,
             failed' = failed, in_shutdown' = in_shutdown
      PROVE  Safe'
  BY <1>0 DEF IInv, EachCallOnce, Waiting, NoneLeftBehind, DoomedBroken,
              AnsweredComplete, UnusedUntouched
<1> USE DEF flags, server, done, output, peer, tables
<1>1. ASSUME NEW startup \in BOOLEAN, CallAsync(startup) PROVE Safe'
  <2> DEFINE c == sequence + 1
  <2>1. /\ sequence \in Nat /\ sequence' = c /\ c \in Call
        /\ 1 .. sequence' = (1 .. sequence) \cup {c} /\ c \notin 1 .. sequence
    BY <1>1, BoundsAssumption DEF CallAsync, IInv, TypeOK, Call
  <2>2. completed[c] = 0 /\ UNCHANGED <<completed, answered, doomed, failed, in_shutdown>>
    BY <1>1, <2>1 DEF CallAsync, IInv, UnusedUntouched
  <2>3. Waiting' = Waiting \cup {c} /\ c \notin Waiting
    BY <2>1, <2>2 DEF Waiting
  <2>4. \/ Ready /\ invocations' = invocations \cup {c} /\ UNCHANGED rejected
        \/ ~Ready /\ rejected' = rejected \cup {c} /\ UNCHANGED invocations
    BY <1>1 DEF CallAsync
  <2>5. EachCallOnce'
    BY <2>2, <2>3, <2>4 DEF IInv, EachCallOnce
  <2>6. NoneLeftBehind' /\ DoomedBroken'
    BY <2>2, <2>4 DEF IInv, NoneLeftBehind, DoomedBroken, Ready
  <2>7. AnsweredComplete'
    BY <2>1, <2>2 DEF IInv, AnsweredComplete
  <2>8. UnusedUntouched'
    BY <2>1, <2>2 DEF IInv, UnusedUntouched, Call
  <2> QED BY <2>5, <2>6, <2>7, <2>8
<1>2. ASSUME NEW c \in Call, RejectedFails(c) PROVE Safe'
  <2>1. /\ {c} \in SUBSET Waiting /\ Complete({c})
        /\ rejected' = rejected \ {c}
        /\ UNCHANGED <<sequence, invocations, doomed, answered, failed, in_shutdown>>
    BY <1>2 DEF RejectedFails, IInv, EachCallOnce
  <2>2. (invocations \cup doomed \cup rejected)' = Waiting \ {c}
    BY <1>2, <2>1 DEF IInv, EachCallOnce, RejectedFails
  <2>3. (invocations \cap doomed)' = {} /\ (rejected \cap (invocations \cup doomed))' = {}
    BY <2>1 DEF IInv, EachCallOnce
  <2>4. EachCallOnce' /\ UnusedUntouched'
    BY <2>1, <2>2, <2>3, CompletedOnce
  <2>5. AnsweredComplete'
    BY <2>1, AnsweredStay
  <2> QED BY <2>1, <2>4, <2>5 DEF IInv, NoneLeftBehind, DoomedBroken
<1>3. CASE Notify
  BY <1>3, <1>0 DEF Notify
<1>4. CASE Destroy
  <2>1. CASE Ready
    <3>1. /\ in_shutdown' = TRUE /\ doomed' = doomed \cup invocations /\ invocations' = {}
          /\ UNCHANGED <<sequence, rejected, completed, answered, failed>>
      BY <1>4, <2>1 DEF Destroy
    <3>2. (invocations \cup doomed \cup rejected)' = Waiting
      BY <3>1 DEF IInv, EachCallOnce
    <3>3. (invocations \cap doomed)' = {} /\ (rejected \cap (invocations \cup doomed))' = {}
      BY <3>1 DEF IInv, EachCallOnce
    <3>4. EachCallOnce' /\ UnusedUntouched'
      BY <3>1, <3>2, <3>3, NoneCompleted
    <3> QED BY <3>1, <3>4 DEF IInv, NoneLeftBehind, DoomedBroken, AnsweredComplete
  <2>2. CASE ~Ready
    BY <1>4, <2>2, <1>0 DEF Destroy
  <2> QED BY <2>1, <2>2
<1>5. ASSUME NEW event \in {"initialized", "stopped"}, StartupShutdown(event) PROVE Safe'
  BY <1>5, <1>0 DEF StartupShutdown
<1>6. CASE ErrorInvocations
  <2> DEFINE C == {c \in doomed : completed[c] = 0}
  <2>1. /\ doomed # {} /\ Complete(C) /\ doomed' = {}
        /\ UNCHANGED <<sequence, invocations, rejected, answered, failed, in_shutdown>>
    BY <1>6 DEF ErrorInvocations
  <2>2. C = doomed /\ C \in SUBSET Waiting
    BY DEF IInv, EachCallOnce, Waiting
  <2>3. (invocations \cup doomed \cup rejected)' = Waiting \ C
    BY <2>1, <2>2 DEF IInv, EachCallOnce
  <2>4. (invocations \cap doomed)' = {} /\ (rejected \cap (invocations \cup doomed))' = {}
    BY <2>1 DEF IInv, EachCallOnce
  <2>5. EachCallOnce' /\ UnusedUntouched'
    BY <2>1, <2>2, <2>3, <2>4, CompletedOnce
  <2>6. AnsweredComplete'
    BY <2>1, <2>2, AnsweredStay
  <2> QED BY <2>1, <2>5, <2>6 DEF IInv, NoneLeftBehind, DoomedBroken
<1>7. CASE Written
  BY <1>7, <1>0 DEF Written
<1>8. CASE WriteFailed
  <2>1. CASE Panic(invocations)
    BY <1>8, <2>1, PanicSafe DEF WriteFailed
  <2>2. CASE UNCHANGED <<failed, doomed, invocations>>
    BY <1>8, <2>2, <1>0 DEF WriteFailed
  <2> QED BY <1>8, <2>1, <2>2 DEF WriteFailed
<1>9. ASSUME NEW m \in In, ReadMessage(m) PROVE Safe'
  <2>1. UNCHANGED <<sequence, rejected, in_shutdown>>
    BY <1>9 DEF ReadMessage
  <2>2. \/ /\ m.id \in invocations /\ Complete({m.id})
           /\ answered' = answered \cup {m.id} /\ invocations' = invocations \ {m.id}
           /\ UNCHANGED <<doomed, failed>>
        \/ Panic(invocations) /\ UNCHANGED <<completed, answered>>
        \/ UNCHANGED <<invocations, doomed, completed, answered, failed>>
    BY <1>9 DEF ReadMessage, Awaited
  <2>3. CASE /\ m.id \in invocations /\ Complete({m.id})
             /\ answered' = answered \cup {m.id} /\ invocations' = invocations \ {m.id}
             /\ UNCHANGED <<doomed, failed>>
    <3>1. {m.id} \in SUBSET Waiting
      BY <2>3 DEF IInv, EachCallOnce
    <3>2. (invocations \cup doomed \cup rejected)' = Waiting \ {m.id}
      BY <2>1, <2>3 DEF IInv, EachCallOnce
    <3>3. (invocations \cap doomed)' = {} /\ (rejected \cap (invocations \cup doomed))' = {}
      BY <2>1, <2>3 DEF IInv, EachCallOnce
    <3>4. EachCallOnce' /\ UnusedUntouched'
      BY <2>1, <2>3, <3>1, <3>2, <3>3, CompletedOnce
    <3>5. AnsweredComplete'
      BY <2>1, <2>3, <3>1, AnsweredStay
    <3> QED BY <2>1, <2>3, <3>4, <3>5 DEF IInv, NoneLeftBehind, DoomedBroken
  <2>4. CASE Panic(invocations) /\ UNCHANGED <<completed, answered>>
    BY <2>1, <2>4, PanicSafe
  <2>5. CASE UNCHANGED <<invocations, doomed, completed, answered, failed>>
    BY <2>1, <2>5, <1>0
  <2> QED BY <2>2, <2>3, <2>4, <2>5
<1>10. CASE ReadFailed
  BY <1>10, PanicSafe DEF ReadFailed
<1>11. CASE ReadCancelled
  BY <1>11, <1>0 DEF ReadCancelled
<1>12. ASSUME NEW m \in In, PeerSends(m) PROVE Safe'
  BY <1>12, <1>0 DEF PeerSends
<1>13. CASE PeerExits
  BY <1>13, <1>0 DEF PeerExits
<1>14. CASE UNCHANGED vars
  BY <1>14, <1>0 DEF vars
<1> QED
  BY <1>1, <1>2, <1>3, <1>4, <1>5, <1>6, <1>7, <1>8, <1>9, <1>10, <1>11, <1>12, <1>13,
     <1>14 DEF Next

-----------------------------------------------------------------------------
\* The invariant holds in every reachable state of the client.
THEOREM Inductive == Spec => []IInv
<1>1. IInv /\ [Next]_vars => IInv'
  BY SafeStep
<1> QED BY InitIInv, <1>1, PTL DEF Spec

\* The state of a connection keeps its type.
THEOREM TypeCorrect == Spec => []TypeOK
<1>1. IInv => TypeOK
  BY DEF IInv
<1> QED BY Inductive, <1>1, PTL

\* No call is completed twice and none gets lost, however answers, failed writes and
\* reads, panics and lsp_rpc_destroy() cross each other.
THEOREM CompletesOnce == Spec => []EachCallOnce
<1>1. IInv => EachCallOnce
  BY DEF IInv
<1> QED BY Inductive, <1>1, PTL

\* A client that failed or was closed holds no call in its table of invocations.
THEOREM TableEmptied == Spec => []NoneLeftBehind
<1>1. IInv => NoneLeftBehind
  BY DEF IInv
<1> QED BY Inductive, <1>1, PTL

-----------------------------------------------------------------------------
(* The order of the messages.  A message is in the output queue, is being        *)
(* written, or has reached the server; the three follow each other and each is in *)
(* the order of the numbers.                                                     *)

\* The messages of s are in the order they were made.
Rising(s) == \A i, j \in DOMAIN s : i < j => s[i].no < s[j].no

\* The messages of s were made before message m.
Precedes(s, m) == \A i \in DOMAIN s : s[i].no < m.no

\* Every message of s was made before every message of t.
AllPrecede(s, t) == \A j \in DOMAIN t : Precedes(s, t[j])

\* The messages of s have been made.
Numbered(s) == \A i \in DOMAIN s : s[i].no <= sequence + notes

InOrder ==
    /\ MessagesInOrder
    /\ Rising(queue)
    /\ AllPrecede(received, queue)
    /\ processing # Nothing => Precedes(received, processing)
    /\ \A j \in DOMAIN queue : processing.no < queue[j].no
    /\ Numbered(received) /\ Numbered(queue)
    /\ processing.no <= sequence + notes
    /\ processing = Nothing => queue = <<>>

\* Every message is a record with a number.
LEMMA Numbers ==
    /\ \A m \in Out : m.no \in Nat \ {0} /\ m # Nothing
    /\ Nothing.no = 0
  BY BoundsAssumption DEF Out, Nothing

\* Nothing has been sent by a client that was just created.
LEMMA InitInOrder == Init => InOrder
<1> SUFFICES ASSUME Init PROVE InOrder
  OBVIOUS
<1>1. DOMAIN received = {} /\ DOMAIN queue = {} /\ queue = <<>> /\ processing.no = 0
      /\ processing = Nothing /\ sequence + notes = 0
  BY Numbers DEF Init
<1> QED
  BY <1>1 DEF InOrder, MessagesInOrder, Rising, AllPrecede, Numbered

\* The message that is made now goes behind all others.
LEMMA EnqueueInOrder ==
    ASSUME TypeOK, InOrder, NEW m \in Out, Enqueue(m), received' = received,
           m.no = sequence + notes + 1, sequence' + notes' = sequence + notes + 1
    PROVE  InOrder'
<1>1. /\ received \in Seq(Out) /\ queue \in Seq(Out)
      /\ sequence \in Nat /\ notes \in Nat /\ m # Nothing
      /\ processing.no \in Nat
      /\ \A i \in DOMAIN received : received[i].no \in Nat
      /\ \A j \in DOMAIN queue : queue[j].no \in Nat
  BY Numbers DEF TypeOK
<1>2. Precedes(received, m) /\ Precedes(queue, m) /\ processing.no < m.no
  BY <1>1 DEF InOrder, Precedes, Numbered
<1>3. MessagesInOrder' /\ Numbered(received)'
  <2>1. MessagesInOrder'
    BY DEF InOrder, MessagesInOrder
  <2>2. Numbered(received)'
    BY <1>1 DEF InOrder, Numbered
  <2> QED BY <2>1, <2>2
<1>4. CASE processing = Nothing
  <2>1. processing' = m /\ queue' = queue /\ DOMAIN queue = {}
    BY <1>4 DEF Enqueue, InOrder
  <2>2. Rising(queue)' /\ AllPrecede(received, queue)' /\ Numbered(queue)'
    BY <2>1 DEF Rising, AllPrecede, Numbered
  <2>3. Precedes(received, processing)' /\ processing'.no <= sequence' + notes'
        /\ processing' # Nothing
    BY <1>1, <1>2, <2>1 DEF Precedes
  <2> QED BY <1>3, <2>1, <2>2, <2>3 DEF InOrder
<1>5. CASE processing # Nothing
  <2>1. processing' = processing /\ queue' = Append(queue, m)
    BY <1>5 DEF Enqueue
  <2>2. /\ DOMAIN queue = 1 .. Len(queue) /\ Len(queue) \in Nat
        /\ DOMAIN queue' = 1 .. Len(queue) + 1
        /\ queue'[Len(queue) + 1] = m
        /\ \A j \in 1 .. Len(queue) : queue'[j] = queue[j]
    BY <1>1, <2>1
  <2>3. Rising(queue)'
    <3> SUFFICES ASSUME NEW i \in DOMAIN queue', NEW j \in DOMAIN queue', i < j
                 PROVE  queue'[i].no < queue'[j].no
      BY DEF Rising
    <3>1. i \in DOMAIN queue /\ queue'[i] = queue[i]
      BY <2>2
    <3>2. CASE j = Len(queue) + 1
      BY <1>2, <2>2, <3>1, <3>2 DEF Precedes
    <3>3. CASE j # Len(queue) + 1
      BY <2>2, <3>1, <3>3 DEF InOrder, Rising
    <3> QED BY <3>2, <3>3
  <2>4. AllPrecede(received, queue)'
    <3>1. \A j \in DOMAIN queue' : Precedes(received, queue'[j])
      BY <1>2, <2>2 DEF InOrder, AllPrecede
    <3> QED BY <3>1 DEF AllPrecede, Precedes
  <2>5. \A j \in DOMAIN queue' : processing.no < queue'[j].no
    BY <1>2, <2>2 DEF InOrder
  <2>6. Numbered(queue)'
    <3> SUFFICES ASSUME NEW j \in DOMAIN queue' PROVE queue'[j].no <= sequence + notes + 1
      BY DEF Numbered
    <3>1. CASE j = Len(queue) + 1
      BY <1>1, <2>2, <3>1
    <3>2. CASE j # Len(queue) + 1
      <4>1. j \in DOMAIN queue /\ queue'[j] = queue[j]
        BY <2>2, <3>2
      <4>2. queue[j].no <= sequence + notes /\ queue[j].no \in Nat
        BY <1>1, <4>1 DEF InOrder, Numbered
      <4> QED BY <1>1, <4>1, <4>2
    <3> QED BY <3>1, <3>2
  <2>7. Precedes(received, processing)' /\ processing'.no <= sequence' + notes'
    BY <1>1, <1>5, <2>1 DEF InOrder, Precedes
  <2> QED
    BY <1>3, <1>5, <2>1, <2>3, <2>4, <2>5, <2>6, <2>7 DEF InOrder
<1> QED
  BY <1>4, <1>5

\* Nothing is sent; a call may be made that is rejected.
LEMMA SameOrder ==
    ASSUME TypeOK, InOrder, sequence' \in {sequence, sequence + 1}, notes' = notes,
           received' = received, queue' = queue, processing' = processing
    PROVE  InOrder'
<1>1. /\ sequence + notes \in Nat
      /\ sequence' + notes' \in {sequence + notes, sequence + notes + 1}
      /\ processing.no \in Nat
      /\ \A i \in DOMAIN received : received[i].no \in Nat
      /\ \A j \in DOMAIN queue : queue[j].no \in Nat
  BY Numbers DEF TypeOK
<1>2. Numbered(received)' /\ Numbered(queue)' /\ processing'.no <= sequence' + notes'
  BY <1>1 DEF InOrder, Numbered
<1> QED
  BY <1>2 DEF InOrder, MessagesInOrder, Rising, AllPrecede, Precedes

\* The message that was written is the last one received, and the head of the queue
\* is next.
LEMMA WrittenInOrder == ASSUME TypeOK, InOrder, Written PROVE InOrder'
<1>1. /\ received \in Seq(Out) /\ queue \in Seq(Out)
      /\ sequence + notes \in Nat /\ processing \in Out /\ processing.no \in Nat
  BY Numbers DEF TypeOK, Written
<1>2. received' = Append(received, processing) /\ sequence' = sequence /\ notes' = notes
  BY DEF Written
<1>3. /\ DOMAIN received = 1 .. Len(received) /\ Len(received) \in Nat
      /\ DOMAIN received' = 1 .. Len(received) + 1
      /\ received'[Len(received) + 1] = processing
      /\ \A i \in 1 .. Len(received) : received'[i] = received[i]
  BY <1>1, <1>2
<1>4. Precedes(received, processing)
  BY DEF InOrder, Written
<1>5. MessagesInOrder' /\ Numbered(received)'
  <2>1. MessagesInOrder'
    <3> SUFFICES ASSUME NEW i \in DOMAIN received', NEW j \in DOMAIN received', i < j
                 PROVE  received'[i].no < received'[j].no
      BY DEF MessagesInOrder
    <3>1. i \in DOMAIN received /\ received'[i] = received[i]
      BY <1>3
    <3>2. CASE j = Len(received) + 1
      BY <1>3, <1>4, <3>1, <3>2 DEF Precedes
    <3>3. CASE j # Len(received) + 1
      BY <1>3, <3>1, <3>3 DEF InOrder, MessagesInOrder
    <3> QED BY <3>2, <3>3
  <2>2. Numbered(received)'
    BY <1>2, <1>3 DEF InOrder, Numbered
  <2> QED BY <2>1, <2>2
<1>6. CASE queue = <<>>
  <2>1. processing' = Nothing /\ queue' = <<>> /\ DOMAIN queue' = {} /\ processing'.no = 0
    BY <1>6, Numbers DEF Written
  <2> QED
    BY <1>1, <1>2, <1>5, <2>1 DEF InOrder, Rising, AllPrecede, Numbered
<1>7. CASE queue # <<>>
  <2>1. processing' = Head(queue) /\ queue' = Tail(queue)
    BY <1>7 DEF Written
  <2>2. /\ DOMAIN queue = 1 .. Len(queue) /\ Len(queue) \in Nat \ {0}
        /\ processing' = queue[1] /\ queue[1] \in Out
        /\ DOMAIN queue' = 1 .. Len(queue) - 1
        /\ \A j \in 1 .. Len(queue) - 1 : queue'[j] = queue[j + 1]
    BY <1>1, <1>7, <2>1
  <2>3. Rising(queue)' /\ Numbered(queue)'
    <3>1. Rising(queue)'
      <4> SUFFICES ASSUME NEW i \in 1 .. Len(queue) - 1, NEW j \in 1 .. Len(queue) - 1,
                          i < j
                   PROVE  queue[i + 1].no < queue[j + 1].no
        BY <2>2 DEF Rising
      <4>1. i + 1 \in DOMAIN queue /\ j + 1 \in DOMAIN queue /\ i + 1 < j + 1
        BY <2>2
      <4> QED BY <4>1 DEF InOrder, Rising
    <3>2. Numbered(queue)'
      <4> SUFFICES ASSUME NEW j \in 1 .. Len(queue) - 1
                   PROVE  queue[j + 1].no <= sequence + notes
        BY <1>2, <2>2 DEF Numbered
      <4>1. j + 1 \in DOMAIN queue
        BY <2>2
      <4> QED BY <4>1 DEF InOrder, Numbered
    <3> QED BY <3>1, <3>2
  <2>4. \A j \in 1 .. Len(queue) : Precedes(received', queue[j])
    <3> SUFFICES ASSUME NEW j \in 1 .. Len(queue) PROVE Precedes(received', queue[j])
      OBVIOUS
    <3>1. Precedes(received, queue[j]) /\ processing.no < queue[j].no
      BY <2>2 DEF InOrder, AllPrecede
    <3> QED BY <1>3, <3>1 DEF Precedes
  <2>5. Precedes(received, processing)' /\ AllPrecede(received, queue)'
    <3>1. Precedes(received', processing')
      BY <2>2, <2>4
    <3>2. \A j \in DOMAIN queue' : Precedes(received', queue'[j])
      BY <2>2, <2>4
    <3> QED BY <3>1, <3>2 DEF AllPrecede, Precedes
  <2>6. \A j \in DOMAIN queue' : processing'.no < queue'[j].no
    <3> SUFFICES ASSUME NEW j \in 1 .. Len(queue) - 1
                 PROVE  queue[1].no < queue[j + 1].no
      BY <2>2
    <3>1. 1 \in DOMAIN queue /\ j + 1 \in DOMAIN queue /\ 1 < j + 1
      BY <2>2
    <3> QED BY <3>1 DEF InOrder, Rising
  <2>7. processing' # Nothing /\ processing'.no <= sequence' + notes'
    BY <1>2, <2>2, Numbers DEF InOrder, Numbered
  <2> QED
    BY <1>5, <2>3, <2>5, <2>6, <2>7 DEF InOrder
<1> QED
  BY <1>6, <1>7

\* A write that fails empties the queue.
LEMMA FailedInOrder ==
    ASSUME TypeOK, InOrder, WriteFailed PROVE InOrder'
<1>1. /\ processing' = Nothing /\ queue' = <<>> /\ DOMAIN queue' = {}
      /\ processing'.no = 0 /\ sequence + notes \in Nat
      /\ sequence' = sequence /\ notes' = notes /\ received' = received
  BY Numbers DEF WriteFailed, peer, TypeOK
<1> QED
  BY <1>1 DEF InOrder, MessagesInOrder, Rising, AllPrecede, Numbered

\* No step of the client puts the messages out of order.
LEMMA OrderStep == ASSUME TypeOK, InOrder, [Next]_vars PROVE InOrder'
<1> USE DEF flags, server, done, output, peer, tables
<1>1. ASSUME NEW startup \in BOOLEAN, CallAsync(startup) PROVE InOrder'
  <2>1. /\ sequence' = sequence + 1 /\ notes' = notes /\ received' = received
        /\ sequence < MaxCalls /\ sequence + 1 \in Call
    BY <1>1, BoundsAssumption DEF CallAsync, TypeOK, Call
  <2>2. CASE Ready
    <3>1. Enqueue(Made(sequence + 1)) /\ Made(sequence + 1) \in Out
          /\ Made(sequence + 1).no = sequence + notes + 1
          /\ sequence' + notes' = sequence + notes + 1
      BY <1>1, <2>1, <2>2, MadeType DEF CallAsync
    <3> QED BY <2>1, <3>1, EnqueueInOrder
  <2>3. CASE ~Ready
    <3>1. queue' = queue /\ processing' = processing
      BY <1>1, <2>3 DEF CallAsync
    <3> QED BY <2>1, <3>1, SameOrder
  <2> QED BY <2>2, <2>3
<1>2. ASSUME NEW c \in Call, RejectedFails(c) PROVE InOrder'
  BY <1>2, SameOrder DEF RejectedFails
<1>3. ASSUME Enqueue(Made(NoMsg)), notes < MaxNotes, notes' = notes + 1,
             sequence' = sequence, received' = received
      PROVE  InOrder'
  <2>1. Made(NoMsg) \in Out /\ Made(NoMsg).no = sequence + notes + 1
        /\ sequence' + notes' = sequence + notes + 1
    BY <1>3, MadeType
  <2> QED BY <1>3, <2>1, EnqueueInOrder
<1>4. CASE Notify
  BY <1>3, <1>4 DEF Notify
<1>5. CASE Destroy
  BY <1>5, SameOrder DEF Destroy
<1>6. ASSUME NEW event \in {"initialized", "stopped"}, StartupShutdown(event) PROVE InOrder'
  BY <1>6, SameOrder DEF StartupShutdown
<1>7. CASE ErrorInvocations
  BY <1>7, SameOrder DEF ErrorInvocations
<1>8. CASE Written
  BY <1>8, WrittenInOrder
<1>9. CASE WriteFailed
  BY <1>9, FailedInOrder
<1>10. ASSUME NEW m \in In, ReadMessage(m) PROVE InOrder'
  <2>1. sequence' = sequence /\ received' = received
    BY <1>10 DEF ReadMessage
  <2>2. \/ Enqueue(Made(NoMsg)) /\ notes < MaxNotes /\ notes' = notes + 1
        \/ queue' = queue /\ processing' = processing /\ notes' = notes
    BY <1>10 DEF ReadMessage
  <2> QED BY <1>3, <2>1, <2>2, SameOrder
<1>11. CASE ReadFailed
  BY <1>11, SameOrder DEF ReadFailed
<1>12. CASE ReadCancelled
  BY <1>12, SameOrder DEF ReadCancelled
<1>13. ASSUME NEW m \in In, PeerSends(m) PROVE InOrder'
  BY <1>13, SameOrder DEF PeerSends
<1>14. CASE PeerExits
  BY <1>14, SameOrder DEF PeerExits
<1>15. CASE UNCHANGED vars
  BY <1>15, SameOrder DEF vars
<1> QED
  BY <1>1, <1>2, <1>4, <1>5, <1>6, <1>7, <1>8, <1>9, <1>10, <1>11, <1>12, <1>13, <1>14,
     <1>15 DEF Next

\* Calls, notifications and replies reach the server in the order they were made and
\* each once, whatever is queued behind a write or fails with it.
THEOREM ReachedInOrder == Spec => []MessagesInOrder
<1>1. InOrder => MessagesInOrder
  BY DEF InOrder
<1>2. TypeOK /\ InOrder /\ [Next]_vars => InOrder'
  BY OrderStep
<1> QED BY InitInOrder, TypeCorrect, <1>1, <1>2, PTL DEF Spec

-----------------------------------------------------------------------------
\* A connection that failed or was closed is broken for RpcCalls.
Broken == failed \/ in_shutdown

\* Completing calls tells their callers as RpcCalls allows: call_cb() runs the
\* callbacks of startup and shutdown, and the others only of a registered client.
LEMMA CompleteTells == ASSUME NEW C \in SUBSET Call, Complete(C) PROVE Abstract!Tell(C)
<1> DEFINE T == {c \in C : c \in handshake \/ (registered /\ ~startup_shutdown)}
<1>1. /\ T \in SUBSET C /\ C \cap handshake \subseteq T
      /\ ~registered => T \subseteq handshake
      /\ ran' = ran \cup T
  BY DEF Complete
<1> HIDE DEF T
<1> QED BY <1>1 DEF Abstract!Tell

\* Completing the waiting calls C of a broken connection is a failure of C.
LEMMA FailStep ==
    ASSUME IInv, NEW C \in SUBSET Waiting, Complete(C), Broken,
           UNCHANGED <<sequence, handshake, answered, failed, in_shutdown, registered>>
    PROVE  Abstract!Next
<1>1. C \in SUBSET Call /\ \A c \in C : c <= sequence /\ completed[c] = 0
  BY BoundsAssumption DEF IInv, TypeOK, Waiting, Call
<1>2. \A c \in Call : completed'[c] = IF c \in C THEN 1 ELSE completed[c]
  BY <1>1, CompleteOnce DEF IInv
<1>3. \A c \in C : c \notin answered
  <2>1. \A c \in answered : completed[c] = 1
    BY DEF IInv, AnsweredComplete
  <2> QED BY <1>1, <2>1
<1>4. \A c \in Call : sequence \in Nat /\ c \in Nat
  BY BoundsAssumption DEF IInv, TypeOK, Call
<1>5. \A c \in C : status[c] = "waiting"
  BY <1>1, <1>4 DEF status
<1>6. status' = [c \in Call |-> IF c \in C THEN "failed" ELSE status[c]]
  BY <1>1, <1>2, <1>3, <1>4 DEF status
<1>7. Abstract!Fail(C)
  BY <1>1, <1>5, <1>6, CompleteTells DEF Abstract!Fail, Broken
<1> QED BY <1>1, <1>7 DEF Abstract!Next

\* A reply that completes a call of the table is its answer.
LEMMA AnswerStep ==
    ASSUME IInv, NEW c \in invocations, Complete({c}), answered' = answered \cup {c},
           UNCHANGED <<sequence, handshake, failed, in_shutdown, registered>>
    PROVE  Abstract!Next
<1>1. c \in Call /\ c \in Waiting /\ ~Broken
  BY DEF IInv, TypeOK, EachCallOnce, NoneLeftBehind, Broken
<1>2. c \in 1 .. sequence /\ completed[c] = 0
  BY <1>1 DEF Waiting
<1>3. \A d \in Call : completed'[d] = IF d \in {c} THEN 1 ELSE completed[d]
  BY <1>1, <1>2, CompleteOnce DEF IInv
<1>4. sequence \in Nat /\ \A d \in Call : d \in Nat
  BY BoundsAssumption DEF IInv, TypeOK, Call
<1>5. status[c] = "waiting"
  BY <1>1, <1>2, <1>4 DEF status
<1>6. status' = [status EXCEPT ![c] = "answered"]
  <2>1. \A d \in Call : status'[d] = IF d = c THEN "answered" ELSE status[d]
    BY <1>1, <1>2, <1>3, <1>4 DEF status
  <2> QED BY <1>1, <2>1 DEF status
<1>7. Abstract!Answer(c)
  BY <1>1, <1>5, <1>6, CompleteTells DEF Abstract!Answer, Broken
<1> QED BY <1>1, <1>7 DEF Abstract!Next

\* A connection that breaks or is closed while no call is made or completed.
LEMMA BreakStep ==
    ASSUME UNCHANGED <<sequence, handshake, completed, answered, ran>>, Broken',
           registered' = registered \/ (registered /\ ~registered')
    PROVE  Abstract!Next
<1>1. status' = status
  BY DEF status
<1>2. CASE registered' = registered
  BY <1>1, <1>2 DEF Abstract!Next, Abstract!Break, Broken
<1>3. CASE registered /\ ~registered'
  BY <1>1, <1>3 DEF Abstract!Next, Abstract!Close, Broken
<1> QED BY <1>2, <1>3

\* A step that RpcCalls does not see.
LEMMA Stutter ==
    ASSUME sequence' = sequence, completed' = completed, answered' = answered,
           handshake' = handshake, ran' = ran, registered' = registered,
           failed' = failed, in_shutdown' = in_shutdown
    PROVE  UNCHANGED Abstract!vars
<1>1. status' = status
  BY DEF status
<1> QED BY <1>1 DEF Abstract!vars

\* Every step of the client is a step of RpcCalls or none.
LEMMA StepImplements == ASSUME IInv, [Next]_vars PROVE [Abstract!Next]_(Abstract!vars)
<1> USE DEF flags, server, done, output, peer, tables
<1>1. ASSUME NEW startup \in BOOLEAN, CallAsync(startup) PROVE [Abstract!Next]_(Abstract!vars)
  <2> DEFINE c == sequence + 1
  <2>1. /\ sequence \in Nat /\ sequence' = c /\ c \in Call
        /\ \A d \in Call : d \in Nat
    BY <1>1, BoundsAssumption DEF CallAsync, IInv, TypeOK, Call
  <2>2. completed[c] = 0 /\ UNCHANGED <<completed, answered, failed, in_shutdown>>
    BY <1>1, <2>1 DEF CallAsync, IInv, UnusedUntouched
  <2>3. status[c] = "unused"
    BY <2>1 DEF status
  <2>4. status' = [status EXCEPT ![c] = "waiting"]
    <3>1. \A d \in Call : d > sequence + 1 <=> d > sequence /\ d # c
      BY <2>1
    <3>2. \A d \in Call : status'[d] = IF d = c THEN "waiting" ELSE status[d]
      BY <2>1, <2>2, <3>1 DEF status
    <3> QED BY <2>1, <3>2 DEF status
  <2>5. Abstract!Invoke(c)
    <3>1. registered /\ handshake' \in {handshake, handshake \cup {c}}
          /\ UNCHANGED <<ran, registered>>
      BY <1>1 DEF CallAsync
    <3> QED BY <2>2, <2>3, <2>4, <3>1 DEF Abstract!Invoke
  <2> QED BY <2>1, <2>5 DEF Abstract!Next
<1>2. ASSUME NEW c \in Call, RejectedFails(c) PROVE [Abstract!Next]_(Abstract!vars)
  <2>1. /\ {c} \in SUBSET Waiting /\ Complete({c}) /\ Broken
        /\ UNCHANGED <<sequence, handshake, answered, failed, in_shutdown, registered>>
    BY <1>2 DEF RejectedFails, IInv, EachCallOnce, DoomedBroken, Broken
  <2> QED BY <2>1, FailStep
<1>3. CASE Notify
  BY <1>3, Stutter DEF Notify
<1>4. CASE Destroy
  <2>1. Broken'
    BY <1>4 DEF Destroy, Ready, Broken
  <2> QED BY <1>4, <2>1, BreakStep DEF Destroy
<1>5. ASSUME NEW event \in {"initialized", "stopped"}, StartupShutdown(event)
      PROVE  [Abstract!Next]_(Abstract!vars)
  BY <1>5, Stutter DEF StartupShutdown
<1>6. CASE ErrorInvocations
  <2>1. {c \in doomed : completed[c] = 0} \in SUBSET Waiting /\ Broken
    BY <1>6 DEF ErrorInvocations, IInv, EachCallOnce, DoomedBroken, Broken
  <2> QED BY <1>6, <2>1, FailStep DEF ErrorInvocations
<1>7. CASE Written
  BY <1>7, Stutter DEF Written
<1>8. CASE WriteFailed
  <2>1. CASE Panic(invocations)
    BY <1>8, <2>1, BreakStep DEF WriteFailed, Panic, Broken
  <2>2. CASE UNCHANGED <<failed, doomed, invocations>>
    BY <1>8, <2>2, Stutter DEF WriteFailed
  <2> QED BY <1>8, <2>1, <2>2 DEF WriteFailed
<1>9. ASSUME NEW m \in In, ReadMessage(m) PROVE [Abstract!Next]_(Abstract!vars)
  <2>1. /\ sequence' = sequence /\ handshake' = handshake
        /\ in_shutdown' = in_shutdown /\ registered' = registered
    BY <1>9 DEF ReadMessage
  <2>2. CASE /\ m.id \in invocations /\ Complete({m.id})
             /\ answered' = answered \cup {m.id} /\ UNCHANGED failed
    BY <2>1, <2>2, AnswerStep
  <2>3. CASE Panic(invocations) /\ UNCHANGED <<completed, answered, ran>>
    BY <2>1, <2>3, BreakStep DEF Panic, Broken
  <2>4. CASE UNCHANGED <<completed, answered, ran, failed>>
    BY <2>1, <2>4, Stutter
  <2> QED BY <1>9, <2>2, <2>3, <2>4 DEF ReadMessage, Awaited
<1>10. CASE ReadFailed
  BY <1>10, BreakStep DEF ReadFailed, Panic, Broken
<1>11. CASE ReadCancelled
  BY <1>11, Stutter DEF ReadCancelled
<1>12. ASSUME NEW m \in In, PeerSends(m) PROVE [Abstract!Next]_(Abstract!vars)
  BY <1>12, Stutter DEF PeerSends
<1>13. CASE PeerExits
  BY <1>13, Stutter DEF PeerExits
<1>14. CASE UNCHANGED vars
  BY <1>14, Stutter DEF vars
<1> QED
  BY <1>1, <1>2, <1>3, <1>4, <1>5, <1>6, <1>7, <1>8, <1>9, <1>10, <1>11, <1>12, <1>13,
     <1>14 DEF Next

\* The client implements RpcCalls: a call is answered or fails, once, it fails only on
\* a connection that is broken, and its caller is told then; once lsp_rpc_destroy() took
\* the client away, only the calls that start and stop the server are told.
THEOREM Implements == Spec => ImplementsRpcCalls
<1>1. Init => Abstract!Init
  <2> SUFFICES ASSUME Init PROVE Abstract!Init
    OBVIOUS
  <2>1. \A c \in Call : c > sequence
    BY BoundsAssumption DEF Init, Call
  <2>2. status = [c \in Call |-> "unused"]
    BY <2>1 DEF status
  <2> QED BY <2>2 DEF Init, Abstract!Init
<1>2. IInv /\ [Next]_vars => [Abstract!Next]_(Abstract!vars)
  BY StepImplements
<1> QED BY Inductive, <1>1, <1>2, PTL DEF Spec, ImplementsRpcCalls, Abstract!Spec
=============================================================================
