-------------------------- MODULE SaveChainProofs --------------------------
(***************************************************************************)
(* What TLAPS proves of SaveChain, for any documents, code actions and     *)
(* bounds: every way through the callbacks of a save goes on or ends, and  *)
(* what ends is saved.                                                     *)
(*                                                                         *)
(* The links of the chain work on the tables M; there is a lemma per link, *)
(* then one per action.                                                    *)
(***************************************************************************)
EXTENDS SaveChain, TLAPS

USE ConfigsAssumption, NullAssumption, BoundsAssumption

\* Without the bound of Commit(), which the links do not know.
Tables == [doc : [Doc -> DocType], calls : [Doc -> [Kind -> Nat]]]

GoodDoc(r) ==
    /\ r \in DocType
    /\ r.open \/ r = Closed
    /\ r.marked \/ r.performed = {}

Sound(M) == M \in Tables /\ \A d \in Doc : GoodDoc(M.doc[d])

\* A call for d is unanswered.
CallOut(M, d) == \E k \in Kind : M.calls[d][k] > 0

\* A link of the chain of d does nothing to other documents, and opens and closes none.
Link(N, M, d) ==
    /\ Sound(N)
    /\ N.doc[d].open = M.doc[d].open
    /\ \A e \in Doc \ {d} : N.doc[e] = M.doc[e] /\ N.calls[e] = M.calls[e]

\* A chain goes on: the mark stays.
GoesOn(N, M, d) == Link(N, M, d) /\ (M.doc[d].marked => N.doc[d].marked)

\* A chain may end: what loses its mark is saved.
Ends(N, M, d) ==
    Link(N, M, d) /\ (M.doc[d].marked /\ ~N.doc[d].marked => ~N.doc[d].changed)

-----------------------------------------------------------------------------
(* The links of the chain *)

LEMMA SoundType ==
    ASSUME NEW M, NEW d \in Doc, Sound(M)
    PROVE  M \in Tables /\ M.doc[d] \in DocType /\ M.calls[d] \in [Kind -> Nat]
BY DEF Sound, GoodDoc, Tables

\* d becomes r.
Put(M, d, r) == [M EXCEPT !.doc[d] = r]

LEMMA PutKept ==
    ASSUME NEW M, NEW d \in Doc, NEW r, Sound(M), GoodDoc(r)
    PROVE  LET N == Put(M, d, r) IN
           /\ Sound(N)
           /\ N.doc[d] = r
           /\ N.calls = M.calls
           /\ \A e \in Doc \ {d} : N.doc[e] = M.doc[e]
<1> DEFINE N == Put(M, d, r)
<1>1. M \in Tables /\ r \in DocType
  BY DEF Sound, GoodDoc
<1>2. /\ N \in Tables
      /\ N.doc[d] = r
      /\ N.calls = M.calls
      /\ \A e \in Doc \ {d} : N.doc[e] = M.doc[e]
  BY <1>1 DEF Put, Tables
<1> HIDE DEF N
<1>3. Sound(N)
  BY <1>2 DEF Sound
<1> QED
  BY <1>2, <1>3 DEF N

LEMMA SendKept ==
    ASSUME NEW M, NEW d \in Doc, NEW k \in Kind, Sound(M)
    PROVE  LET N == Send(M, d, k) IN
           /\ GoesOn(N, M, d)
           /\ N.doc = M.doc
           /\ running => CallOut(N, d)
           /\ ~running => N = M
<1> DEFINE N == Send(M, d, k)
<1>0. M \in Tables /\ M.doc[d] \in DocType /\ M.calls[d] \in [Kind -> Nat]
  BY SoundType
<1>1. CASE ~running
  BY <1>1 DEF Send, GoesOn, Link
<1>2. CASE running
  <2> DEFINE c == [M.calls[d] EXCEPT ![k] = @ + 1]
  <2>1. c \in [Kind -> Nat] /\ c[k] > 0
    BY <1>0
  <2>2. N = [M EXCEPT !.calls[d] = c]
    BY <1>0, <1>2 DEF Send, Tables
  <2> HIDE DEF c, N
  <2>3. /\ N \in Tables
        /\ N.doc = M.doc
        /\ N.calls[d] = c
        /\ \A e \in Doc \ {d} : N.calls[e] = M.calls[e]
    BY <1>0, <2>1, <2>2 DEF Tables
  <2>4. Sound(N)
    BY <2>3 DEF Sound
  <2>5. CallOut(N, d)
    BY <2>1, <2>3 DEF CallOut
  <2>6. GoesOn(N, M, d)
    BY <2>3, <2>4 DEF GoesOn, Link
  <2> QED
    BY <1>2, <2>3, <2>5, <2>6 DEF N
<1> QED
  BY <1>1, <1>2

LEMMA GoodDocIs ==
    ASSUME NEW M, NEW d \in Doc, Sound(M)
    PROVE  /\ M.doc[d] \in DocType /\ GoodDoc(M.doc[d])
           /\ M.doc[d].marked => M.doc[d].open
           /\ Closed \in DocType /\ GoodDoc(Closed) /\ ~Closed.marked /\ ~Closed.open
BY DEF Sound, GoodDoc, Closed, DocType

LEMMA EditedKept ==
    ASSUME NEW M, NEW d \in Doc, Sound(M)
    PROVE  LET N == Edited(M, d) IN
           /\ GoesOn(N, M, d)
           /\ N.calls = M.calls
<1> DEFINE r == [M.doc[d] EXCEPT !.changed = TRUE]
           N == Edited(M, d)
<1>0. M \in Tables /\ M.doc[d] \in DocType /\ GoodDoc(M.doc[d])
  BY SoundType, GoodDocIs
<1>1. CASE ~M.doc[d].open
  BY <1>1 DEF Edited, GoesOn, Link
<1>2. CASE M.doc[d].open
  <2>1. GoodDoc(r) /\ r.open /\ r.marked = M.doc[d].marked
    BY <1>0, <1>2 DEF GoodDoc, DocType
  <2>2. N = Put(M, d, r)
    BY <1>0, <1>2 DEF Edited, Put, Tables
  <2>4. r.open = M.doc[d].open
    BY <1>0, <1>2, <2>1 DEF DocType
  <2> HIDE DEF r, N
  <2>3. /\ Sound(N)
        /\ N.doc[d] = r
        /\ N.calls = M.calls
        /\ \A e \in Doc \ {d} : N.doc[e] = M.doc[e]
    BY <2>1, <2>2, PutKept
  <2>5. GoesOn(N, M, d)
    BY <2>1, <2>3, <2>4 DEF GoesOn, Link
  <2> QED
    BY <2>3, <2>5 DEF N
<1> QED
  BY <1>1, <1>2

LEMMA CommandPerformedKept ==
    ASSUME NEW M, NEW d \in Doc, Sound(M)
    PROVE  LET N == CommandPerformed(M, d) IN
           /\ GoesOn(N, M, d)
           /\ running /\ M.doc[d].open => CallOut(N, d)
<1>1. CASE ~M.doc[d].open
  BY <1>1 DEF CommandPerformed, GoesOn, Link
<1>2. CASE M.doc[d].open
  <2>1. CommandPerformed(M, d) = Send(M, d, "codeAction")
    BY <1>2 DEF CommandPerformed
  <2>2. "codeAction" \in Kind
    BY DEF Kind
  <2> QED
    BY <2>1, <2>2, SendKept
<1> QED
  BY <1>1, <1>2

LEMMA GoesOnTwice ==
    ASSUME NEW N, NEW C, NEW M, NEW d, GoesOn(N, C, d), GoesOn(C, M, d)
    PROVE  GoesOn(N, M, d)
BY DEF GoesOn, Link

LEMMA BeforeSaveKept ==
    ASSUME NEW M, NEW d \in Doc, Sound(M), M.doc[d].open
    PROVE  LET N == BeforeSave(M, d) IN
           /\ GoesOn(N, M, d)
           /\ N.doc[d].marked =>
                 \/ M.doc[d].marked /\ N = M
                 \/ config.actions \/ config.format => CallOut(N, d)
<1> DEFINE r == [M.doc[d] EXCEPT !.marked = TRUE]
           P == [M EXCEPT !.doc[d].marked = TRUE]
           N == BeforeSave(M, d)
<1>0. M \in Tables /\ M.doc[d] \in DocType /\ GoodDoc(M.doc[d])
  BY SoundType, GoodDocIs
<1>1. CASE ~running \/ M.doc[d].marked
  BY <1>1 DEF BeforeSave, GoesOn, Link
<1>2. CASE ~(~running \/ M.doc[d].marked)
  <2>1. GoodDoc(r) /\ r.marked /\ r.open = M.doc[d].open
    BY <1>0 DEF GoodDoc, DocType
  <2>2. P = Put(M, d, r)
    BY <1>0 DEF Put, Tables
  <2>3. N = IF config.actions THEN Send(P, d, "codeAction")
            ELSE IF config.format THEN Send(P, d, "formatting") ELSE P
    BY <1>2 DEF BeforeSave
  <2> HIDE DEF r, P, N
  <2>4. /\ Sound(P)
        /\ P.doc[d] = r
        /\ P.calls = M.calls
        /\ \A e \in Doc \ {d} : P.doc[e] = M.doc[e]
    BY <2>1, <2>2, PutKept
  <2>5. GoesOn(P, M, d)
    BY <2>1, <2>4 DEF GoesOn, Link
  <2>6. {"codeAction", "formatting"} \subseteq Kind
    BY DEF Kind
  <2>7. ASSUME NEW k \in {"codeAction", "formatting"}
        PROVE  GoesOn(Send(P, d, k), M, d) /\ CallOut(Send(P, d, k), d)
    <3>1. GoesOn(Send(P, d, k), P, d) /\ CallOut(Send(P, d, k), d)
      BY <1>2, <2>4, <2>6, SendKept
    <3> QED
      BY <2>5, <3>1, GoesOnTwice
  <2>8. GoesOn(N, M, d) /\ (config.actions \/ config.format => CallOut(N, d))
    BY <2>3, <2>5, <2>7
  <2> QED
    BY <2>8 DEF N
<1> QED
  BY <1>1, <1>2

LEMMA SaveFileKept ==
    ASSUME NEW M, NEW d \in Doc, Sound(M), M.doc[d].open
    PROVE  LET N == SaveFile(M, d) IN
           /\ GoesOn(N, M, d)
           /\ ~N.doc[d].changed
           /\ N.doc[d].marked =>
                 \/ M.doc[d].marked /\ N.calls = M.calls
                 \/ config.actions \/ config.format => CallOut(N, d)
<1> DEFINE B == BeforeSave(M, d)
           r == [B.doc[d] EXCEPT !.changed = FALSE]
           N == SaveFile(M, d)
<1>1. /\ GoesOn(B, M, d)
      /\ B.doc[d].marked =>
            \/ M.doc[d].marked /\ B = M
            \/ config.actions \/ config.format => CallOut(B, d)
  BY BeforeSaveKept
<1>2. N = [B EXCEPT !.doc[d].changed = FALSE]
  BY DEF SaveFile
<1> HIDE DEF B
<1>3. Sound(B) /\ B.doc[d].open
  BY <1>1 DEF GoesOn, Link
<1>4. B \in Tables /\ B.doc[d] \in DocType /\ GoodDoc(B.doc[d])
  BY <1>3, SoundType, GoodDocIs
<1>5. /\ GoodDoc(r)
      /\ ~r.changed
      /\ r.open = B.doc[d].open
      /\ r.marked = B.doc[d].marked
  BY <1>3, <1>4 DEF GoodDoc, DocType
<1>6. N = Put(B, d, r)
  BY <1>2, <1>4 DEF Put, Tables
<1> HIDE DEF r, N
<1>7. /\ Sound(N)
      /\ N.doc[d] = r
      /\ N.calls = B.calls
      /\ \A e \in Doc \ {d} : N.doc[e] = B.doc[e]
  BY <1>3, <1>5, <1>6, PutKept
<1>8. GoesOn(N, B, d)
  BY <1>5, <1>7 DEF GoesOn, Link
<1>9. GoesOn(N, M, d)
  BY <1>1, <1>8, GoesOnTwice
<1>10. CallOut(B, d) => CallOut(N, d)
  BY <1>7 DEF CallOut
<1>11. ~N.doc[d].changed /\ (N.doc[d].marked => B.doc[d].marked)
  BY <1>5, <1>7
<1>12. B = M => N.calls = M.calls
  BY <1>7
<1> QED
  BY <1>1, <1>9, <1>10, <1>11, <1>12 DEF N

LEMMA UnmarkedKept ==
    ASSUME NEW M, NEW d \in Doc, Sound(M), M.doc[d].open
    PROVE  LET N == Unmarked(M, d) IN
           /\ Link(N, M, d)
           /\ ~N.doc[d].marked
           /\ N.doc[d].changed = M.doc[d].changed
<1> DEFINE r == [M.doc[d] EXCEPT !.marked = FALSE, !.performed = {}]
           N == Unmarked(M, d)
<1>0. M \in Tables /\ M.doc[d] \in DocType
  BY SoundType
<1>1. /\ GoodDoc(r)
      /\ ~r.marked
      /\ r.open = M.doc[d].open
      /\ r.changed = M.doc[d].changed
  BY <1>0 DEF GoodDoc, DocType
<1>2. N = Put(M, d, r)
  BY <1>0 DEF Unmarked, Put, Tables, DocType
<1> HIDE DEF r, N
<1>3. /\ Sound(N)
      /\ N.doc[d] = r
      /\ N.calls = M.calls
      /\ \A e \in Doc \ {d} : N.doc[e] = M.doc[e]
  BY <1>1, <1>2, PutKept
<1>4. Link(N, M, d)
  BY <1>1, <1>3 DEF Link
<1>5. ~N.doc[d].marked /\ N.doc[d].changed = M.doc[d].changed
  BY <1>1, <1>3
<1> QED
  BY <1>4, <1>5 DEF N

LEMMA SaveFinishKept ==
    ASSUME NEW M, NEW d \in Doc, Sound(M)
    PROVE  LET N == SaveFinish(M, d) IN
           /\ Ends(N, M, d)
           /\ ~N.doc[d].marked
           /\ ~M.doc[d].marked => N = M
<1> DEFINE F == IF M.doc[d].changed THEN SaveFile(M, d) ELSE M
           N == SaveFinish(M, d)
<1>1. CASE ~M.doc[d].marked
  BY <1>1 DEF SaveFinish, Ends, Link
<1>2. CASE M.doc[d].marked
  <2>1. M.doc[d].open
    BY <1>2, GoodDocIs
  <2>2. GoesOn(F, M, d) /\ ~F.doc[d].changed
    <3>1. CASE M.doc[d].changed
      BY <2>1, <3>1, SaveFileKept
    <3>2. CASE ~M.doc[d].changed
      BY <3>2 DEF GoesOn, Link
    <3> QED
      BY <3>1, <3>2
  <2>3. N = Unmarked(F, d)
    BY <1>2 DEF SaveFinish
  <2> HIDE DEF F, N
  <2>4. Sound(F) /\ F.doc[d].open
    BY <2>1, <2>2 DEF GoesOn, Link
  <2>5. /\ Link(N, F, d)
        /\ ~N.doc[d].marked
        /\ N.doc[d].changed = F.doc[d].changed
    BY <2>3, <2>4, UnmarkedKept
  <2>6. ~N.doc[d].changed
    BY <2>2, <2>5
  <2>7. Link(N, M, d)
    BY <2>2, <2>5 DEF GoesOn, Link
  <2>8. Ends(N, M, d)
    BY <2>6, <2>7 DEF Ends
  <2> QED
    BY <1>2, <2>5, <2>8 DEF N
<1> QED
  BY <1>1, <1>2

\* The chain goes on after an action, as long as there is a server.
LEMMA PerformKept ==
    ASSUME NEW M, NEW d \in Doc, Sound(M),
           NEW how \in {"command", "edit", "both", "resolve"}
    PROVE  LET N == Perform(M, d, how) IN
           /\ GoesOn(N, M, d)
           /\ running /\ M.doc[d].open => CallOut(N, d)
<1> DEFINE E == IF how \in {"edit", "both"} THEN Edited(M, d) ELSE M
           N == Perform(M, d, how)
<1>1. GoesOn(E, M, d)
  <2>1. CASE how \in {"edit", "both"}
    BY <2>1, EditedKept
  <2>2. CASE how \notin {"edit", "both"}
    BY <2>2 DEF GoesOn, Link
  <2> QED
    BY <2>1, <2>2
<1>2. N = IF how = "resolve" THEN Send(M, d, "resolve")
          ELSE IF how = "edit" THEN CommandPerformed(E, d)
          ELSE Send(E, d, "executeCommand")
  BY DEF Perform
<1> SUFFICES GoesOn(N, M, d) /\ (running /\ M.doc[d].open => CallOut(N, d))
  BY DEF N
<1> HIDE DEF E, N
<1>3. {"resolve", "executeCommand"} \subseteq Kind
  BY DEF Kind
<1>4. Sound(E) /\ E.doc[d].open = M.doc[d].open
  BY <1>1 DEF GoesOn, Link
<1>5. CASE how = "resolve"
  BY <1>2, <1>3, <1>5, SendKept
<1>6. CASE how = "edit"
  <2>1. /\ GoesOn(CommandPerformed(E, d), E, d)
        /\ running /\ E.doc[d].open => CallOut(CommandPerformed(E, d), d)
    BY <1>4, CommandPerformedKept
  <2>2. GoesOn(CommandPerformed(E, d), M, d)
    BY <1>1, <2>1, GoesOnTwice
  <2> QED
    BY <1>2, <1>4, <1>6, <2>1, <2>2
<1>7. CASE how \in {"command", "both"}
  <2>1. /\ GoesOn(Send(E, d, "executeCommand"), E, d)
        /\ running => CallOut(Send(E, d, "executeCommand"), d)
    BY <1>3, <1>4, SendKept
  <2>2. GoesOn(Send(E, d, "executeCommand"), M, d)
    BY <1>1, <2>1, GoesOnTwice
  <2> QED
    BY <1>2, <1>7, <2>1, <2>2
<1> QED
  BY <1>5, <1>6, <1>7

LEMMA GoesOnEnds ==
    ASSUME NEW N, NEW C, NEW M, NEW d,
           GoesOn(N, M, d) \/ (GoesOn(C, M, d) /\ Ends(N, C, d))
    PROVE  Ends(N, M, d)
BY DEF GoesOn, Ends, Link

\* What code actions were answered with: the chain goes on, or ends saved.
LEMMA ActionsReceivedKept ==
    ASSUME NEW M, NEW d \in Doc, NEW t \in Title \cup {NULL},
           NEW how \in {"command", "edit", "both", "resolve"}, Sound(M)
    PROVE  LET N == ActionsReceived(M, d, t, how) IN
           /\ Ends(N, M, d)
           /\ running /\ N.doc[d].marked => CallOut(N, d)
<1> DEFINE r == [M.doc[d] EXCEPT !.performed = @ \cup {t}]
           P == [M EXCEPT !.doc[d].performed = @ \cup {t}]
           N == ActionsReceived(M, d, t, how)
<1>0. M \in Tables /\ M.doc[d] \in DocType /\ GoodDoc(M.doc[d])
  BY SoundType, GoodDocIs
<1>1. N = IF ~M.doc[d].open \/ ~running THEN M
          ELSE IF t # NULL /\ M.doc[d].marked THEN Perform(P, d, how)
          ELSE IF config.format THEN Send(M, d, "formatting") ELSE SaveFinish(M, d)
  BY DEF ActionsReceived
<1> SUFFICES Ends(N, M, d) /\ (running /\ N.doc[d].marked => CallOut(N, d))
  BY DEF N
<1>2. CASE ~M.doc[d].open \/ ~running
  BY <1>1, <1>2, GoodDocIs DEF Ends, Link
<1>3. CASE ~(~M.doc[d].open \/ ~running) /\ t # NULL /\ M.doc[d].marked
  <2>1. GoodDoc(r) /\ r.open = M.doc[d].open /\ r.marked = M.doc[d].marked
    <3>1. M.doc[d].performed \cup {t} \in SUBSET Title
      BY <1>0, <1>3 DEF DocType
    <3> QED
      BY <1>0, <1>3, <3>1 DEF GoodDoc, DocType
  <2>2. P = Put(M, d, r)
    BY <1>0 DEF Put, Tables
  <2>3. N = Perform(P, d, how)
    BY <1>1, <1>3
  <2> HIDE DEF r, P, N
  <2>4. /\ Sound(P)
        /\ P.doc[d] = r
        /\ P.calls = M.calls
        /\ \A e \in Doc \ {d} : P.doc[e] = M.doc[e]
    BY <2>1, <2>2, PutKept
  <2>5. GoesOn(P, M, d)
    BY <2>1, <2>4 DEF GoesOn, Link
  <2>6. P.doc[d].open
    BY <1>3, <2>1, <2>4
  <2>7. GoesOn(N, P, d) /\ CallOut(N, d)
    BY <1>3, <2>3, <2>4, <2>6, PerformKept
  <2>8. GoesOn(N, M, d)
    BY <2>5, <2>7, GoesOnTwice
  <2> QED
    BY <2>7, <2>8, GoesOnEnds
<1>4. CASE ~(~M.doc[d].open \/ ~running) /\ ~(t # NULL /\ M.doc[d].marked) /\ config.format
  <2>1. N = Send(M, d, "formatting") /\ "formatting" \in Kind
    BY <1>1, <1>4 DEF Kind
  <2> HIDE DEF N
  <2>2. GoesOn(N, M, d) /\ CallOut(N, d)
    BY <1>4, <2>1, SendKept
  <2> QED
    BY <2>2, GoesOnEnds
<1>5. CASE ~(~M.doc[d].open \/ ~running) /\ ~(t # NULL /\ M.doc[d].marked) /\ ~config.format
  <2>1. N = SaveFinish(M, d)
    BY <1>1, <1>5
  <2> HIDE DEF N
  <2> QED
    BY <2>1, SaveFinishKept
<1> QED
  BY <1>2, <1>3, <1>4, <1>5

-----------------------------------------------------------------------------
(* The actions *)

\* Every server that is configured performs something on save: else a document that is
\* marked waits for nothing.
Performs == \A c \in Configs : c.actions \/ c.format

\* The inductive invariant.
IInv == TypeOK /\ (Performs => MarkedWhileSaving)

\* FinishedSaved and SavesAreAsked, of one step.
StepFinished == \A d \in Doc : (doc[d].marked /\ ~doc'[d].marked) => ~doc'[d].changed
StepAsked ==
    \A d \in Doc :
        (doc[d].changed /\ ~doc'[d].changed) =>
            \/ ~doc'[d].open
            \/ saves' # saves
            \/ Waiting(d)
            \/ d \in lost

Good == IInv' /\ StepFinished /\ (Performs => StepAsked)

LEMMA M0Sound ==
    ASSUME IInv
    PROVE  /\ Sound(M0)
           /\ M0.doc = doc /\ M0.calls = calls
           /\ \A d \in Doc : CallOut(M0, d) <=> Waiting(d)
<1>1. M0.doc = doc /\ M0.calls = calls
  BY DEF M0
<1>2. calls \in [Doc -> [Kind -> Nat]]
  BY DEF IInv, TypeOK
<1>3. M0 \in Tables
  BY <1>2 DEF IInv, TypeOK, Tables, M0
<1>4. Sound(M0)
  BY <1>1, <1>3 DEF IInv, TypeOK, Sound, GoodDoc
<1> QED
  BY <1>1, <1>4 DEF CallOut, Waiting

LEMMA AnsweredSound ==
    ASSUME IInv, NEW d \in Doc, NEW k \in Kind, calls[d][k] > 0
    PROVE  LET A == Answered(d, k) IN
           /\ Sound(A)
           /\ A.doc = doc
           /\ \A e \in Doc \ {d} : A.calls[e] = calls[e]
           /\ Waiting(d)
<1> DEFINE c == [calls[d] EXCEPT ![k] = @ - 1]
           A == Answered(d, k)
<1>0. Sound(M0) /\ M0 \in Tables /\ M0.doc = doc /\ M0.calls = calls
  BY M0Sound DEF Sound
<1>1. calls[d] \in [Kind -> Nat] /\ calls \in [Doc -> [Kind -> Nat]]
  BY DEF IInv, TypeOK
<1>2. c \in [Kind -> Nat]
  BY <1>1
<1>3. A = [M0 EXCEPT !.calls[d] = c]
  BY <1>0, <1>1 DEF Answered, Tables
<1> HIDE DEF c, A
<1>4. /\ A \in Tables
      /\ A.doc = doc
      /\ \A e \in Doc \ {d} : A.calls[e] = calls[e]
  BY <1>0, <1>2, <1>3 DEF Tables
<1>5. Sound(A)
  BY <1>0, <1>4 DEF Sound
<1>6. Waiting(d)
  BY DEF Waiting
<1> QED
  BY <1>4, <1>5, <1>6 DEF A

\* A handler for d ends with the tables N; it began with C.
LEMMA Committed ==
    ASSUME IInv, NEW d \in Doc, NEW C, NEW N, NEW L \in SUBSET {d},
           Commit(N, L), Ends(N, C, d),
           C.doc = doc, \A e \in Doc \ {d} : C.calls[e] = calls[e],
           Performs /\ N.doc[d].marked => CallOut(N, d) \/ d \in lost \cup L,
           Performs /\ doc[d].changed /\ ~N.doc[d].changed =>
               saves' # saves \/ Waiting(d) \/ d \in lost,
           running' \in BOOLEAN, saves' \in 0 .. MaxSaves, config' = config
    PROVE  Good
<1>1. /\ Sound(N)
      /\ \A e \in Doc \ {d} : N.doc[e] = doc[e] /\ N.calls[e] = calls[e]
      /\ doc[d].marked /\ ~N.doc[d].marked => ~N.doc[d].changed
  BY DEF Ends, Link
<1>2. /\ doc' = N.doc
      /\ calls' = N.calls
      /\ lost' = {e \in lost \cup L : N.doc[e].marked}
      /\ \A e \in Doc, k \in Kind : N.calls[e][k] <= MaxCalls
  BY DEF Commit
<1>3. TypeOK'
  <2>1. N \in Tables /\ (\A e \in Doc : GoodDoc(N.doc[e]))
    BY <1>1 DEF Sound
  <2>2. N.doc \in [Doc -> DocType] /\ N.calls \in [Doc -> [Kind -> Nat]]
    BY <2>1 DEF Tables
  <2>3. N.calls \in [Doc -> [Kind -> 0 .. MaxCalls]]
    BY <1>2, <2>2
  <2>4. lost' \subseteq Doc
    BY <1>2 DEF IInv, TypeOK
  <2> QED
    BY <1>2, <2>1, <2>2, <2>3, <2>4 DEF IInv, TypeOK, GoodDoc
<1>4. ASSUME Performs PROVE MarkedWhileSaving'
  <2> SUFFICES ASSUME NEW e \in Doc, N.doc[e].marked
               PROVE  (\E k \in Kind : N.calls[e][k] > 0) \/ e \in lost'
    BY <1>2 DEF MarkedWhileSaving, Waiting
  <2>1. CASE e = d
    BY <1>2, <1>4, <2>1 DEF CallOut
  <2>2. CASE e # d
    <3>1. doc[e].marked /\ N.calls[e] = calls[e]
      BY <1>1, <2>2
    <3>2. Waiting(e) \/ e \in lost
      BY <1>4, <3>1 DEF IInv, MarkedWhileSaving
    <3> QED
      BY <1>2, <3>1, <3>2 DEF Waiting
  <2> QED
    BY <2>1, <2>2
<1>5. StepFinished
  BY <1>1, <1>2 DEF StepFinished
<1>6. Performs => StepAsked
  BY <1>1, <1>2 DEF StepAsked
<1> QED
  BY <1>3, <1>4, <1>5, <1>6 DEF IInv, Good

\* A handler changes nothing but the table of the documents, by r for d.
LEMMA DocCommitted ==
    ASSUME IInv, NEW d \in Doc, NEW r, GoodDoc(r), doc' = [doc EXCEPT ![d] = r],
           UNCHANGED <<calls, running, saves, config>>,
           lost' \subseteq Doc, lost \ {d} \subseteq lost',
           r.marked => doc[d].marked /\ d \in lost' \cup (Doc \ lost),
           doc[d].marked /\ ~r.marked => ~r.changed,
           doc[d].changed /\ ~r.changed => ~r.open
    PROVE  Good
<1>1. /\ doc \in [Doc -> DocType] /\ r \in DocType
      /\ doc'[d] = r
      /\ \A e \in Doc \ {d} : doc'[e] = doc[e]
  BY DEF IInv, TypeOK, GoodDoc
<1>2. TypeOK'
  <2>1. doc' \in [Doc -> DocType]
    BY <1>1
  <2>2. \A e \in Doc : GoodDoc(doc'[e])
    BY <1>1 DEF IInv, TypeOK, GoodDoc
  <2> QED
    BY <2>1, <2>2 DEF IInv, TypeOK, GoodDoc
<1>3. ASSUME Performs PROVE MarkedWhileSaving'
  BY <1>1, <1>3 DEF IInv, MarkedWhileSaving, Waiting
<1>4. StepFinished /\ StepAsked
  BY <1>1 DEF StepFinished, StepAsked
<1> QED
  BY <1>2, <1>3, <1>4 DEF IInv, Good

LEMMA OpenGood == ASSUME IInv, NEW d \in Doc, Open(d) PROVE Good
<1> DEFINE r == [doc[d] EXCEPT !.open = TRUE]
<1>1. doc \in [Doc -> DocType] /\ doc[d] = Closed
  BY DEF Open, IInv, TypeOK
<1>2. GoodDoc(r) /\ ~r.marked /\ ~doc[d].changed /\ ~doc[d].marked
  <2>1. doc[d] \in DocType /\ ~doc[d].changed /\ ~doc[d].marked /\ doc[d].performed = {}
    BY <1>1 DEF DocType, Closed
  <2>2. r \in DocType /\ r.open /\ r.marked = doc[d].marked /\ r.performed = {}
    BY <2>1 DEF DocType
  <2> QED
    BY <2>1, <2>2 DEF GoodDoc
<1>3. doc' = [doc EXCEPT ![d] = r] /\ UNCHANGED <<calls, running, lost, saves, config>>
  BY <1>1 DEF Open
<1> HIDE DEF r
<1> QED
  BY <1>2, <1>3, DocCommitted DEF IInv, TypeOK

LEMMA CloseGood == ASSUME IInv, NEW d \in Doc, Close(d) PROVE Good
<1>1. GoodDoc(Closed) /\ ~Closed.marked /\ ~Closed.changed /\ ~Closed.open
  BY DEF GoodDoc, Closed, DocType
<1>2. doc' = [doc EXCEPT ![d] = Closed] /\ UNCHANGED <<calls, running, saves, config>>
  BY DEF Close
<1>3. lost' \subseteq Doc /\ lost \ {d} \subseteq lost'
  BY DEF Close, IInv, TypeOK
<1> QED
  BY <1>1, <1>2, <1>3, DocCommitted

LEMMA EditGood == ASSUME IInv, NEW d \in Doc, Edit(d) PROVE Good
<1> DEFINE r == [doc[d] EXCEPT !.changed = TRUE]
<1>1. doc \in [Doc -> DocType] /\ doc[d].open /\ GoodDoc(doc[d])
  BY DEF Edit, IInv, TypeOK, GoodDoc
<1>2. GoodDoc(r) /\ r.changed /\ (r.marked <=> doc[d].marked)
  BY <1>1 DEF GoodDoc, DocType
<1>3. doc' = [doc EXCEPT ![d] = r] /\ UNCHANGED <<calls, running, lost, saves, config>>
  BY <1>1 DEF Edit
<1> HIDE DEF r
<1> QED
  BY <1>2, <1>3, DocCommitted DEF IInv, TypeOK

LEMMA ConfigPerforms == ASSUME IInv, Performs PROVE config.actions \/ config.format
BY DEF IInv, TypeOK, Performs

LEMMA SaveGood == ASSUME IInv, NEW d \in Doc, NEW unopened \in BOOLEAN, Save(d, unopened) PROVE Good
<1> DEFINE S == SaveFile(M0, d)
           N == IF unopened /\ running THEN SaveFinish(S, d) ELSE S
<1>0. /\ Sound(M0) /\ M0.doc = doc /\ M0.calls = calls
      /\ CallOut(M0, d) <=> Waiting(d)
      /\ M0.doc[d].open
  BY M0Sound DEF Save
<1>1. Commit(N, {}) /\ saves' = saves + 1 /\ UNCHANGED <<running, config>> /\ saves < MaxSaves
  BY DEF Save
<1>2. /\ GoesOn(S, M0, d)
      /\ S.doc[d].marked =>
            \/ M0.doc[d].marked /\ S.calls = M0.calls
            \/ config.actions \/ config.format => CallOut(S, d)
  BY <1>0, SaveFileKept
<1> HIDE DEF S
<1>3. Sound(S)
  BY <1>2 DEF GoesOn, Link
<1>4. Ends(SaveFinish(S, d), S, d) /\ ~SaveFinish(S, d).doc[d].marked
  BY <1>3, SaveFinishKept
<1>5. Ends(N, M0, d)
  <2>1. Ends(SaveFinish(S, d), M0, d) /\ Ends(S, M0, d)
    BY <1>2, <1>4, GoesOnEnds
  <2> QED
    BY <2>1
<1>6. ASSUME Performs, N.doc[d].marked PROVE CallOut(N, d) \/ d \in lost
  <2>1. N = S /\ S.doc[d].marked
    BY <1>4, <1>6
  <2>2. CASE M0.doc[d].marked /\ S.calls = M0.calls
    <3>1. Waiting(d) \/ d \in lost
      BY <1>0, <1>6, <2>2 DEF IInv, MarkedWhileSaving
    <3> QED
      BY <1>0, <2>1, <2>2, <3>1 DEF CallOut
  <2>3. CASE config.actions \/ config.format => CallOut(S, d)
    BY <1>6, <2>1, <2>3, ConfigPerforms
  <2> QED
    BY <1>2, <2>1, <2>2, <2>3
<1>7. running' \in BOOLEAN /\ saves' \in 0 .. MaxSaves /\ saves' # saves /\ config' = config
  BY <1>1 DEF IInv, TypeOK
<1> HIDE DEF N
<1> QED
  BY <1>0, <1>1, <1>5, <1>6, <1>7, Committed

LEMMA ActivateGood == ASSUME IInv, NEW d \in Doc, Activate(d) PROVE Good
<1> DEFINE N == SaveFinish(M0, d)
<1>0. Sound(M0) /\ M0.doc = doc /\ M0.calls = calls
  BY M0Sound
<1>1. Commit(N, {}) /\ UNCHANGED <<running, saves, config>>
  BY DEF Activate
<1>2. Ends(N, M0, d) /\ ~N.doc[d].marked /\ (~M0.doc[d].marked => N = M0)
  BY <1>0, SaveFinishKept
<1>3. ASSUME Performs, doc[d].changed, ~N.doc[d].changed PROVE Waiting(d) \/ d \in lost
  BY <1>0, <1>2, <1>3 DEF IInv, MarkedWhileSaving
<1>4. running' \in BOOLEAN /\ saves' \in 0 .. MaxSaves /\ config' = config
  BY <1>1 DEF IInv, TypeOK
<1> HIDE DEF N
<1> QED
  BY <1>0, <1>1, <1>2, <1>3, <1>4, Committed

\* A callback for d: the call k is answered, the handler goes on from there to N.
LEMMA CallbackGood ==
    ASSUME IInv, NEW d \in Doc, NEW k \in Kind, calls[d][k] > 0, NEW N, NEW L \in SUBSET {d},
           Commit(N, L), Ends(N, Answered(d, k), d),
           N.doc[d].marked => CallOut(N, d) \/ d \in L,
           UNCHANGED <<running, saves, config>>
    PROVE  Good
<1> DEFINE A == Answered(d, k)
<1>1. A.doc = doc /\ (\A e \in Doc \ {d} : A.calls[e] = calls[e]) /\ Waiting(d)
  BY AnsweredSound
<1>2. running' \in BOOLEAN /\ saves' \in 0 .. MaxSaves /\ config' = config
  BY DEF IInv, TypeOK
<1> HIDE DEF A
<1>3. Ends(N, A, d)
  BY DEF A
<1> QED
  BY <1>1, <1>2, <1>3, Committed

LEMMA CodeActionAnsweredGood ==
    ASSUME IInv, NEW d \in Doc, NEW t \in Title \cup {NULL},
           NEW how \in {"command", "edit", "both", "resolve"}, CodeActionAnswered(d, t, how)
    PROVE  Good
<1> DEFINE A == Answered(d, "codeAction")
           N == ActionsReceived(A, d, t, how)
<1>1. "codeAction" \in Kind /\ calls[d]["codeAction"] > 0
  BY DEF Kind, CodeActionAnswered
<1>2. Sound(A)
  BY <1>1, AnsweredSound
<1>3. Ends(N, A, d) /\ (running /\ N.doc[d].marked => CallOut(N, d))
  BY <1>2, ActionsReceivedKept
<1>4. Commit(N, Vain(d)) /\ UNCHANGED <<running, saves, config>>
  BY DEF CodeActionAnswered
<1>5. Vain(d) \in SUBSET {d} /\ (~running => d \in Vain(d))
  BY DEF Vain
<1>6. N.doc[d].marked => CallOut(N, d) \/ d \in Vain(d)
  BY <1>3, <1>5
<1> HIDE DEF N
<1> QED
  BY <1>1, <1>3, <1>4, <1>5, <1>6, CallbackGood

LEMMA CommandAnsweredGood ==
    ASSUME IInv, NEW d \in Doc, NEW edited \in BOOLEAN, CommandAnswered(d, edited)
    PROVE  Good
<1> DEFINE A == Answered(d, "executeCommand")
           E == IF edited THEN Edited(A, d) ELSE A
           N == CommandPerformed(E, d)
<1>1. "executeCommand" \in Kind /\ calls[d]["executeCommand"] > 0
  BY DEF Kind, CommandAnswered
<1>2. Sound(A)
  BY <1>1, AnsweredSound
<1>3. GoesOn(E, A, d)
  <2>1. GoesOn(Edited(A, d), A, d) /\ GoesOn(A, A, d)
    BY <1>2, EditedKept DEF GoesOn, Link
  <2> QED
    BY <2>1
<1>4. Commit(N, Vain(d)) /\ UNCHANGED <<running, saves, config>>
  BY DEF CommandAnswered
<1> HIDE DEF E
<1>5. Sound(E)
  BY <1>3 DEF GoesOn, Link
<1>6. GoesOn(N, E, d) /\ (running /\ E.doc[d].open => CallOut(N, d))
  BY <1>5, CommandPerformedKept
<1> HIDE DEF N
<1>7. GoesOn(N, A, d) /\ Sound(N) /\ N.doc[d].open = E.doc[d].open
  BY <1>3, <1>6, GoesOnTwice DEF GoesOn, Link
<1>8. Ends(N, A, d)
  BY <1>7, GoesOnEnds
<1>9. Vain(d) \in SUBSET {d} /\ (~running => d \in Vain(d))
  BY DEF Vain
<1>10. N.doc[d].marked => CallOut(N, d) \/ d \in Vain(d)
  BY <1>6, <1>7, <1>9, GoodDocIs
<1> QED
  BY <1>1, <1>4, <1>8, <1>9, <1>10, CallbackGood

LEMMA ResolveAnsweredGood ==
    ASSUME IInv, NEW d \in Doc, NEW how \in {"none", "command", "edit", "both"},
           ResolveAnswered(d, how)
    PROVE  Good
<1> DEFINE A == Answered(d, "resolve")
           N == IF how # "none" /\ running THEN Perform(A, d, how)
                ELSE CommandPerformed(A, d)
<1>1. "resolve" \in Kind /\ calls[d]["resolve"] > 0
  BY DEF Kind, ResolveAnswered
<1>2. Sound(A)
  BY <1>1, AnsweredSound
<1>3. GoesOn(N, A, d) /\ (running /\ A.doc[d].open => CallOut(N, d))
  <2>1. CASE how # "none" /\ running
    <3>1. how \in {"command", "edit", "both", "resolve"}
      BY <2>1
    <3>2. N = Perform(A, d, how)
      BY <2>1
    <3> HIDE DEF A, N
    <3> QED
      BY <1>2, <3>1, <3>2, PerformKept
  <2>2. CASE ~(how # "none" /\ running)
    <3>1. N = CommandPerformed(A, d)
      BY <2>2
    <3> HIDE DEF A, N
    <3> QED
      BY <1>2, <3>1, CommandPerformedKept
  <2> QED
    BY <2>1, <2>2
<1>4. Commit(N, Vain(d)) /\ UNCHANGED <<running, saves, config>>
  BY DEF ResolveAnswered
<1> HIDE DEF N
<1>5. Sound(N) /\ N.doc[d].open = A.doc[d].open /\ Ends(N, A, d)
  BY <1>3, GoesOnEnds DEF GoesOn, Link
<1>6. Vain(d) \in SUBSET {d} /\ (~running => d \in Vain(d))
  BY DEF Vain
<1>7. N.doc[d].marked => CallOut(N, d) \/ d \in Vain(d)
  BY <1>3, <1>5, <1>6, GoodDocIs
<1> QED
  BY <1>1, <1>4, <1>5, <1>6, <1>7, CallbackGood

LEMMA FormattingAnsweredGood ==
    ASSUME IInv, NEW d \in Doc, NEW edited \in BOOLEAN, FormattingAnswered(d, edited)
    PROVE  Good
<1> DEFINE A == Answered(d, "formatting")
           E == IF edited THEN Edited(A, d) ELSE A
           N == SaveFinish(E, d)
<1>1. "formatting" \in Kind /\ calls[d]["formatting"] > 0
  BY DEF Kind, FormattingAnswered
<1>2. Sound(A)
  BY <1>1, AnsweredSound
<1>3. GoesOn(E, A, d)
  <2>1. GoesOn(Edited(A, d), A, d) /\ GoesOn(A, A, d)
    BY <1>2, EditedKept DEF GoesOn, Link
  <2> QED
    BY <2>1
<1>4. Commit(N, {}) /\ UNCHANGED <<running, saves, config>>
  BY DEF FormattingAnswered
<1> HIDE DEF E
<1>5. Sound(E)
  BY <1>3 DEF GoesOn, Link
<1>6. Ends(N, E, d) /\ ~N.doc[d].marked
  BY <1>5, SaveFinishKept
<1> HIDE DEF N
<1>7. Ends(N, A, d)
  BY <1>3, <1>6, GoesOnEnds
<1> QED
  BY <1>1, <1>4, <1>6, <1>7, CallbackGood

LEMMA CallForgottenGood ==
    ASSUME IInv, NEW d \in Doc, NEW k \in Kind, CallForgotten(d, k) PROVE Good
<1> DEFINE A == Answered(d, k)
<1>1. calls[d][k] > 0 /\ Commit(A, {d}) /\ UNCHANGED <<running, saves, config>>
  BY DEF CallForgotten
<1>2. Sound(A)
  BY <1>1, AnsweredSound
<1>3. Ends(A, A, d)
  BY <1>2 DEF Ends, Link
<1> QED
  BY <1>1, <1>3, CallbackGood

LEMMA ServerGood ==
    ASSUME IInv, UNCHANGED <<doc, calls, lost, saves, config>>, running' \in BOOLEAN
    PROVE  Good
BY DEF IInv, TypeOK, MarkedWhileSaving, Waiting, Good, StepFinished, StepAsked

-----------------------------------------------------------------------------
(* The theorems *)

LEMMA InitIInv == Init => IInv
<1> SUFFICES ASSUME Init PROVE IInv
  OBVIOUS
<1>1. GoodDoc(Closed) /\ ~Closed.marked
  <2>1. Closed \in DocType
    BY DEF Closed, DocType
  <2>2. Closed.performed = {} /\ ~Closed.marked /\ ~Closed.open /\ ~Closed.changed
    BY DEF Closed
  <2> QED
    BY <2>1, <2>2 DEF GoodDoc
<1>2. TypeOK
  <2>1. 0 \in 0 .. MaxCalls /\ 0 \in 0 .. MaxSaves
    BY BoundsAssumption
  <2>2. doc \in [Doc -> DocType] /\ \A d \in Doc : doc[d] = Closed
    BY <1>1 DEF Init, GoodDoc
  <2>3. calls \in [Doc -> [Kind -> 0 .. MaxCalls]]
    BY <2>1 DEF Init
  <2>4. \A d \in Doc : doc[d].marked \/ doc[d].performed = {}
    BY <1>1, <2>2 DEF GoodDoc
  <2> QED
    BY <2>1, <2>2, <2>3, <2>4 DEF Init, TypeOK
<1>3. MarkedWhileSaving
  BY <1>1 DEF Init, MarkedWhileSaving
<1> QED
  BY <1>2, <1>3 DEF IInv

LEMMA NextGood == IInv /\ [Next]_vars => Good
<1> SUFFICES ASSUME IInv, [Next]_vars PROVE Good
  OBVIOUS
<1>1. ASSUME NEW d \in Doc, Open(d) PROVE Good
  BY <1>1, OpenGood
<1>2. ASSUME NEW d \in Doc, Close(d) PROVE Good
  BY <1>2, CloseGood
<1>3. ASSUME NEW d \in Doc, Edit(d) PROVE Good
  BY <1>3, EditGood
<1>4. ASSUME NEW d \in Doc, NEW unopened \in BOOLEAN, Save(d, unopened) PROVE Good
  BY <1>4, SaveGood
<1>5. ASSUME NEW d \in Doc, Activate(d) PROVE Good
  BY <1>5, ActivateGood
<1>6. ASSUME NEW d \in Doc, Callback(d) PROVE Good
  BY <1>6, CodeActionAnsweredGood, CommandAnsweredGood, ResolveAnsweredGood,
     FormattingAnsweredGood DEF Callback
<1>7. ASSUME NEW d \in Doc, NEW k \in Kind, CallForgotten(d, k) PROVE Good
  BY <1>7, CallForgottenGood
<1>8. CASE ServerStops \/ ServerStarts
  BY <1>8, ServerGood DEF ServerStops, ServerStarts
<1>9. CASE UNCHANGED vars
  <2>1. running' \in BOOLEAN
    BY <1>9 DEF vars, IInv, TypeOK
  <2> QED
    BY <1>9, <2>1, ServerGood DEF vars
<1> QED
  BY <1>1, <1>2, <1>3, <1>4, <1>5, <1>6, <1>7, <1>8, <1>9 DEF Next

LEMMA SpecIInv == Spec => []IInv
<1>1. IInv /\ [Next]_vars => IInv'
  BY NextGood DEF Good
<1> QED
  BY <1>1, InitIInv, PTL DEF Spec

\* The tables keep their types, and the list of performed actions goes with the mark.
THEOREM TypeCorrect == Spec => []TypeOK
<1>1. IInv => TypeOK
  BY DEF IInv
<1> QED
  BY <1>1, SpecIInv, PTL

\* When something is performed on save, a marked document waits for an answer, or lost
\* one: no way through the callbacks drops the chain.
THEOREM ChainGoesOn ==
    ASSUME \A c \in Configs : c.actions \/ c.format
    PROVE  Spec => []MarkedWhileSaving
<1>1. IInv => MarkedWhileSaving
  BY DEF IInv, Performs
<1> QED
  BY <1>1, SpecIInv, PTL

\* A document whose mark goes, by whatever way through the callbacks, is saved.
THEOREM ChainSaves == Spec => FinishedSaved
<1>1. IInv /\ [Next]_vars =>
          [\A d \in Doc : (doc[d].marked /\ ~doc'[d].marked) => ~doc'[d].changed]_vars
  BY NextGood DEF Good, StepFinished
<1> QED
  BY <1>1, SpecIInv, PTL DEF Spec, FinishedSaved

\* When something is performed on save, no file is written but for a save of the user,
\* at the end of its chain, or in place of a callback that got lost.
THEOREM NoSaveUnasked ==
    ASSUME \A c \in Configs : c.actions \/ c.format
    PROVE  Spec => SavesAreAsked
<1>1. IInv /\ [Next]_vars =>
          [\A d \in Doc :
              (doc[d].changed /\ ~doc'[d].changed) =>
                  \/ ~doc'[d].open
                  \/ saves' # saves
                  \/ Waiting(d)
                  \/ d \in lost]_vars
  BY NextGood DEF Good, StepAsked, Performs
<1> QED
  BY <1>1, SpecIInv, PTL DEF Spec, SavesAreAsked
=============================================================================
