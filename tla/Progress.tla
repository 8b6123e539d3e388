----------------------------- MODULE Progress -----------------------------
(***************************************************************************)
(* Progress of work that servers report: src/lsp/src/lsp-progress.c.  The  *)
(* operations belong to their server; progress_num and the progress bar    *)
(* are shared by all servers, also by those that crashed and are not freed *)
(* yet.                                                                    *)
(***************************************************************************)
EXTENDS Documents

CONSTANT MaxOperations   \* bound: operations of one server at a time

VARIABLE progress
    \* ops: the operations of the running server that are created and that are begun;
    \* old: those of the server that crashed; num: progress_num; bar: the bar is shown

Operations == [created : 0 .. MaxOperations, begun : 0 .. MaxOperations]
NoOperations == [created |-> 0, begun |-> 0]

ProgressOK ==
    progress \in [ops : Operations, old : Operations, num : 0 .. 2 * MaxOperations, bar : BOOLEAN]

ProgressInit == progress = [ops |-> NoOperations, old |-> NoOperations, num |-> 0, bar |-> FALSE]

\* Mutant: the bar stops with the last operation only when that ends by itself.
LessAtOnce(p, n) ==
    IF n > 1 THEN [p EXCEPT !.num = IF n < @ THEN @ - n ELSE 0]
    ELSE [p EXCEPT !.num = IF n < @ THEN @ - n ELSE 0, !.bar = @ /\ n < p.num]

\* progress_num decreases by n, never below 0, and the bar stops with the last.
Less(p, n) ==
    LET num == IF n < p.num THEN p.num - n ELSE 0
    IN [p EXCEPT !.num = num, !.bar = @ /\ num # 0]

\* window/workDoneProgress/create: lsp_progress_create()
CreateProgress ==
    /\ progress.ops.created + progress.ops.begun < MaxOperations
    /\ progress' = [progress EXCEPT !.ops.created = @ + 1]

\* progress_begin() of an operation that was created; a server begins each once.
ProgressBegin ==
    /\ progress.ops.created > 0
    /\ progress' = [progress EXCEPT !.ops.created = @ - 1, !.ops.begun = @ + 1,
                                    !.num = @ + 1, !.bar = @ \/ progress.num = 0]

\* progress_end(), also of an operation that was not begun.
ProgressEnd ==
    \/ /\ progress.ops.begun > 0
       /\ progress' = Less([progress EXCEPT !.ops.begun = @ - 1], 1)
    \/ /\ progress.ops.created > 0
       /\ progress' = Less([progress EXCEPT !.ops.created = @ - 1], 1)

ProgressReported ==
    /\ "progress" \in enabled /\ server.running
    /\ CreateProgress \/ ProgressBegin \/ ProgressEnd

\* The server crashed; a server that is not freed keeps its operations.
ProgressCrashed == [progress EXCEPT !.old = progress.ops, !.ops = NoOperations]

\* lsp_progress_free_all() of the crashed server.
ProgressFreed == Less([progress EXCEPT !.old = NoOperations], progress.old.created + progress.old.begun)

-----------------------------------------------------------------------------
\* The progress bar runs only while some server has begun an operation and not ended it,
\* and when a crashed server is freed, the bar does not go on for it.
BarStops ==
    progress.bar => progress.num > 0 /\ progress.num <= progress.ops.begun + progress.old.begun
=============================================================================
