----------------------------- MODULE SaveChain -----------------------------
(***************************************************************************)
(* What saving a document sets off: code actions and formatting on save,   *)
(* on_document_before_save() and its successors in src/lsp/src/lsp-main.c, *)
(* lsp-command.c and lsp-format.c.                                         *)
(*                                                                         *)
(* The first save of a document marks it with the list of the code actions *)
(* performed (CODE_ACTIONS_PERFORMED) and sends the first call of a chain: *)
(* code actions are requested, one is performed, they are requested again, *)
(* until none is left; then the document is formatted, saved once more and *)
(* its mark removed.  Every link of the chain is a callback, and between   *)
(* two of them the user edits, saves, closes and opens documents and the   *)
(* server may stop.                                                        *)
(*                                                                         *)
(* Geany uses a GeanyDocument again after it was closed, so Doc is a set   *)
(* of addresses.  One server serves them all.  An action is one signal     *)
(* handler or callback.  A handler works on a copy M of the two tables and *)
(* Commit()s it.                                                           *)
(***************************************************************************)
EXTENDS Naturals

CONSTANTS
    Doc,      \* the GeanyDocuments
    Title,    \* the titles of code actions that match command_on_save_regex
    NULL,     \* no title
    Configs,  \* the configurations of the server that are considered
    MaxSaves, \* bound: saves of the user
    MaxCalls  \* bound: unanswered calls of one kind for one document

\* actions: code actions are enabled and command_on_save_regex is not empty;
\* format: document_formatting_enable and format_on_save.
ASSUME ConfigsAssumption == Configs \subseteq [actions : BOOLEAN, format : BOOLEAN]
ASSUME NullAssumption == NULL \notin Title
ASSUME BoundsAssumption == MaxSaves \in Nat /\ MaxCalls \in Nat

VARIABLES
    doc,     \* the documents: the editor's flags and the plugin's mark
    calls,   \* how many calls of each kind wait for their callback, per document
    running, \* lsp_server_get_if_running() finds the server
    lost,    \* history: marked documents for which a callback came in vain or not at all
    saves,   \* saves of the user so far
    config   \* srv->config, as far as it is about saving; it does not change

vars == <<doc, calls, running, lost, saves, config>>

-----------------------------------------------------------------------------
Kind == {"codeAction", "resolve", "executeCommand", "formatting"}

\* performed is the list of the actions performed by the save going on; the document is
\* marked when there is a list.
DocType == [open : BOOLEAN, changed : BOOLEAN, marked : BOOLEAN, performed : SUBSET Title]
Closed  == [open |-> FALSE, changed |-> FALSE, marked |-> FALSE, performed |-> {}]

TypeOK ==
    /\ doc \in [Doc -> DocType]
    /\ \A d \in Doc : doc[d].open \/ doc[d] = Closed
    /\ \A d \in Doc : doc[d].marked \/ doc[d].performed = {}
    /\ calls \in [Doc -> [Kind -> 0 .. MaxCalls]]
    /\ running \in BOOLEAN
    /\ lost \subseteq Doc
    /\ saves \in 0 .. MaxSaves
    /\ config \in Configs

Init ==
    /\ doc = [d \in Doc |-> Closed]
    /\ calls = [d \in Doc |-> [k \in Kind |-> 0]]
    /\ running = FALSE
    /\ lost = {}
    /\ saves = 0
    /\ config \in Configs

M0 == [doc |-> doc, calls |-> calls]

\* The handler ends with the tables M; L are documents that lost a callback.
Commit(M, L) ==
    /\ \A d \in Doc, k \in Kind : M.calls[d][k] <= MaxCalls
    /\ doc' = M.doc
    /\ calls' = M.calls
    /\ lost' = {d \in lost \cup L : M.doc[d].marked}

\* The document of a callback that finds no server to go on with.
Vain(d) == IF running THEN {} ELSE {d}

-----------------------------------------------------------------------------
(* The links of the chain *)

\* lsp_rpc_call() with d as the document of the callback; without a server that runs
\* nothing is sent and no callback comes.
Send(M, d, k) == IF running THEN [M EXCEPT !.calls[d][k] = @ + 1] ELSE M

\* on_command_performed(): the actions of the document as it is now are requested.
CommandPerformed(M, d) == IF M.doc[d].open THEN Send(M, d, "codeAction") ELSE M

\* The server or lsp_utils_apply_workspace_edit() changes the document.
Edited(M, d) == IF M.doc[d].open THEN [M EXCEPT !.doc[d].changed = TRUE] ELSE M

\* Mutant: the document is marked before it is known whether a call goes out.
BeforeSaveMarked(M, d) ==
    LET P == [M EXCEPT !.doc[d].marked = TRUE]
    IN IF M.doc[d].marked \/ ~running THEN P
       ELSE IF config.actions THEN Send(P, d, "codeAction")
       ELSE IF config.format THEN Send(P, d, "formatting") ELSE P

\* on_document_before_save(): a document that is marked starts no second chain.
BeforeSave(M, d) ==
    IF ~running \/ M.doc[d].marked THEN M
    ELSE LET P == [M EXCEPT !.doc[d].marked = TRUE]
         IN IF config.actions THEN Send(P, d, "codeAction")
            ELSE IF config.format THEN Send(P, d, "formatting") ELSE P

\* document_save_file() of Geany, up to its document-save signal.
SaveFile(M, d) == [BeforeSave(M, d) EXCEPT !.doc[d].changed = FALSE]

\* The list is freed with its data key.
Unmarked(M, d) == [M EXCEPT !.doc[d].marked = FALSE, !.doc[d].performed = {}]

\* Mutants: the mark is removed before the file is saved; the file is not saved.
SaveFinishEarly(M, d) ==
    LET U == Unmarked(M, d)
    IN IF ~M.doc[d].marked THEN M
       ELSE IF M.doc[d].changed THEN SaveFile(U, d) ELSE U
SaveFinishOnly(M, d) == Unmarked(M, d)

\* on_save_finish(): the edits of the chain are saved, if there are any, and the mark
\* is removed.
SaveFinish(M, d) ==
    IF ~M.doc[d].marked THEN M
    ELSE Unmarked(IF M.doc[d].changed THEN SaveFile(M, d) ELSE M, d)

\* lsp_command_perform() of an action that comes with a command, an edit or both, or with
\* neither and has to be resolved first.
Perform(M, d, how) ==
    LET E == IF how \in {"edit", "both"} THEN Edited(M, d) ELSE M
    IN IF how = "resolve" THEN Send(M, d, "resolve")
       ELSE IF how = "edit" THEN CommandPerformed(E, d)
       ELSE Send(E, d, "executeCommand")

\* on_code_actions_received(), when t is the first title that matches and is not in the
\* list, or NULL: t is put on the list, then performed.  Without a mark every action
\* counts as performed.
ActionsReceived(M, d, t, how) ==
    IF ~M.doc[d].open \/ ~running THEN M
    ELSE IF t # NULL /\ M.doc[d].marked
         THEN Perform([M EXCEPT !.doc[d].performed = @ \cup {t}], d, how)
    ELSE IF config.format THEN Send(M, d, "formatting") ELSE SaveFinish(M, d)

-----------------------------------------------------------------------------
(* The user *)

\* A document that is opened, perhaps at the address of a closed one.
Open(d) ==
    /\ ~doc[d].open
    /\ doc' = [doc EXCEPT ![d].open = TRUE]
    /\ UNCHANGED <<calls, running, lost, saves, config>>

\* The plugin's data of the document goes with it; the calls stay.
Close(d) ==
    /\ doc[d].open
    /\ doc' = [doc EXCEPT ![d] = Closed]
    /\ lost' = lost \ {d}
    /\ UNCHANGED <<calls, running, saves, config>>

Edit(d) ==
    /\ doc[d].open
    /\ doc' = [doc EXCEPT ![d].changed = TRUE]
    /\ UNCHANGED <<calls, running, lost, saves, config>>

\* The user saves d; on_document_save() opens it at the server when it was not open
\* there, by way of on_document_visible().
Save(d, unopened) ==
    /\ doc[d].open
    /\ doc[d].changed
    /\ saves < MaxSaves
    /\ LET S == SaveFile(M0, d)
       IN Commit(IF unopened /\ running THEN SaveFinish(S, d) ELSE S, {})
    /\ saves' = saves + 1
    /\ UNCHANGED <<running, config>>

\* on_document_visible(): "just in case we didn't get some callback from the server".
Activate(d) ==
    /\ doc[d].open
    /\ running
    /\ Commit(SaveFinish(M0, d), {})
    /\ UNCHANGED <<running, saves, config>>

-----------------------------------------------------------------------------
(* The callbacks *)

\* One call of the kind k for d is answered.
Answered(d, k) == [M0 EXCEPT !.calls[d][k] = @ - 1]

\* code_action_cb(); an error counts as an empty list.
CodeActionAnswered(d, t, how) ==
    /\ calls[d]["codeAction"] > 0
    /\ t # NULL => doc[d].marked /\ t \notin doc[d].performed
    /\ Commit(ActionsReceived(Answered(d, "codeAction"), d, t, how), Vain(d))
    /\ UNCHANGED <<running, saves, config>>

\* Mutant: the callback does not ask for the actions that are left.
CommandAnsweredLast(d, edited) ==
    /\ calls[d]["executeCommand"] > 0
    /\ Commit(Answered(d, "executeCommand"), Vain(d))
    /\ UNCHANGED <<running, saves, config>>

\* command_cb(), the same with an error; the command may have changed the document.
CommandAnswered(d, edited) ==
    /\ calls[d]["executeCommand"] > 0
    /\ LET A == Answered(d, "executeCommand")
       IN Commit(CommandPerformed(IF edited THEN Edited(A, d) ELSE A, d), Vain(d))
    /\ UNCHANGED <<running, saves, config>>

\* resolve_cb(); nothing is performed after an error, when the current document is
\* another one than at the request, or when the answer has no command and no edit.
ResolveAnswered(d, how) ==
    /\ calls[d]["resolve"] > 0
    /\ LET A == Answered(d, "resolve")
       IN Commit(IF how # "none" /\ running THEN Perform(A, d, how)
                 ELSE CommandPerformed(A, d), Vain(d))
    /\ UNCHANGED <<running, saves, config>>

\* format_cb()
FormattingAnswered(d, edited) ==
    /\ calls[d]["formatting"] > 0
    /\ LET A == Answered(d, "formatting")
       IN Commit(SaveFinish(IF edited THEN Edited(A, d) ELSE A, d), {})
    /\ UNCHANGED <<running, saves, config>>

-----------------------------------------------------------------------------
(* The server *)

\* It stops or crashes; the calls it still has fail, or their callbacks never run.
ServerStops ==
    /\ running
    /\ running' = FALSE
    /\ UNCHANGED <<doc, calls, lost, saves, config>>

\* call_cb() of lsp-rpc.c runs no callback of a server that is stopping or was freed.
CallForgotten(d, k) ==
    /\ ~running
    /\ calls[d][k] > 0
    /\ Commit(Answered(d, k), {d})
    /\ UNCHANGED <<running, saves, config>>

\* The handshake of a new server takes longer than the errors of the old calls.
ServerStarts ==
    /\ ~running
    /\ \A d \in Doc, k \in Kind : calls[d][k] = 0
    /\ running' = TRUE
    /\ UNCHANGED <<doc, calls, lost, saves, config>>

-----------------------------------------------------------------------------
Callback(d) ==
    \/ \E t \in Title \cup {NULL}, how \in {"command", "edit", "both", "resolve"} :
           CodeActionAnswered(d, t, how)
    \/ \E edited \in BOOLEAN : CommandAnswered(d, edited)
    \/ \E how \in {"none", "command", "edit", "both"} : ResolveAnswered(d, how)
    \/ \E edited \in BOOLEAN : FormattingAnswered(d, edited)

Next ==
    \/ \E d \in Doc :
          \/ Open(d)
          \/ Close(d)
          \/ Edit(d)
          \/ \E unopened \in BOOLEAN : Save(d, unopened)
          \/ Activate(d)
          \/ Callback(d)
          \/ \E k \in Kind : CallForgotten(d, k)
    \/ ServerStops
    \/ ServerStarts

Spec == Init /\ [][Next]_vars

\* Every call is answered or fails (RpcCalls), or is forgotten.
Fairness ==
    \A d \in Doc : WF_vars(Callback(d) \/ \E k \in Kind : CallForgotten(d, k))

FairSpec == Spec /\ Fairness

-----------------------------------------------------------------------------
(* Properties *)

Waiting(d) == \E k \in Kind : calls[d][k] > 0

\* A document stays marked only while a call of its chain is unanswered, or when a
\* callback got lost: every way through the callbacks goes on or ends in
\* on_save_finish(), so the next save starts a chain again.
MarkedWhileSaving == \A d \in Doc : doc[d].marked => Waiting(d) \/ d \in lost

\* A chain comes to its end: the save it ends with, the actions it asks for again and
\* again and the edits they make start no further round for ever.
ChainEnds == \A d \in Doc : Waiting(d) ~> ~Waiting(d)

\* What actions and formatting changed is in the file when the mark of a document goes.
FinishedSaved ==
    [][\A d \in Doc :
          (doc[d].marked /\ ~doc'[d].marked) => ~doc'[d].changed]_vars

\* The plugin writes a file only to end a chain the user's save started, or to make up
\* for a callback that got lost; the user's edits are not saved behind his back.
SavesAreAsked ==
    [][\A d \in Doc :
          (doc[d].changed /\ ~doc'[d].changed) =>
              \/ ~doc'[d].open
              \/ saves' # saves
              \/ Waiting(d)
              \/ d \in lost]_vars
=============================================================================
