------------------------------ MODULE Features ------------------------------
(***************************************************************************)
(* The features of the plugin at work together: what the Geany signal      *)
(* handlers of src/lsp/src/lsp-main.c and the callbacks of servers do to   *)
(* all of them.  An action is one handler; each feature's part in it is    *)
(* defined in the module of the feature.                                   *)
(***************************************************************************)
EXTENDS SemTokens, Symbols, CodeLens, Highlight, Completion, Diagnostics, Popups, Progress,
        WorkspaceFolders, SelectionRange

CONSTANT Configurations   \* the sets of features to be switched on together

ASSUME ConfigurationAssumption ==
    \A c \in Configurations :
        c \subseteq {"tokens", "symbols", "lens", "highlight", "completion", "diagnostics",
                     "popup", "progress", "folders", "selection"}

\* What is drawn from whole texts, and the rest.
drawnVars == <<tokensVars, symbols, lens, highlight, selection>>
shownVars == <<complete, diagnostics, popup, progress, folders>>

vars == <<documentVars, drawnVars, shownVars>>

TypeOK ==
    /\ enabled \in Configurations
    /\ DocumentsOK /\ TokensOK /\ SymbolsOK /\ LensOK /\ HighlightOK
    /\ CompletionOK /\ DiagnosticsOK /\ PopupOK /\ ProgressOK /\ FoldersOK
    /\ SelectionOK

Init ==
    /\ enabled \in Configurations
    /\ DocumentsInit /\ TokensInit /\ SymbolsInit /\ LensInit /\ HighlightInit
    /\ CompletionInit /\ DiagnosticsInit /\ PopupInit /\ ProgressInit /\ FoldersInit
    /\ SelectionInit

-----------------------------------------------------------------------------
\* on_update_idle() asks for everything that is drawn from whole texts; t: the tokens
\* that are cached.
Queries(d, t) == LensCall(d) \o TokensCall(t, d) \o SymbolsCall(d)

Ask(cs) == MakeCalls(cs) /\ TokensRaced(cs)

\* lsp_sync_text_document_did_open()
Opened(d) == [server EXCEPT !.open_docs = IF server.running THEN @ \cup {d} ELSE @]

\* on_document_visible(): what is known is shown again, and when the server runs, it is
\* asked for anew.
Visible(d, t, running) ==
    /\ symbols' = TreeRefresh(symbols, d)
    /\ \E caret \in IF d = current THEN {highlight.caret} ELSE CaretAt :
          highlight' = HighlightShown(d, caret, running)
    /\ lens' = IF running THEN LensRequested(lens, d) ELSE lens
    /\ complete' = CompletionHidden(d)
    /\ selection' = SelectionShown(d, running)
    /\ \E focus \in IF "popup" \in enabled THEN BOOLEAN ELSE {FALSE} :
          popup' = PopupSwitched(d, focus)
    /\ Ask(IF running THEN Queries(d, t) ELSE <<>>)

\* A file is opened at the address d and shown.
OpenDocument(d) ==
    /\ ~doc[d].open
    /\ doc' = [doc EXCEPT ![d].open = TRUE]
    /\ current' = d
    /\ server' = Opened(d)
    /\ Visible(d, tokens, server.running)
    /\ diagnostics' = DiagnosticsShown(diagnostics, d, server.running)
    /\ \E root \in FileRoot : folders' = FoldersOpened([folders EXCEPT !.of[d] = root], d)
    /\ UNCHANGED <<enabled, tokens, painted, progress>>

\* on_document_activate()
Activate(d) ==
    /\ doc[d].open
    /\ d # current
    /\ current' = d
    /\ server' = Opened(d)
    /\ Visible(d, tokens, server.running)
    /\ diagnostics' = DiagnosticsShown(diagnostics, d, server.running)
    /\ folders' = FoldersOpened(folders, d)
    /\ UNCHANGED <<enabled, doc, tokens, painted, progress>>

\* on_editor_notify() of SCN_MODIFIED, which documents get that are not current, too; in
\* the current one a character is typed, and Geany asks for completion.
Edit(d) ==
    /\ doc[d].open
    /\ doc[d].text < MaxText[d]
    /\ doc' = [doc EXCEPT ![d].text = @ + 1, ![d].timer = @ \/ server.running]
    /\ server' = Opened(d)
    /\ folders' = FoldersOpened(folders, d)
    /\ \E caret \in CaretAt : highlight' = HighlightEdited(d, caret)
    /\ selection' = SelectionTyped(selection, d)
    /\ IF d # current THEN UNCHANGED <<complete, popup, calls>>
       ELSE \E asks \in MayComplete :
               /\ complete' = Completed(complete, asks)
               /\ popup' = PopupTyped(popup, d)
               /\ MakeCalls(CompletionCall(d, doc[d].text + 1, asks))
    /\ UNCHANGED <<enabled, current, tokensVars, symbols, lens, diagnostics, progress>>

\* on_update_idle(), 300 ms after the last change; the document may be another one.
UpdateIdle(d) ==
    /\ doc[d].timer
    /\ doc' = [doc EXCEPT ![d].timer = FALSE]
    /\ LET ask == doc[d].open /\ server.running
       IN /\ Ask(IF ask THEN Queries(d, tokens) ELSE <<>>)
          /\ lens' = IF ask THEN LensRequested(lens, d) ELSE lens
          /\ server' = IF ask THEN Opened(d) ELSE server
          /\ folders' = IF ask THEN FoldersOpened(folders, d) ELSE folders
    /\ UNCHANGED <<enabled, current, tokens, painted, symbols, highlight, selection, complete, diagnostics, popup,
                   progress>>

\* on_document_close(); Geany drops the data of the document, and the address may be
\* used for a file with another text.
CloseDocument(d) ==
    /\ doc[d].open
    /\ doc[d].text < MaxText[d]
    /\ doc' = [doc EXCEPT ![d].open = FALSE, ![d].text = @ + 1]
    /\ current' = IF current = d THEN NULL ELSE current
    /\ server' = [server EXCEPT !.open_docs = @ \ {d}]
    /\ TokensCleared(d)
    /\ symbols' = SymbolsClosed(symbols, d)
    /\ lens' = LensClosed(d)
    /\ highlight' = HighlightClosed(d)
    /\ selection' = SelectionClosed(selection, d)
    /\ complete' = IF d = current THEN AutocCancel(complete) ELSE complete
    /\ diagnostics' = DiagnosticsClosed(d)
    /\ popup' = PopupClosed(d)
    /\ folders' = FoldersClosed(d)
    /\ UNCHANGED <<enabled, calls, astray, progress>>

-----------------------------------------------------------------------------
(* The server *)

\* initialize_cb(): the tokens of its documents are forgotten, and
\* on_server_initialized() shows the current document; modified ones are opened.
ServerInitialized ==
    /\ ~server.running
    /\ \E changed \in SUBSET {d \in Doc : doc[d].open} :
          LET opened == (changed \cup {current}) \ {NULL}
          IN /\ server' = [server EXCEPT !.running = TRUE, !.open_docs = opened]
             /\ folders' = FoldersStarted(opened)
    /\ tokens' = TokensDestroyed(Doc)
    /\ diagnostics' = IF current = NULL THEN DiagnosticsForgotten
                      ELSE DiagnosticsShown(DiagnosticsForgotten, current, TRUE)
    /\ IF current = NULL THEN UNCHANGED <<symbols, highlight, lens, calls, astray, complete, popup, selection>>
       ELSE Visible(current, TokensDestroyed(Doc), TRUE)
    /\ UNCHANGED <<enabled, doc, current, painted, progress>>

\* process_stopped(): what was asked for fails; the server is freed later.
ServerCrashed ==
    /\ server.running
    /\ server.unfreed = {} /\ progress.old = NoOperations
    /\ server' = [running |-> FALSE, open_docs |-> {}, unfreed |-> server.open_docs]
    /\ symbols' = SymbolsFailed(calls)
    /\ popup' = PopupFailed(calls)
    /\ diagnostics' = [diagnostics EXCEPT !.published = <<>>]
    /\ progress' = ProgressCrashed
    /\ calls' = <<>>
    /\ astray' = {}
    /\ UNCHANGED <<enabled, doc, current, tokens, painted, lens, highlight, selection, complete, folders>>

\* free_server_after_delay(): lsp_sync_free() destroys the data of the documents that
\* were open there, also when the successor has filled it again.
FreeServer ==
    /\ server.unfreed # {} \/ progress.old # NoOperations
    /\ server' = [server EXCEPT !.unfreed = {}]
    /\ tokens' = TokensDestroyed(server.unfreed)
    /\ TokensLost(server.unfreed)
    /\ symbols' = SymbolsForgotten(symbols, server.unfreed)
    /\ progress' = ProgressFreed
    /\ UNCHANGED <<enabled, doc, current, calls, painted, lens, highlight, selection, complete, diagnostics,
                   popup, folders>>

\* An answer arrives, for the feature that asked.
TokensAnswer(i) ==
    /\ calls[i].method = "tokens"
    /\ \E result \in {"full", "delta", "partial", "none"} : TokensAnswered(calls[i], result)
    /\ UNCHANGED <<symbols, lens, highlight, selection, shownVars>>

SymbolsAnswer(i) ==
    /\ calls[i].method = "symbols"
    /\ \E result \in {"array", "none"} : SymbolsAnswered(calls[i], result)
    /\ UNCHANGED <<tokensVars, lens, highlight, selection, shownVars>>

LensAnswer(i) ==
    /\ calls[i].method = "lens"
    /\ \E result \in {"array", "none"} : LensAnswered(calls[i], result)
    /\ UNCHANGED <<tokensVars, symbols, highlight, selection, shownVars>>

HighlightAnswer(i) ==
    /\ calls[i].method = "highlight"
    /\ \E found \in BOOLEAN : HighlightAnswered(calls[i], found)
    /\ UNCHANGED <<tokensVars, symbols, lens, selection, shownVars>>

CompletionAnswer(i) ==
    /\ calls[i].method = "completion"
    /\ \E items \in BOOLEAN : CompletionAnswered(calls[i], items)
    /\ UNCHANGED <<drawnVars, diagnostics, popup, progress, folders>>

SelectionAnswer(i) ==
    /\ calls[i].method = "selection"
    /\ \E found \in BOOLEAN : SelectionAnswered(calls[i], found)
    /\ UNCHANGED <<tokensVars, symbols, lens, highlight, shownVars>>

PopupAnswer(i) ==
    /\ \/ calls[i].method = "hover" /\ HoverAnswered(calls[i])
       \/ calls[i].method = "signature" /\ SignatureAnswered(calls[i])
    /\ UNCHANGED <<drawnVars, complete, diagnostics, progress, folders>>

Answer(i) ==
    /\ Answerable(i)
    /\ calls' = WithoutCall(i)
    /\ \/ TokensAnswer(i) \/ SymbolsAnswer(i) \/ LensAnswer(i) \/ HighlightAnswer(i)
       \/ CompletionAnswer(i) \/ PopupAnswer(i) \/ SelectionAnswer(i)
    /\ UNCHANGED <<enabled, doc, current, server>>

\* The server refuses to answer a call for a text that changed meanwhile.
Refuse(i) ==
    /\ Answerable(i)
    /\ calls[i].text # doc[calls[i].doc].text
    /\ calls' = WithoutCall(i)
    /\ symbols' = SymbolsFailed(<<calls[i]>>)
    /\ popup' = PopupFailed(<<calls[i]>>)
    /\ UNCHANGED <<enabled, doc, current, server, tokensVars, lens, highlight, selection, complete,
                   diagnostics, progress, folders>>

\* handle_notification() and handle_call() of what the server sends unasked.
ServerTells ==
    /\ \/ /\ \E d \in Doc : Publish(d)
          /\ UNCHANGED progress
       \/ DiagnosticsReceived /\ UNCHANGED progress
       \/ ProgressReported /\ UNCHANGED diagnostics
    /\ UNCHANGED <<documentVars, drawnVars, complete, popup, folders>>

-----------------------------------------------------------------------------
(* The user and the timers *)

UserSwitchesPage ==
    /\ SwitchPage
    /\ UNCHANGED <<documentVars, tokensVars, lens, highlight, selection, shownVars>>

HighlightMoves ==
    /\ (\E caret \in CaretAt : MoveCaret(caret)) \/ RequestIdle
    /\ UNCHANGED <<enabled, doc, current, server, tokensVars, symbols, lens, selection, shownVars>>

UserExpandsSelection ==
    /\ SelectionMoves
    /\ UNCHANGED <<enabled, doc, current, server, tokensVars, symbols, lens, highlight,
                   shownVars>>

UserCompletes ==
    /\ Complete \/ Dismiss
    /\ UNCHANGED <<enabled, doc, current, server, drawnVars, diagnostics, popup, progress, folders>>

\* SCN_AUTOCSELECTION; the edit of the item is an edit like others, and leaves a caret.
UserSelects ==
    /\ complete.shown # NoList
    /\ current # NULL /\ server.running
    /\ doc[current].text < MaxText[current]
    /\ complete' = ItemSelected(complete)
    /\ doc' = [doc EXCEPT ![current].text = @ + 1, ![current].timer = TRUE]
    /\ server' = Opened(current)
    /\ \E caret \in CaretAt : highlight' = HighlightEdited(current, caret)
    /\ selection' = SelectionTyped(selection, current)
    /\ UNCHANGED <<enabled, current, calls, tokensVars, symbols, lens, diagnostics, popup,
                   progress, folders>>

UserMovesPopup ==
    /\ PopupMoves
    /\ UNCHANGED <<enabled, doc, current, server, drawnVars, complete, diagnostics, progress,
                   folders>>

Next ==
    \/ \E d \in Doc :
          OpenDocument(d) \/ Activate(d) \/ Edit(d) \/ UpdateIdle(d) \/ CloseDocument(d)
    \/ ServerInitialized \/ ServerCrashed \/ FreeServer
    \/ \E i \in 1 .. MaxCalls : Answer(i) \/ Refuse(i)
    \/ ServerTells
    \/ UserSwitchesPage \/ HighlightMoves
    \/ UserCompletes \/ UserSelects \/ UserMovesPopup \/ UserExpandsSelection

Spec == Init /\ [][Next]_vars
=============================================================================
