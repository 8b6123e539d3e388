----------------------------- MODULE Completion -----------------------------
(***************************************************************************)
(* Autocompletion: src/lsp/src/lsp-autocomplete.c and the notifications of *)
(* Scintilla's list in on_editor_notify().  Requests are numbered; their   *)
(* answers come in any order, and the user types, dismisses the list or    *)
(* selects from it meanwhile.                                              *)
(***************************************************************************)
EXTENDS Documents

CONSTANT MaxRequests   \* bound: completion requests

VARIABLE complete
    \* sent, received, discard_up_to: the request ids of the same names; shown: the
    \* request whose answer displayed_autocomplete_symbols are, and of: the document
    \* and the text it was made for; dismissed: the last request made before a list was
    \* taken away (history); edited: whether the text edit of the item selected last was
    \* made for the text it was applied to (history)

RequestId == 0 .. MaxRequests

NoList == [id |-> 0, of |-> NULL]

CompletionOK ==
    complete \in [sent : RequestId, received : RequestId, discard_up_to : RequestId,
                  shown : {NoList} \cup [id : RequestId, of : Doc \X Text],
                  dismissed : RequestId, edited : {"none", "fresh", "stale"}]

CompletionInit ==
    complete = [sent |-> 0, received |-> 0, discard_up_to |-> 0, shown |-> NoList,
                dismissed |-> 0, edited |-> "none"]

\* Mutant: only what is displayed is forgotten.
AutocCancelPending(c) ==
    IF c.shown = NoList THEN c ELSE [c EXCEPT !.shown = NoList, !.dismissed = c.sent]

\* SCI_AUTOCCANCEL, or Scintilla closing the list itself: SCN_AUTOCCANCELLED comes only
\* when there is a list, and discards the requests that were made.
AutocCancel(c) ==
    IF c.shown = NoList THEN c
    ELSE [c EXCEPT !.shown = NoList, !.discard_up_to = c.sent, !.dismissed = c.sent]

\* lsp_autocomplete_completion(): where nothing can be completed, the list is closed.
Completed(c, asks) == IF asks THEN [c EXCEPT !.sent = @ + 1] ELSE AutocCancel(c)

\* The call it makes, for the text d has then.
CompletionCall(d, text, asks) ==
    IF asks THEN <<[method |-> "completion", doc |-> d, text |-> text, arg |-> complete.sent + 1]>>
    ELSE <<>>

\* What a character typed into the current document may lead to.
MayComplete ==
    IF "completion" \notin enabled \/ ~server.running THEN {FALSE}
    ELSE IF complete.sent < MaxRequests THEN BOOLEAN ELSE {FALSE}

\* Another document gets the focus, or this one is closed: Scintilla closes the list.
CompletionHidden(d) == IF d = current THEN complete ELSE AutocCancel(complete)

\* process_response(): the items are displayed; when none fits, the list is closed.
Response(c, call, items) ==
    IF items THEN [c EXCEPT !.shown = [id |-> call.arg, of |-> <<call.doc, call.text>>]]
    ELSE AutocCancel(c)

\* autocomplete_cb()
CompletionAnswered(call, items) ==
    complete' = IF /\ call.doc = current
                   /\ call.arg > complete.received
                   /\ call.arg > complete.discard_up_to
                THEN Response([complete EXCEPT !.received = call.arg], call, items)
                ELSE complete

\* The user asks for completion, and where it is possible, a request is made.
Complete ==
    /\ "completion" \in enabled /\ server.running
    /\ current # NULL
    /\ \E asks \in MayComplete :
          /\ complete' = Completed(complete, asks)
          /\ MakeCalls(CompletionCall(current, doc[current].text, asks))

\* The user closes the list, or moves the caret.
Dismiss ==
    /\ complete.shown # NoList
    /\ complete' = AutocCancel(complete)
    /\ UNCHANGED calls

\* lsp_autocomplete_item_selected() at SCN_AUTOCSELECTION, for an item with a text edit: it
\* is applied when no request is under way, else a text is inserted at the caret and the
\* requests are discarded; the list is closed.
ItemSelected(c) ==
    LET applied == c.sent = c.received
        fresh   == c.shown.of = <<current, doc[current].text>>
    IN AutocCancel([c EXCEPT !.edited =
           IF ~applied THEN @ ELSE IF fresh THEN "fresh" ELSE "stale"])

-----------------------------------------------------------------------------
\* What the user sees never goes back: a list is made from the answer to a later request
\* than every list before it, and a list that was closed, by the user, by a selection or
\* for want of items, is not brought back by the answer to a request made before that.
NewestList ==
    [][complete'.shown # complete.shown /\ complete'.shown # NoList =>
          /\ complete'.shown.id > complete.shown.id
          /\ complete'.shown.id > complete.dismissed]_complete

\* A text edit is applied only to the text it was made for.
EditsFresh == complete.edited # "stale"
=============================================================================
