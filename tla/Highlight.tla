----------------------------- MODULE Highlight -----------------------------
(***************************************************************************)
(* Highlighting of the occurrences of the identifier at the caret:         *)
(* src/lsp/src/lsp-highlight.c and what on_editor_notify() does for it.    *)
(***************************************************************************)
EXTENDS Documents

CONSTANT Identifier   \* the identifiers a caret may rest on

ASSUME IdentifierAssumption == NULL \notin Identifier

VARIABLE highlight
    \* drawn: the identifier that is highlighted in each document, or NULL;
    \* caret: the identifier at the caret of the current document, or NULL;
    \* source: the timer request_source runs; perform: perform_highlight; scheduled:
    \* lsp_highlight_schedule_request() ran for this place of the caret (history)

HighlightOK ==
    highlight \in [drawn : [Doc -> Identifier \cup {NULL}], caret : Identifier \cup {NULL},
                   source : BOOLEAN, perform : BOOLEAN, scheduled : BOOLEAN]

HighlightInit ==
    highlight = [drawn |-> [d \in Doc |-> NULL], caret |-> NULL, source |-> FALSE,
                 perform |-> TRUE, scheduled |-> FALSE]

CaretAt == IF "highlight" \in enabled THEN Identifier \cup {NULL} ELSE {NULL}

\* A document is shown with its caret at caret; lsp_highlight_style_init() clears it when
\* its server runs.
HighlightShown(d, caret, running) ==
    [highlight EXCEPT !.drawn[d] = IF running THEN NULL ELSE @,
                      !.caret = caret, !.scheduled = FALSE]

\* The Scintilla of d goes with its indicators.
HighlightClosed(d) ==
    [highlight EXCEPT !.drawn[d] = NULL,
                      !.caret = IF d = current THEN NULL ELSE @,
                      !.scheduled = @ /\ d # current]

\* SCN_MODIFIED clears while a server runs, and the next move of the caret is ignored; the
\* caret of the current document ends up at caret.
HighlightEdited(d, caret) ==
    LET h == IF Asks("highlight", <<d>>) # <<>> /\ server.running
             THEN [highlight EXCEPT !.drawn[d] = NULL, !.perform = FALSE] ELSE highlight
    IN IF d = current THEN [h EXCEPT !.caret = caret, !.scheduled = FALSE] ELSE h

\* highlight_cb(): ranges with another text than the identifier are left out, so in a
\* text that changed meanwhile some of them are, or all.
HighlightAnswered(c, found) ==
    /\ found \/ c.text # doc[c.doc].text
    /\ highlight' = IF c.doc # current THEN highlight
                    ELSE [highlight EXCEPT !.drawn[c.doc] = IF found THEN c.arg ELSE NULL]

-----------------------------------------------------------------------------
\* send_request() for the current document, and the calls it makes.
HighlightRequested(h) == IF h.caret = NULL THEN [h EXCEPT !.drawn[current] = NULL] ELSE h

HighlightCall(caret) ==
    IF caret = NULL THEN <<>> ELSE Asks("highlight", <<Call("highlight", current, caret)>>)

\* lsp_highlight_schedule_request() with the caret at h.caret: without an identifier
\* there, the document is cleared; the server is asked now, or, less than 300 ms after
\* the last request, by a timer that starts anew.
ScheduleRequest(h, now) ==
    /\ now => h.caret # NULL
    /\ highlight' = [h EXCEPT !.scheduled = TRUE,
                              !.drawn[current] = IF h.caret = NULL THEN NULL ELSE @,
                              !.source = ~now /\ h.caret # NULL]
    /\ MakeCalls(IF now THEN HighlightCall(h.caret) ELSE <<>>)

\* SCN_UPDATEUI after the caret moved, or after an edit.
MoveCaret(caret) ==
    /\ "highlight" \in enabled
    /\ current # NULL
    /\ LET moved == [highlight EXCEPT !.caret = caret, !.perform = TRUE,
                                      !.scheduled = @ /\ caret = highlight.caret]
       IN IF highlight.perform /\ server.running
          THEN \E now \in BOOLEAN : ScheduleRequest(moved, now)
          ELSE highlight' = moved /\ MakeCalls(<<>>)

\* Mutant: the timer is removed when it expires, but nothing is asked.
RequestIdleLate ==
    /\ highlight.source
    /\ highlight' = [highlight EXCEPT !.source = FALSE]
    /\ MakeCalls(<<>>)

\* request_idle()
RequestIdle ==
    /\ highlight.source
    /\ LET h   == [highlight EXCEPT !.source = FALSE]
           ask == server.running /\ current # NULL
       IN /\ highlight' = IF ask THEN HighlightRequested(h) ELSE h
          /\ MakeCalls(IF ask THEN HighlightCall(h.caret) ELSE <<>>)

-----------------------------------------------------------------------------
\* When the caret came to rest on an identifier while the server runs, the document is
\* highlighted for that identifier and no other once nothing is under way, however many
\* places the caret was at meanwhile and whichever of them were asked for.
HighlightCatchesUp ==
    /\ current # NULL
    /\ highlight.scheduled /\ highlight.caret # NULL
    /\ ~highlight.source
    /\ Settled("highlight", current)
    => highlight.drawn[current] = highlight.caret
=============================================================================
