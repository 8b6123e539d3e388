---------------------------- MODULE Diagnostics ----------------------------
(***************************************************************************)
(* Diagnostics: src/lsp/src/lsp-diagnostics.c.  The server publishes them  *)
(* unasked, for documents that may be closed by then; they are kept by the *)
(* path of the file, drawn in the document that is current, and counted in *)
(* the status bar.                                                         *)
(***************************************************************************)
EXTENDS Documents

VARIABLE diagnostics
    \* table: the text the diagnostics in diag_table are of, for the file of each
    \* document, or NULL; drawn: the text its indicators are of; label: the text whose
    \* issues the status bar counts, NULL when it shows none; published: what is on its
    \* way from the server

DiagnosticsOK ==
    /\ diagnostics.table \in [Doc -> Text \cup {NULL}]
    /\ diagnostics.drawn \in [Doc -> Text \cup {NULL}]
    /\ diagnostics.label \in Text \cup {NULL}
    /\ diagnostics.published \in Seq([doc : Doc, text : Text])

DiagnosticsInit ==
    diagnostics = [table |-> [d \in Doc |-> NULL], drawn |-> [d \in Doc |-> NULL],
                   label |-> NULL, published |-> <<>>]

\* lsp_diagnostics_redraw() of d; without a server, all is cleared.
Redraw(g, d, running) ==
    LET known == IF running THEN g.table[d] ELSE NULL
    IN [g EXCEPT !.drawn[d] = known, !.label = known]

\* on_document_visible()
DiagnosticsShown(g, d, running) == IF "diagnostics" \in enabled THEN Redraw(g, d, running) ELSE g

\* lsp_diagnostics_clear() when the document d is closed: when its server runs, the file
\* is forgotten and the label is that of d, whatever document is current.  The
\* indicators go with the Scintilla.
DiagnosticsClosed(d) ==
    IF server.running
    THEN Redraw([diagnostics EXCEPT !.table[d] = NULL], d, TRUE)
    ELSE [diagnostics EXCEPT !.drawn[d] = NULL]

\* lsp_diagnostics_init() for a new server.
DiagnosticsForgotten == [diagnostics EXCEPT !.table = [d \in Doc |-> NULL]]

\* The server publishes diagnostics of a document that is open there.
Publish(d) ==
    /\ "diagnostics" \in enabled
    /\ server.running /\ d \in server.open_docs
    /\ Len(diagnostics.published) < MaxCalls
    /\ diagnostics' = [diagnostics EXCEPT !.published = Append(@, [doc |-> d, text |-> doc[d].text])]

\* Mutant: what is received for a document replaces the drawings, but not the table.
ReceivedDrawn ==
    /\ diagnostics.published # <<>>
    /\ LET p == Head(diagnostics.published)
           g == [diagnostics EXCEPT !.published = Tail(@)]
       IN diagnostics' = IF p.doc = current THEN [g EXCEPT !.drawn[p.doc] = p.text, !.label = p.text]
                         ELSE [g EXCEPT !.table[p.doc] = p.text]

\* lsp_diagnostics_received()
DiagnosticsReceived ==
    /\ diagnostics.published # <<>>
    /\ LET p == Head(diagnostics.published)
           g == [diagnostics EXCEPT !.published = Tail(@), !.table[p.doc] = p.text]
       IN diagnostics' = IF p.doc = current THEN Redraw(g, p.doc, TRUE) ELSE g

-----------------------------------------------------------------------------
\* While the server runs, the current document is drawn with exactly the diagnostics that
\* are known for its file, those that came while another document was shown or while it
\* was closed included, and never with those of a server that crashed; and the
\* status bar never counts the issues of a document that is not current.
DiagnosticsDrawn ==
    /\ current # NULL /\ server.running => diagnostics.drawn[current] = diagnostics.table[current]
    /\ current # NULL /\ server.running /\ diagnostics.label # NULL
           => diagnostics.label = diagnostics.table[current]
=============================================================================
