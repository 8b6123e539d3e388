------------------------------ MODULE CodeLens ------------------------------
(***************************************************************************)
(* Code lenses: src/lsp/src/lsp-code-lens.c.  The lenses of a document are *)
(* drawn beside its lines; their commands are in one list for all          *)
(* documents, from which the popup of the current line is made.            *)
(***************************************************************************)
EXTENDS Documents

VARIABLE lens   \* drawn: the text each document's annotations are of; commands: the list;
                \* asked: the document the last request was for; none: the documents whose
                \* last answer was null (history)

\* The command of a lens is told by the document and the text it belongs to.
Lens == [doc : Doc, text : Text]

LensOK ==
    /\ lens.drawn \in [Doc -> Text \cup {NULL}]
    /\ lens.commands \in Seq(Lens)
    /\ lens.asked \in Doc \cup {NULL}
    /\ lens.none \subseteq Doc

LensInit ==
    lens = [drawn |-> [d \in Doc |-> NULL], commands |-> <<>>, asked |-> NULL,
            none |-> {}]

\* lsp_code_lens_send_request(): the list is emptied for every document.
LensCall(d) == Asks("lens", <<Call("lens", d, NULL)>>)

LensRequested(l, d) == IF LensCall(d) = <<>> THEN l ELSE [l EXCEPT !.commands = <<>>, !.asked = d]

\* The Scintilla of a document that is closed goes with its annotations.
LensClosed(d) == [lens EXCEPT !.drawn[d] = NULL, !.none = @ \ {d}]

\* Mutant: the commands of the first answer are kept.
LensAnsweredFirst(c, result) ==
    lens' = IF ~doc[c.doc].open \/ ~server.running THEN lens
            ELSE IF result = "none" THEN [lens EXCEPT !.none = @ \cup {c.doc}]
            ELSE [lens EXCEPT !.drawn[c.doc] = c.text, !.none = @ \ {c.doc},
                              !.commands = IF @ # <<>> THEN @ ELSE <<[doc |-> c.doc, text |-> c.text]>>]

\* code_lens_cb(): null leaves the lenses that are drawn.
LensAnswered(c, result) ==
    lens' = IF ~doc[c.doc].open \/ ~server.running THEN lens
            ELSE IF result = "none" THEN [lens EXCEPT !.none = @ \cup {c.doc}]
            ELSE [lens EXCEPT !.drawn[c.doc] = c.text, !.none = @ \ {c.doc},
                              !.commands = Append(@, [doc |-> c.doc, text |-> c.text])]

-----------------------------------------------------------------------------
\* Once nothing is under way for the current document, the lenses drawn in it are those
\* of its text, and they can be run: their commands are in the list, unless the timer of
\* another document emptied it.  Where the last answer was null, those of an earlier text
\* stay, whose commands are gone.
LensRunnable ==
    \A d \in Doc :
        /\ d = current
        /\ "lens" \in enabled
        /\ Settled("lens", d)
        /\ d \notin lens.none
        => /\ lens.drawn[d] = doc[d].text
           /\ lens.asked = d => [doc |-> d, text |-> doc[d].text] \in ToSet(lens.commands)
=============================================================================
