------------------------------ MODULE TextEdits -----------------------------
(***************************************************************************)
(* Text edits and workspace edits: lsp_utils_apply_text_edits() and        *)
(* lsp_utils_apply_workspace_edit() of src/lsp/src/lsp-utils.c.  A         *)
(* position is the number of characters before it; an edit replaces what   *)
(* is between from and to.                                                 *)
(***************************************************************************)
EXTENDS Ordering, Snippets

\* Scintilla moves a caret that is behind the place of a change.
CaretMoved(caret, e, len) ==
    LET deleted == IF caret > e.to THEN caret - (e.to - e.from)
                   ELSE IF caret > e.from THEN e.from
                   ELSE caret
    IN IF deleted > e.from THEN deleted + len ELSE deleted

\* What an edit inserts, and the carets in it.
NewText(e, snippet) ==
    IF snippet THEN ProcessSnippet(e.new) ELSE [text |-> e.new, carets |-> {Len(e.new)}]

\* lsp_utils_apply_text_edit() of an edit to buf: a text and its carets.
ApplyTextEdit(buf, e, snippet, setCursor) ==
    LET new == NewText(e, snippet)
    IN [text |-> SubSeq(buf.text, 1, e.from) \o new.text
                     \o SubSeq(buf.text, e.to + 1, Len(buf.text)),
        carets |-> IF setCursor THEN {e.from + k : k \in new.carets}
                   ELSE {CaretMoved(k, e, Len(new.text)) : k \in buf.carets}]

\* Mutant: edits are made in the order of the text.
BeforeForwards(es, i, j) == es[i].from < es[j].from \/ (es[i].from = es[j].from /\ i < j)

\* sort_edits(): backwards, so that no edit moves what a later one replaces; edits at
\* the same place stay in their order.
Before(es, i, j) == es[i].from > es[j].from \/ (es[i].from = es[j].from /\ i < j)
SortEdits(es) ==
    InOrder(DOMAIN es, {p \in (DOMAIN es) \X (DOMAIN es) : Before(es, p[1], p[2])})

\* lsp_utils_apply_text_edits(): main is the place of the main edit in es, 0 when there is
\* none, so that carets only move.  When the main edit is a snippet, all are processed.
ApplyTextEdits(buf, es, main, snippet) ==
    LET order == SortEdits(es)
        edited[k \in 0 .. Len(es)] ==
            IF k = 0 THEN buf
            ELSE ApplyTextEdit(edited[k - 1], es[order[k]], snippet, order[k] = main)
    IN edited[Len(es)]

\* apply_edits_in_file(): a file is open in the editor, on disk, or cannot be read; what is
\* not open is written at once.
ApplyEditsInFile(files, f, es) ==
    [files EXCEPT ![f] =
        IF @.kind = "unreadable" THEN @
        ELSE [kind |-> @.kind,
              text |-> ApplyTextEdits([text |-> @.text, carets |-> {}], es, 0, FALSE).text,
              changed |-> @.changed \/ (@.kind = "open" /\ es # <<>>)]]

\* lsp_utils_apply_workspace_edit(): w.documentChanges, a sequence, counts only when there
\* is no dictionary w.changes.
ApplyWorkspaceEdit(files, w) ==
    LET entries == IF w.hasChanges THEN w.changes ELSE w.documentChanges
        edited[k \in 0 .. Len(entries)] ==
            IF k = 0 THEN files ELSE ApplyEditsInFile(edited[k - 1], entries[k].file, entries[k].edits)
    IN [files |-> edited[Len(entries)],
        ret |-> w.hasChanges \/ entries # <<>>]
=============================================================================
