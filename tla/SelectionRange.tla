--------------------------- MODULE SelectionRange ---------------------------
(***************************************************************************)
(* Expanding and shrinking the selection along the syntax of the text:     *)
(* src/lsp/src/lsp-selection-range.c.  The server answers a position with  *)
(* ranges around it; one list of them, for whatever document, is gone      *)
(* through until the caret moves without a selection or another document   *)
(* is shown.                                                               *)
(***************************************************************************)
EXTENDS Documents

CONSTANT Syntax   \* the ranges of a text: pairs of positions that nest or are apart

ASSUME SyntaxAssumption ==
    /\ Syntax # {} /\ IsFiniteSet(Syntax)
    /\ \A r \in Syntax : r \in Nat \X Nat /\ r[1] < r[2]
    /\ \A r, q \in Syntax : \/ r[2] <= q[1] \/ q[2] <= r[1]
                            \/ r[1] <= q[1] /\ q[2] <= r[2]
                            \/ q[1] <= r[1] /\ r[2] <= q[2]

VARIABLE selection
    \* sel: what is selected in each document, an empty range at the caret; list:
    \* selections, or NULL; back: the selections that were expanded, oldest first
    \* (history); mixed: the user went to another place while
    \* the server was asked about one (history)

Position == UNION {{r[1], r[2]} : r \in Syntax}
TextRange == {r \in Position \X Position : r[1] <= r[2]}
Caret == {r \in TextRange : r[1] = r[2]}
NoRange == <<>>

SelectionOK ==
    /\ selection.sel \in [Doc -> TextRange]
    /\ selection.list \in {NULL} \cup Seq(TextRange)
    /\ selection.back \in Seq(TextRange)
    /\ selection.mixed \in BOOLEAN

Unselected == LET p == CHOOSE p \in Position : TRUE IN <<p, p>>

SelectionInit ==
    selection = [sel |-> [d \in Doc |-> Unselected], list |-> NULL, back |-> <<>>, mixed |-> FALSE]

\* is_within_range(): the parent is larger, at one end at least.
WithinRange(parent, child) ==
    \/ parent[1] < child[1] /\ parent[2] >= child[2]
    \/ parent[1] <= child[1] /\ parent[2] > child[2]

\* is_max_selection()
MaxSelection(s, d) == s.list # NULL /\ s.list # <<>> /\ Last(s.list) = s.sel[d]

\* Where in a list the ranges are that are larger than one, or smaller.
Larger(list, range) == {i \in DOMAIN list : WithinRange(list[i], range)}
Smaller(list, range) == {i \in DOMAIN list : WithinRange(range, list[i])}

\* Mutant: shrinking takes the first range, too.
FindSelectionRangeFirst(list, range, expand) ==
    LET fits == IF expand THEN Larger(list, range) ELSE Smaller(list, range)
    IN IF fits = {} THEN NoRange ELSE list[Min(fits)]

\* find_selection_range(): the list is "sorted from the smallest to the biggest".
FindSelectionRange(list, range, expand) ==
    LET larger  == Larger(list, range)
        smaller == Smaller(list, range)
    IN IF expand THEN (IF larger = {} THEN NoRange ELSE list[Min(larger)])
       ELSE IF smaller = {} THEN NoRange ELSE list[Max(smaller)]

Asked == \E d \in Doc : Pending("selection", d)

\* The user leaves the place that was expanded.
WentElsewhere(s) == [s EXCEPT !.back = <<>>, !.mixed = @ \/ Asked]

\* lsp_selection_clear_selections()
SelectionsCleared(s) == [s EXCEPT !.list = NULL]

\* SCN_UPDATEUI: d has the selection range, which the current document shows at once.
Selected(s, d, range) ==
    LET t == [s EXCEPT !.sel[d] = range]
    IN IF d = current /\ range \in Caret THEN SelectionsCleared(t) ELSE t

\* find_and_select()
FindAndSelect(s, d, expand) ==
    LET range == FindSelectionRange(s.list, s.sel[d], expand)
        back == IF expand
                THEN (IF Contains(s.list, s.sel[d]) THEN Append(s.back, s.sel[d]) ELSE <<>>)
                ELSE IF s.back = <<>> THEN <<>> ELSE Front(s.back)
    IN IF range = NoRange THEN s
       ELSE Selected(IF d = current THEN [s EXCEPT !.back = back] ELSE s, d, range)

\* selection_range_request() for the current document: the list serves as long as there
\* is a selection and something to select, then the server is asked.
SelectionRangeRequest(expand) ==
    LET range == selection.sel[current]
    IN /\ current # NULL /\ server.running
       /\ ~(expand /\ MaxSelection(selection, current))
       /\ IF /\ range \notin Caret
             /\ selection.list # NULL
             /\ FindSelectionRange(selection.list, range, expand) # NoRange
          THEN selection' = FindAndSelect(selection, current, expand) /\ MakeCalls(<<>>)
          ELSE /\ selection' = [selection EXCEPT !.list = <<>>, !.mixed = @ /\ Asked]
               /\ MakeCalls(<<Call("selection", current, [expand |-> expand, pos |-> range[1]])>>)

\* parse_selection(): the ranges around pos that are larger than range, each the parent of
\* the one before.
Parsed(pos, range) ==
    LET around == {r \in Syntax : r[1] <= pos /\ pos < r[2] /\ WithinRange(r, range)}
    IN {s \in [1 .. Cardinality(around) -> around] :
           /\ ToSet(s) = around
           /\ \A i, j \in DOMAIN s : i < j => WithinRange(s[j], s[i])}

\* goto_cb() with the ranges around the place that was asked for, or null.
\* Where the list was cleared meanwhile, the code goes through a NULL pointer: what
\* happens then is not modelled.
SelectionAnswered(c, found) ==
    LET range == selection.sel[c.doc]
    IN IF ~doc[c.doc].open \/ ~found THEN selection' = selection
       ELSE /\ selection.list # NULL
            /\ \E parsed \in Parsed(c.arg.pos, range) :
                  selection' = FindAndSelect(
                      [selection EXCEPT !.list = @ \o <<range>> \o parsed], c.doc, c.arg.expand)

\* on_document_visible()
SelectionShown(d, running) ==
    LET s == IF running THEN SelectionsCleared(selection) ELSE selection
    IN IF d = current THEN s ELSE WentElsewhere(s)

\* A typed character leaves a caret.
SelectionTyped(s, d) ==
    IF d = current THEN WentElsewhere(Selected(s, d, <<s.sel[d][1], s.sel[d][1]>>)) ELSE s

SelectionClosed(s, d) ==
    IF d = current THEN WentElsewhere([s EXCEPT !.sel[d] = Unselected])
    ELSE [s EXCEPT !.sel[d] = Unselected]

\* The user selects something else, or puts the caret somewhere.
UserSelectsRange(range) ==
    /\ current # NULL
    /\ range # selection.sel[current]
    /\ selection' = WentElsewhere(Selected(selection, current, range))
    /\ UNCHANGED calls

SelectionMoves ==
    /\ "selection" \in enabled
    /\ \/ \E expand \in BOOLEAN : SelectionRangeRequest(expand)
       \/ \E range \in TextRange : UserSelectsRange(range)

-----------------------------------------------------------------------------
\* Shrinking goes back the way of expanding, selection by selection, also when several
\* keys were pressed before the server answered: unless the user went to another place
\* before.
ShrinksBack ==
    [][LET shrinks == \/ SelectionRangeRequest(FALSE)
                      \/ \E i \in 1 .. Len(calls) :
                            /\ calls[i].method = "selection" /\ ~calls[i].arg.expand
                            /\ calls' = WithoutCall(i)
       IN (/\ shrinks
           /\ current # NULL
           /\ selection.back # <<>>
           /\ selection'.sel[current] # selection.sel[current]
           /\ ~selection.mixed)
          => selection'.sel[current] = Last(selection.back)]_selection
=============================================================================
