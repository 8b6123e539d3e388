------------------------------ MODULE SymbolTree ----------------------------
(***************************************************************************)
(* How the tree of symbols of a document is brought up to date with a list *)
(* of symbols: update_symbols() and what it uses in                        *)
(* src/lsp/src/lsp-symbol-tree.c.  A symbol is a record of its name (which *)
(* stands for its kind and detail, too), the names around it, outermost    *)
(* first, and its line.  A tree is the sequence of its rows from top to    *)
(* bottom, each with its depth, so that the children of a row follow it.   *)
(***************************************************************************)
EXTENDS Ordering, SequencesExt

\* lsp_symbol_get_name_with_scope()
ScopedName(sym) == Append(sym.scope, sym.name)

\* is_symbol_within_parent()
WithinParent(sym, parent) == IsPrefix(ScopedName(parent), sym.scope)

\* compare_symbol_lines(), with the order of scopes by their length.
LineBefore(a, b) == a.line < b.line \/ (a.line = b.line /\ Len(a.scope) < Len(b.scope))

\* compare_symbol_parent_first() <= 0.  It is no order: a symbol may come before another
\* one by its line and after it for a parent of the same name.
NotAfter(a, b) == ~WithinParent(a, b) /\ (WithinParent(b, a) \/ ~LineBefore(b, a))

\* g_list_sort() of GLib merges halves, of which the second is the longer one.
Take(a, b, m) ==
    IF m.j > Len(b) \/ (m.i <= Len(a) /\ NotAfter(a[m.i], b[m.j]))
    THEN [m EXCEPT !.i = @ + 1, !.out = Append(@, a[m.i])]
    ELSE [m EXCEPT !.j = @ + 1, !.out = Append(@, b[m.j])]

Merge(a, b) ==
    LET taken[k \in 0 .. Len(a) + Len(b)] ==
            IF k = 0 THEN [i |-> 1, j |-> 1, out |-> <<>>] ELSE Take(a, b, taken[k - 1])
    IN taken[Len(a) + Len(b)].out

FirstHalf(n) == n \div 2

ListSort(s) ==
    LET parts == {p \in (1 .. Len(s) + 1) \X (0 .. Len(s)) : p[1] + p[2] <= Len(s) + 1}
        sorted[p \in parts] ==
            LET first == p[1]
                n == p[2]
            IN IF n < 2 THEN SubSeq(s, first, first + n - 1)
               ELSE Merge(sorted[<<first, FirstHalf(n)>>], sorted[<<first + FirstHalf(n), n - FirstHalf(n)>>])
    IN sorted[<<1, Len(s)>>]

\* get_symbol_list(): those whose name or scope is searched for, the last one first, and
\* then parents first.
IsSearched(sym, searched) == Range(ScopedName(sym)) \cap searched # {}

Collected(syms, searched) ==
    LET places == {i \in DOMAIN syms : IsSearched(syms[i], searched)}
        order == InOrder(places, {p \in places \X places : p[1] > p[2]})
    IN [k \in DOMAIN order |-> syms[order[k]]]

SymbolList(syms, searched) == ListSort(Collected(syms, searched))

-----------------------------------------------------------------------------
Distance(a, b) == IF a > b THEN a - b ELSE b - a

\* symbols_table_lookup(): symbols_table_equal() ones, the nearest of them; g_tree_search()
\* passes both neighbours of a line, and of two equally near ones the first is taken here.
Matches(sym, left) == {i \in DOMAIN left : ScopedName(left[i]) = ScopedName(sym)}

SymbolsTableLookup(sym, left) ==
    CHOOSE i \in Matches(sym, left) :
        \A j \in Matches(sym, left) :
            LET near(k) == Distance(left[k].line, sym.line)
            IN near(i) < near(j) \/ (near(i) = near(j) /\ i <= j)

\* The root of the balanced tree of GLib with the lines of these symbols, entered in this
\* order, for at most three of them.
TreeRoot(parents, named) ==
    LET lines == {parents[i].line : i \in named}
    IN IF Cardinality(lines) < 3 THEN parents[Min(named)].line
       ELSE CHOOSE l \in lines : Cardinality({k \in lines : k < l}) = 1

\* tree_search_func() for the nearest line that is not greater: the search begins with the
\* root, whatever its line, and leaves it for something nearer only.
FoundLine(parents, named, line) ==
    LET lower == {l \in {parents[i].line : i \in named} : l <= line}
        root == TreeRoot(parents, named)
    IN IF lower # {} /\ line - Max(lower) < Distance(root, line) THEN Max(lower) ELSE root

\* Mutant: the first parent of the name, wherever it is.
ParentsTableLookupFirst(parents, sym) ==
    LET named == {i \in DOMAIN parents : ScopedName(parents[i]) = sym.scope}
    IN IF named = {} THEN {} ELSE {parents[Min(named)]}

\* parents_table_lookup(): of the symbols that have rows already, in the order they were
\* entered, the parent of sym, if there is one.
ParentsTableLookup(parents, sym) ==
    LET named == {i \in DOMAIN parents : ScopedName(parents[i]) = sym.scope}
    IN IF named = {} THEN {}
       ELSE {parents[Max({i \in named : parents[i].line = FoundLine(parents, named, sym.line)})]}

-----------------------------------------------------------------------------
\* Mutant: a symbol that found its row stays in the list.
UpdateRowListed(st, row) ==
    IF \E depth \in st.removed : row.depth > depth THEN st
    ELSE IF Matches(row.sym, st.left) = {} THEN [st EXCEPT !.removed = {row.depth}]
    ELSE [st EXCEPT !.rows = Append(@, [row EXCEPT !.sym = st.left[SymbolsTableLookup(row.sym, st.left)]]),
                    !.removed = {}]

\* The first pass, at one row: the row of a symbol that still exists is updated in place,
\* any other is removed with all below it.
UpdateRow(st, row) ==
    IF \E depth \in st.removed : row.depth > depth THEN st
    ELSE IF Matches(row.sym, st.left) = {} THEN [st EXCEPT !.removed = {row.depth}]
    ELSE LET i == SymbolsTableLookup(row.sym, st.left)
         IN [rows |-> Append(st.rows, [row EXCEPT !.sym = st.left[i]]),
             left |-> RemoveAt(st.left, i),
             removed |-> {}]

\* The second pass, for one symbol: a row for it, the first one below its parent.
InsertRow(st, sym) ==
    LET at == {i \in DOMAIN st.rows : st.rows[i].sym \in ParentsTableLookup(st.parents, sym)}
        place == IF at = {} THEN 0 ELSE Min(at)
        depth == IF at = {} THEN 1 ELSE st.rows[place].depth + 1
    IN [rows |-> InsertAt(st.rows, place + 1, [sym |-> sym, depth |-> depth]),
        parents |-> Append(st.parents, sym)]

\* update_symbols()
UpdateRows(rows, list) ==
    LET updated[k \in 0 .. Len(rows)] ==
            IF k = 0 THEN [rows |-> <<>>, left |-> list, removed |-> {}]
            ELSE UpdateRow(updated[k - 1], rows[k])
    IN updated[Len(rows)]

InsertRows(rows, left) ==
    LET inserted[k \in 0 .. Len(left)] ==
            IF k = 0 THEN [rows |-> rows, parents |-> [i \in DOMAIN rows |-> rows[i].sym]]
            ELSE InsertRow(inserted[k - 1], left[k])
    IN inserted[Len(left)].rows

UpdateSymbols(rows, list) ==
    LET first == UpdateRows(rows, list)
    IN InsertRows(first.rows, first.left)

-----------------------------------------------------------------------------
\* The rows around row i, and itself.
Above(rows, i) == {j \in 1 .. i : \A k \in j + 1 .. i : rows[k].depth > rows[j].depth}

Siblings(rows, i, j) == Above(rows, i) \ {i} = Above(rows, j) \ {j}

\* tree_sort_func() compares lines in every case.
LinesInOrder(rows, i, j) ==
    \/ LineBefore(rows[i].sym, rows[j].sym)
    \/ ~LineBefore(rows[j].sym, rows[i].sym) /\ i < j

\* A row comes before what is below it, and what is below its later siblings.
RowBefore(rows, i, j) ==
    \/ i # j /\ i \in Above(rows, j)
    \/ \E a \in Above(rows, i), b \in Above(rows, j) : Siblings(rows, a, b) /\ LinesInOrder(rows, a, b)

\* sort_tree(): siblings by line, with what is below them.
SortTree(rows) ==
    LET order == InOrder(DOMAIN rows, {p \in (DOMAIN rows) \X (DOMAIN rows) : RowBefore(rows, p[1], p[2])})
    IN [k \in DOMAIN rows |-> rows[order[k]]]

\* symbols_recreate_symbol_list(): when nothing is found the rows stay.
RecreateSymbolList(rows, list) ==
    IF list = <<>> THEN rows ELSE SortTree(UpdateSymbols(rows, list))
=============================================================================
