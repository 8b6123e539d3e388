------------------------------ MODULE Symbols ------------------------------
(***************************************************************************)
(* The symbols of documents, src/lsp/src/lsp-symbols.c, and the page of    *)
(* the sidebar that shows those of the current document,                   *)
(* src/lsp/src/lsp-symbol-tree.c.  SymbolTree models how the rows of a     *)
(* tree are made from a list of symbols.                                   *)
(***************************************************************************)
EXTENDS Documents

CONSTANTS
    Bare,      \* the texts that have no symbols
    Default    \* the empty tree that stands for documents without symbols

ASSUME BareAssumption == Bare \subseteq Nat /\ Default \notin Doc

VARIABLE symbols
    \* cached: the text the CACHED_SYMBOLS_KEY data of each document are of, or NULL;
    \* rows: the text the rows of its tree are of, or NULL; page: the sidebar shows the
    \* page; child: the tree in it; none: the documents whose last answer was null (history)

SymbolsOK ==
    symbols \in [cached : [Doc -> Text \cup {NULL}], rows : [Doc -> Text \cup {NULL}],
                 page : BOOLEAN, child : Doc \cup {Default}, none : SUBSET Doc]

SymbolsInit ==
    symbols = [cached |-> [d \in Doc |-> NULL], rows |-> [d \in Doc |-> NULL],
               page |-> TRUE, child |-> Default, none |-> {}]

\* lsp_symbols_destroy() for the documents ds.
SymbolsForgotten(s, ds) ==
    [s EXCEPT !.cached = [d \in Doc |-> IF d \in ds THEN NULL ELSE @[d]]]

\* The trees of documents that Geany closes go with their data.
SymbolsClosed(s, d) ==
    [SymbolsForgotten(s, {d}) EXCEPT
        !.rows[d] = NULL, !.none = @ \ {d}, !.child = IF @ = d THEN Default ELSE @]

\* Mutant: a document without symbols keeps the tree that was shown.
TreeRefreshKept(s, cur) ==
    IF cur = NULL \/ ~s.page \/ s.cached[cur] \in Bare \cup {NULL} THEN s
    ELSE [s EXCEPT !.rows[cur] = s.cached[cur], !.child = cur]

\* lsp_symbol_tree_refresh() while cur is the current document.
TreeRefresh(s, cur) ==
    IF cur = NULL \/ ~s.page THEN s
    ELSE IF s.cached[cur] \in Bare \cup {NULL} THEN [s EXCEPT !.child = Default]
    ELSE [s EXCEPT !.rows[cur] = s.cached[cur], !.child = cur]

\* lsp_symbols_doc_request()
SymbolsCall(d) == Asks("symbols", <<Call("symbols", d, NULL)>>)

\* symbols_cb() with the symbols of c, or with null, which leaves those that are cached;
\* then lsp_symbol_request_cb().
SymbolsAnswered(c, result) ==
    symbols' = IF c.doc # current THEN symbols
               ELSE IF result = "none" THEN TreeRefresh([symbols EXCEPT !.none = @ \cup {c.doc}], current)
               ELSE TreeRefresh([symbols EXCEPT !.cached[c.doc] = c.text, !.none = @ \ {c.doc}], current)

\* symbols_cb() with an error
SymbolsFailed(cs) ==
    IF \E i \in 1 .. Len(cs) : cs[i].method = "symbols" /\ cs[i].doc = current
    THEN TreeRefresh(symbols, current) ELSE symbols

\* on_sidebar_switch_page()
SwitchPage ==
    /\ "symbols" \in enabled
    /\ symbols' = TreeRefresh([symbols EXCEPT !.page = ~@], current)

-----------------------------------------------------------------------------
\* The page shows what is cached for the current document: its tree with rows for
\* exactly those symbols (while nothing is searched for), and the empty tree when there are
\* none; and once nothing is under way for the document, these are the symbols of its
\* text, unless the last answer was null.
SymbolsShown ==
    LET cached == symbols.cached[current]
    IN current # NULL /\ symbols.cached[current] # NULL =>
           /\ symbols.page =>
                 IF cached \in Bare THEN symbols.child = Default
                 ELSE symbols.child = current /\ symbols.rows[current] = cached
           /\ Settled("symbols", current) =>
                 cached = doc[current].text \/ current \in symbols.none
=============================================================================
