--------------------------- MODULE CompletionList ---------------------------
(***************************************************************************)
(* What the popup of completions lists: process_response() and the         *)
(* functions it sorts and filters with in src/lsp/src/lsp-autocomplete.c.  *)
(* An item has a label, the sortText of the server as a number, and        *)
(* whether it is a snippet.  What a label has to do with the word before   *)
(* the caret is Match[label]: 0 for the word itself, 1 when it begins with *)
(* it, 2 and 3 for the same in another case, from 4 on the place where it  *)
(* occurs, and Nowhere.                                                    *)
(***************************************************************************)
EXTENDS Ordering, SequencesExt

CONSTANTS
    Label,         \* the labels of items
    Match,         \* what they have to do with the word that is typed
    Nowhere,       \* the value of Match of labels that do not contain the word
    Dissimilar,    \* the labels should_filter() drops
    Identifier,    \* the labels that are made of identifier characters
    MaxEntries     \* autocomplete_window_max_entries

ASSUME LabelAssumption ==
    /\ Nowhere \in Nat
    /\ Match \in [Label -> 0 .. Nowhere]
    /\ Dissimilar \cup Identifier \subseteq Label
    /\ \A l \in Dissimilar : Match[l] = Nowhere
    /\ MaxEntries \in Nat

\* sort_autocomplete_symbols(), pass 2: by the word, then identifiers first.
BetterMatch(a, b) ==
    \/ Match[a] < Match[b]
    \/ Match[a] = Match[b] /\ a \in Identifier /\ b \notin Identifier

\* The items at the places S, in that order.
Arranged(items, S, R) ==
    LET order == InOrder(S, R) IN [k \in 1 .. Cardinality(S) |-> items[order[k]]]

\* g_ptr_array_sort_with_data(): items that are equally good stay in their order.
Ordered(items, Better(_, _)) ==
    Arranged(items, DOMAIN items,
             {p \in (DOMAIN items) \X (DOMAIN items) :
                 \/ Better(items[p[1]], items[p[2]])
                 \/ ~Better(items[p[2]], items[p[1]]) /\ p[1] < p[2]})

FirstPass(a, b) == a.sort < b.sort
SecondPass(a, b) ==
    \/ BetterMatch(a.label, b.label)
    \/ ~BetterMatch(b.label, a.label) /\ a.sort < b.sort

\* The first item of each label that is similar to the word, when there is one.
FilterItems(items, word) ==
    LET kept == {i \in DOMAIN items :
                    /\ ~(word /\ items[i].label \in Dissimilar)
                    /\ \A j \in 1 .. i - 1 : items[j].label # items[i].label}
    IN Arranged(items, kept, {p \in kept \X kept : p[1] < p[2]})

\* should_add(): not when nothing is left but what is typed already.
ShouldAdd(items, word) ==
    \/ Len(items) > 1
    \/ Len(items) = 1 /\ (~word \/ Match[items[1].label] # 0 \/ items[1].snippet)

\* Mutant: duplicates are dropped before the items are sorted.
ProcessResponseUnsorted(items, word) ==
    LET filtered == FilterItems(items, word)
        symbols == IF word THEN Ordered(filtered, SecondPass) ELSE Ordered(filtered, FirstPass)
    IN IF ShouldAdd(symbols, word) THEN SubSeq(symbols, 1, Min({MaxEntries + 1, Len(symbols)}))
       ELSE <<>>

\* process_response() and show_tags_list(), which lists one more than the maximum; a word
\* is typed or not.
ProcessResponse(items, word) ==
    LET filtered == FilterItems(Ordered(items, FirstPass), word)
        symbols == IF word THEN Ordered(filtered, SecondPass) ELSE Ordered(filtered, FirstPass)
    IN IF ShouldAdd(symbols, word) THEN SubSeq(symbols, 1, Min({MaxEntries + 1, Len(symbols)}))
       ELSE <<>>
=============================================================================
