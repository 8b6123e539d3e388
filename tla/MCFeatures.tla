---------------------------- MODULE MCFeatures ----------------------------
\* Small instances of Features: the features are switched on one at a time, as they share
\* no state but that of the documents.  One document has a text more than the other.
EXTENDS Features

CONSTANTS d1, d2, r1, r2

Texts == d1 :> 3 @@ d2 :> 2

OneAtATime == {{"tokens"}, {"symbols"}, {"lens"}, {"highlight"}, {"completion"},
               {"diagnostics"}, {"popup"}, {"progress"}, {"folders"},
               {"selection"}}

\* Bound: fewer texts where many are of no interest.
FewTexts ==
    /\ enabled \cap {"popup", "highlight"} # {} => doc[d1].text <= 2 /\ doc[d2].text = 1
    /\ "selection" \in enabled => doc[d1].text = 1 /\ doc[d2].text = 1

\* A line and the end of it.
Nested == {<<0, 2>>, <<1, 2>>}

CompletionOnly == {{"completion"}}
=============================================================================
