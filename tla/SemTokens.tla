----------------------------- MODULE SemTokens -----------------------------
(***************************************************************************)
(* Semantic tokens: src/lsp/src/lsp-semtokens.c.  A document has a cache   *)
(* with the tokens the server sent last and the id it gave them, and it is *)
(* drawn with tokens, which stay when the cache goes.  When the server     *)
(* supports it, only the difference to the cached result is asked for.     *)
(***************************************************************************)
EXTENDS Documents

CONSTANT Delta   \* semantic_tokens_supports_delta and not semantic_tokens_force_full

VARIABLES
    tokens,   \* the CachedData of each document
    painted,  \* of: the text of the tokens each document is drawn with, or NULL; none: the
              \* documents whose last answer had neither tokens nor edits (history)
    astray    \* the documents with a difference that need not fit their tokens (history)

tokensVars == <<tokens, painted, astray>>

\* Tokens are told apart by the text they are of; edits that are applied to other
\* tokens than those they were made for, or not all applied, give tokens of no text.
NoText == 0
TokensOK ==
    /\ tokens \in [Doc -> {NULL} \cup [of : Text \cup {NoText}, result_id : Text]]
    /\ painted \in [of : [Doc -> Text \cup {NoText, NULL}], none : SUBSET Doc]
    /\ astray \subseteq Doc

TokensInit ==
    /\ tokens = [d \in Doc |-> NULL]
    /\ painted = [of |-> [d \in Doc |-> NULL], none |-> {}]
    /\ astray = {}

\* lsp_semtokens_init(), lsp_semtokens_destroy() for the documents ds: they stay drawn.
TokensDestroyed(ds) == [d \in Doc |-> IF d \in ds THEN NULL ELSE tokens[d]]

\* lsp_semtokens_clear()
TokensCleared(d) ==
    /\ tokens' = TokensDestroyed({d})
    /\ painted' = [painted EXCEPT !.of[d] = NULL, !.none = @ \ {d}]

\* lsp_semtokens_send_request(); arg: the result the difference is asked to, or
\* NULL; t: what is cached.
TokensCall(t, d) ==
    Asks("tokens", <<Call("tokens", d,
        IF Delta /\ t[d] # NULL THEN t[d].result_id ELSE NULL)>>)

\* process_full_result()
FullResult(c) == [of |-> c.text, result_id |-> c.text]

\* process_delta_result(): edits that lead from the result c.arg to the tokens of c.text;
\* "partial": some have no data, as deletions need not, and are skipped.
DeltaResult(c, result) ==
    IF tokens[c.doc] = NULL THEN NULL
    ELSE [of |-> IF result = "delta" /\ tokens[c.doc].of = c.arg THEN c.text ELSE NoText,
          result_id |-> c.text]

\* Mutant: a result without tokens leaves the cache as it is.
TokensResultKept(c, result) ==
    IF result = "none" THEN tokens[c.doc]
    ELSE IF result = "full" THEN FullResult(c) ELSE DeltaResult(c, result)

\* A result with neither tokens nor edits empties the cache.
TokensResult(c, result) ==
    IF result = "none" THEN NULL
    ELSE IF result = "full" THEN FullResult(c) ELSE DeltaResult(c, result)

\* Mutant: the tokens that edits give are drawn with the next full result.
PaintedFull(c, result) ==
    IF result = "none" THEN [painted EXCEPT !.none = @ \cup {c.doc}]
    ELSE [painted EXCEPT !.none = @ \ {c.doc},
                         !.of[c.doc] = IF result = "full" THEN c.text ELSE @]

\* process_tokens() draws what is cached now; edits for tokens that are not cached any
\* more, and neither tokens nor edits, leave the document drawn as it was.
Painted(c, result) ==
    IF result = "none" THEN [painted EXCEPT !.none = @ \cup {c.doc}]
    ELSE [painted EXCEPT !.none = @ \ {c.doc},
                         !.of[c.doc] = IF result # "full" /\ tokens[c.doc] = NULL THEN @
                                       ELSE TokensResult(c, result).of]

\* The documents astray after this result: one that does not rest on what is cached, and
\* that nothing follows, brings a document back.
AstrayAfter(c, result) ==
    IF result = "partial" THEN astray \cup {c.doc}
    ELSE IF result # "delta" /\ Awaited("tokens", c.doc) = 1 THEN astray \ {c.doc}
    ELSE astray

\* semtokens_cb(): whatever the call asked for, the server may answer with all tokens.
TokensAnswered(c, result) ==
    /\ result \in IF c.arg = NULL THEN {"full", "none"} ELSE {"full", "delta", "partial", "none"}
    /\ IF doc[c.doc].open /\ server.running
       THEN /\ tokens' = [tokens EXCEPT ![c.doc] = TokensResult(c, result)]
            /\ painted' = Painted(c, result)
            /\ astray' = AstrayAfter(c, result)
       ELSE UNCHANGED tokensVars

\* The calls cs for a difference.
Differences(cs) == {c \in ToSet(cs) : c.method = "tokens" /\ c.arg # NULL}

\* The calls ts are made: those for a difference race with the calls before them.
TokensRaced(ts) ==
    astray' = astray \cup {c.doc : c \in {t \in Differences(ts) : Pending("tokens", t.doc)}}

\* The tokens of ds go while differences to them are under way.
TokensLost(ds) == astray' = astray \cup {c.doc : c \in {t \in Differences(calls) : t.doc \in ds}}

-----------------------------------------------------------------------------
\* The result the next difference is asked to is the one the cached tokens are of, and
\* once nothing is under way for a document these are the tokens of the text it has,
\* whatever it was closed for, edited or crashed meanwhile: unless two differences to the
\* same result were asked for at once, or edits had no data.
TokensFresh ==
    server.running =>
        \A d \in {d \in Doc \ astray : tokens[d] # NULL} :
            /\ tokens[d].of = tokens[d].result_id
            /\ Settled("tokens", d) => tokens[d].of = doc[d].text

\* Once nothing is under way for the current document, it is drawn with the tokens of its
\* text: unless the last answer brought nothing, which leaves it drawn as it was, or the
\* difference it brought did not fit: it was asked for before an older one came, the free
\* of a crashed server took the tokens away meanwhile, or edits had no data.
TokensDrawn ==
    \A d \in Doc \ astray :
        /\ d = current
        /\ "tokens" \in enabled
        /\ Settled("tokens", d)
        /\ d \notin painted.none
        => painted.of[d] = doc[d].text
=============================================================================
