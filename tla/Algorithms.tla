----------------------------- MODULE Algorithms -----------------------------
(***************************************************************************)
(* The algorithms of the plugin that are pure functions of their input, or *)
(* of it and what they computed before, each beside what it should         *)
(* compute.  A step picks an input and runs one of them.                   *)
(***************************************************************************)
EXTENDS TextEdits, SymbolTree, CompletionList

CONSTANTS
    Item,          \* parts of snippets: source, text, tab stop, and how they end
    MaxItems,      \* in a snippet
    Document,      \* a text
    Inserted,      \* what edits insert
    MaxEdits,      \* of a text
    SymbolLists,   \* the answers to documentSymbol
    Searches,      \* the sets of names a search in the tree finds
    CompletionItem,
    MaxCompletions, \* in an answer
    MaxRefreshes   \* of a tree

ASSUME ItemAssumption ==
    /\ CompletionItem \subseteq [label : Label, sort : Nat, snippet : BOOLEAN]
    /\ MaxCompletions \in Nat

\* Characters; only what is a snippet has tab stops.
ASSUME EditAssumption ==
    /\ Document \in Seq(STRING)
    /\ Inserted \subseteq Seq(STRING \ {"$"})
    /\ MaxEdits \in Nat
    /\ {"$", "0", "b"} \subseteq STRING

\* How deep in the braces of a part its k-th character leaves it.
Many(c, source, k) == Cardinality({i \in 2 .. k : source[i] = c})
Depth(source, k) == Many("{", source, k) - Many("}", source, k)

\* A part of a snippet: a character; a $ that begins nothing; $10; $name; ${...} to the brace
\* that closes it.  The text it leaves, whether it is the tab stop 0 or 1, and what must
\* not follow it.
Character(s, it) == Len(s) = 1 /\ s[1] # "$" /\ it.text = s /\ it.stop = "" /\ it.ends = ""
Dollar(s, it) ==
    /\ Len(s) = 2 /\ s[1] = "$" /\ s[2] \notin Digit \cup Alpha \cup {"{"}
    /\ it.text = s /\ it.stop = "" /\ it.ends = ""
Number(s, it) ==
    /\ Len(s) > 1 /\ s[1] = "$" /\ \A k \in 2 .. Len(s) : s[k] \in Digit
    /\ it.text = <<>> /\ it.ends = "digit"
    /\ it.stop = IF Len(s) = 2 /\ s[2] \in {"0", "1"} THEN s[2] ELSE ""
Name(s, it) ==
    /\ Len(s) > 1 /\ s[1] = "$" /\ s[2] \in Alpha /\ \A k \in 2 .. Len(s) : s[k] \in Digit \cup Alpha
    /\ it.text = <<>> /\ it.stop = "" /\ it.ends = "name"
Braces(s, it) ==
    /\ Len(s) > 2 /\ s[1] = "$" /\ s[2] = "{" /\ \A k \in 2 .. Len(s) : Depth(s, k) = 0 <=> k = Len(s)
    /\ it.text = <<>> /\ it.ends = ""
    /\ it.stop = IF s[3] \in {"0", "1"} /\ s[4] \notin Digit THEN s[3] ELSE ""

SnippetPart(it) ==
    /\ it.source \in Seq(STRING) /\ it.text \in Seq(STRING)
    /\ \/ Character(it.source, it)
       \/ Dollar(it.source, it)
       \/ Number(it.source, it)
       \/ Name(it.source, it)
       \/ Braces(it.source, it)

ASSUME SnippetAssumption ==
    /\ \A it \in Item : SnippetPart(it)
    /\ MaxItems \in Nat

ASSUME SymbolAssumption ==
    /\ SymbolLists \subseteq Seq([name : STRING, scope : Seq(STRING), line : Nat])
    /\ MaxRefreshes \in Nat

VARIABLE job   \* what was run last, on what, and its result

Idle == [kind |-> "idle"]

Init == job = Idle

-----------------------------------------------------------------------------
\* A server's snippet.  What follows a tab stop or a variable without braces neither
\* continues nor, as process_snippet() would take it for text, begins one.
Follows(ends, c) ==
    /\ ends = "digit" => c \notin Digit \cup {"$"}
    /\ ends = "name" => c \notin Digit \cup Alpha \cup {"$"}

WellFormed(items) ==
    \A k \in 1 .. Len(items) - 1 : Follows(items[k].ends, Head(items[k + 1].source))

Source(items) == FlattenSeq([k \in DOMAIN items |-> items[k].source])

RunSnippet ==
    /\ job = Idle
    /\ \E items \in BoundedSeq(Item, MaxItems) :
          /\ WellFormed(items)
          /\ job' = [kind |-> "snippet", items |-> items, result |-> ProcessSnippet(Source(items))]

-----------------------------------------------------------------------------
Edits == {e \in [from : 0 .. Len(Document), to : 0 .. Len(Document), new : Inserted] : e.from <= e.to}

\* LSP: the edits of one answer do not overlap; and they begin at different places.
Disjoint(es) ==
    \A i, j \in DOMAIN es : i # j => es[i].from # es[j].from /\ (es[i].from < es[j].from => es[i].to <= es[j].from)

EditLists == {es \in BoundedSeq(Edits, MaxEdits) : Disjoint(es)}

\* An item of the popup is chosen: its own edit and the additional ones, plain or a snippet.
RunCompletion ==
    /\ job = Idle
    /\ \E es \in EditLists, snippet \in BOOLEAN :
          /\ es # <<>>
          /\ LET main == IF snippet THEN [es EXCEPT ![1].new = @ \o <<"$", "0", "b">>] ELSE es
             IN job' = [kind |-> "completion", edits |-> main, snippet |-> snippet,
                        result |-> ApplyTextEdits([text |-> Document, carets |-> {0}], main, 1, snippet)]

\* A rename or a code action changes two files, in whatever state they are.
RunWorkspaceEdit ==
    /\ job = Idle
    /\ \E es, fs \in {l \in EditLists : Len(l) < 2}, k1, k2 \in {"open", "closed", "unreadable"},
          hasChanges \in BOOLEAN :
          LET files == <<[kind |-> k1, text |-> Document, changed |-> FALSE],
                         [kind |-> k2, text |-> Document, changed |-> FALSE]>>
              entries == <<[file |-> 1, edits |-> es], [file |-> 2, edits |-> fs]>>
              w == [hasChanges |-> hasChanges, changes |-> entries, documentChanges |-> entries]
          IN job' = [kind |-> "workspace", files |-> files, edits |-> <<es, fs>>,
                     result |-> ApplyWorkspaceEdit(files, w)]

-----------------------------------------------------------------------------
\* An answer to documentSymbol, when the tree may have rows; a search, which empties it
\* first (on_entry_tagfilter_changed()).  `shown` is the list the rows were last brought
\* up to date with: an answer in which nothing is found leaves them as they are.  A search
\* may be there before the first answer.
Refreshes == IF job.kind = "tree" THEN job.refreshes ELSE 0
Rows == IF job.kind = "tree" THEN job.rows ELSE <<>>
Shown == IF job.kind = "tree" THEN job.shown ELSE <<>>
Searched == IF job.kind = "tree" THEN {job.searched} ELSE Searches

Refreshed(syms, rows, shown, searched) ==
    LET list == SymbolList(syms, searched)
    IN [kind |-> "tree", refreshes |-> Refreshes + 1, syms |-> syms, searched |-> searched,
        list |-> list, shown |-> IF list = <<>> THEN shown ELSE list,
        before |-> rows, rows |-> RecreateSymbolList(rows, list)]

RunSymbols ==
    /\ job.kind \in {"idle", "tree"}
    /\ Refreshes < MaxRefreshes
    /\ \E syms \in SymbolLists, searched \in Searched : job' = Refreshed(syms, Rows, Shown, searched)

RunSearch ==
    /\ job.kind = "tree"
    /\ Refreshes < MaxRefreshes
    /\ \E searched \in Searches : job' = Refreshed(job.syms, <<>>, <<>>, searched)

-----------------------------------------------------------------------------
RunCompletionList ==
    /\ job = Idle
    /\ \E items \in BoundedSeq(CompletionItem, MaxCompletions), word \in BOOLEAN :
          job' = [kind |-> "list", items |-> items, word |-> word,
                  result |-> ProcessResponse(items, word)]

Next ==
    \/ RunSnippet
    \/ RunCompletion
    \/ RunWorkspaceEdit
    \/ RunSymbols
    \/ RunSearch
    \/ RunCompletionList

Spec == Init /\ [][Next]_job

-----------------------------------------------------------------------------
\* The text of items without tab stops and variables, and the carets at their first tab
\* stops, or at the final ones, or behind the text.
IsPlain(items, result) ==
    LET n == Len(items)
        text(k) == FlattenSeq([i \in 1 .. k |-> items[i].text])
        stops(which) == {Len(text(k - 1)) : k \in {i \in 1 .. n : items[i].stop = which}}
    IN /\ result.text = text(n)
       /\ result.carets = IF stops("1") # {} THEN stops("1")
                          ELSE IF stops("0") # {} THEN stops("0")
                          ELSE {Len(text(n))}

\* A snippet becomes plain: "just removes $foo, ${foo} and detects $0, $1, ${0...}, ${1...}".
SnippetPlain == job.kind = "snippet" => IsPlain(job.items, job.result)

\* What edits insert at place p; the character there unless an edit replaces it.
InsertedAt(es, p) ==
    LET at == {i \in DOMAIN es : es[i].from = p}
    IN IF at = {} THEN <<>> ELSE es[CHOOSE i \in at : TRUE].new

KeptAt(text, es, p) ==
    IF p < Len(text) /\ \A i \in DOMAIN es : p \notin es[i].from .. es[i].to - 1
    THEN <<text[p + 1]>> ELSE <<>>

\* What the text from each of its places on becomes when all its edits are made at once.
Replaced(text, es) ==
    LET from[p \in 0 .. Len(text) + 1] ==
            IF p > Len(text) THEN <<>>
            ELSE InsertedAt(es, p) \o KeptAt(text, es, p) \o from[p + 1]
    IN from

\* What the edits of a completion mean, of which the first ends with $0 and a character
\* when it is a snippet.
Meant(edits, snippet) ==
    IF snippet THEN [edits EXCEPT ![1].new = SubSeq(@, 1, Len(@) - 3) \o <<"b">>] ELSE edits

\* The text, and the caret where the main edit puts it, although edits before that one move
\* its place (unless it is the very first place of that edit, which another one ends at).
CompletionApplied(edits, snippet, result) ==
    LET plain == Meant(edits, snippet)
        offset == Len(plain[1].new) - (IF snippet THEN 1 ELSE 0)
        becomes == Replaced(Document, plain)
    IN /\ result.text = becomes[0]
       /\ offset > 0 \/ (\A i \in DOMAIN plain \ {1} : plain[i].to # plain[1].from) =>
             result.carets = {Len(becomes[0]) - Len(becomes[plain[1].from]) + offset}

\* A file that can be read; one that is open is not written.
FileApplied(was, edits, is) ==
    /\ is.text = IF was.kind = "unreadable" THEN was.text ELSE Replaced(was.text, edits)[0]
    /\ is.changed <=> was.kind = "open" /\ edits # <<>>

\* Edits of an answer refer to the text as it was: in whatever order they are listed, each
\* replaces what it meant, also in files that are not open.
EditsApplied ==
    /\ job.kind = "completion" => CompletionApplied(job.edits, job.snippet, job.result)
    /\ job.kind = "workspace" =>
          \A f \in 1 .. 2 : FileApplied(job.files[f], job.edits[f], job.result.files[f])

\* The list has the symbols that are searched for, and the rows of the tree are the symbols
\* of the list that was shown last.
TreeListed(syms, searched, list, shown, rows) ==
    /\ Range(list) = {sym \in Range(syms) : IsSearched(sym, searched)}
    /\ {rows[i].sym : i \in DOMAIN rows} = Range(shown)
    /\ Len(rows) = Len(shown)

\* A row is at the top, or below one of the scope of its symbol.
ParentRow(rows, i) == Max(Above(rows, i) \ {i})

RowsBelow(rows) ==
    \A i \in DOMAIN rows : rows[i].depth # 1 => ScopedName(rows[ParentRow(rows, i)].sym) = rows[i].sym.scope

\* However the tree was before, its rows are the symbols of the list, each once, below
\* rows of their scopes; when nothing is found in an answer, those of the last list in
\* which something was since the search began, which are out of date.
TreeShowsList ==
    job.kind = "tree" =>
        /\ TreeListed(job.syms, job.searched, job.list, job.shown, job.rows)
        /\ RowsBelow(job.rows)

\* A row is at the top only when the list has no symbol of its scope, and in a tree that was
\* made anew below the nearest before it.
TreeNearest ==
    job.kind = "tree" =>
        \A i \in DOMAIN job.rows :
            LET sym == job.rows[i].sym
                named == {p \in Range(job.shown) : ScopedName(p) = sym.scope}
            IN IF job.rows[i].depth = 1 THEN named = {}
               ELSE job.before = <<>> =>
                        job.rows[ParentRow(job.rows, i)].sym.line
                            = Max({p.line : p \in {q \in named : q.line <= sym.line}})

\* The popup lists no label twice, each with the entry the server ranks first, nothing that
\* is worse than what it leaves out, and in the end what the server ranks first.
ListRanked ==
    job.kind = "list" =>
        LET items == Range(job.items)
            shown == job.result
            wanted == {l \in {it.label : it \in items} : ~job.word \/ l \notin Dissimilar}
            worse(a, b) == job.word /\ BetterMatch(b, a)
        IN /\ \A k, m \in DOMAIN shown : k < m =>
                 /\ shown[k].label # shown[m].label
                 /\ ~worse(shown[k].label, shown[m].label)
                 /\ (job.word => ~BetterMatch(shown[k].label, shown[m].label)) => shown[k].sort <= shown[m].sort
           /\ \A k \in DOMAIN shown :
                 /\ shown[k].label \in wanted
                 /\ \A it \in items : it.label = shown[k].label => shown[k].sort <= it.sort
           /\ shown # <<>> =>
                 \A l \in wanted \ {shown[k].label : k \in DOMAIN shown} :
                     /\ Len(shown) = MaxEntries + 1
                     /\ \A k \in DOMAIN shown : ~worse(shown[k].label, l)
=============================================================================
