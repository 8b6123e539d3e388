# Formal models of the Geany LSP plugin

TLA+ modules, TLC configurations and TLAPS proofs for the LSP client plugin of Geany
(`src/lsp/`). They are about what is hard to test in this program: everything runs in one
GLib main loop, so nothing runs in parallel, but every request to a language server ends
in a callback that finds the world changed. Documents were edited, renamed, closed;
servers crashed, were restarted, freed, and their addresses used again.

## The system

| Component | State it keeps | Operations | Correct when |
|---|---|---|---|
| Server lifecycle, `lsp-server.c` | `lsp_servers` (a slot per filetype), `servers_in_shutdown`, per server the process, `startup_shutdown`, `restarts`, `referenced`; timers of 300, 2000, 4000 ms | start, handshake, crash and restart, stop, kill, free, unload | slots hold usable servers; no process is lost; nothing is freed twice; a crash loop ends; unloading returns |
| Server of a document, `lsp-server.c` | cached filetype of each document | `lsp_server_get()` and relatives | the server configured for a file serves it |
| Calls, `lsp-rpc.c` and bundled `jsonrpc-client.c`, `jsonrpc-output-stream.c` | table of unanswered calls, output queue, read loop, `failed`, `in_shutdown`, `client_table` | call, notify, answer, panic, close | each call is completed once; none waits for ever on a broken connection; no callback after the close |
| Synchronization, `lsp-sync.c` and handlers of `lsp-main.c` | `open_docs` and `mru_docs` of each server, version of each document | didOpen, didChange, didSave, didClose, eviction at `MRU_SIZE` | the server has the text the editor has; the protocol is kept |
| Saving, `lsp-main.c`, `lsp-command.c`, `lsp-format.c` | the mark `CODE_ACTIONS_PERFORMED` of a document | save, request and perform code actions, format, save again | the chain ends, in a saved document without a mark |
| Semantic tokens, `lsp-semtokens.c` | cached tokens and result id of each document, and what it is drawn with | request, full or delta answer, clear | what is drawn belongs to the text shown |
| Document symbols, `lsp-symbols.c`, `lsp-symbol-tree.c` | cached symbols and tree of each document | request, answer, refresh of the sidebar, update of rows | the sidebar shows the symbols of the current document, each once, in its place |
| Autocompletion, `lsp-autocomplete.c` | request numbers, list displayed | request, answer, discard, select, sort and filter | no older list comes back; an edit fits the text it is applied to; the best items are listed |
| Diagnostics, `lsp-diagnostics.c` | table of diagnostics per server | notification, redraw, clear | the current document shows what is known of it |
| Code lens, `lsp-code-lens.c` | annotations of each document, one list of commands | request, answer, run | drawn lenses can be run |
| Highlighting, `lsp-highlight.c` | what is highlighted, a delayed request, a position to ignore | caret moves, timer, answer | it catches up with the caret |
| Hover, signatures, `lsp-hover.c`, `lsp-signature.c`, `lsp-popup.c` | one popup window, the dwell timer | dwell, type, answer, hide | a popup stays with its document |
| Progress, `lsp-progress.c` | operations per server, one counter and bar | create, begin, end, free | the bar stops |
| Workspace folders, `lsp-workspace-folders.c` | folders per server | add, remove, restart | a server knows the folders of its documents |
| Selection, `lsp-selection-range.c` | one list of ranges | expand, shrink, answer, clear | shrinking goes back the way of expanding |
| Text edits, snippets, `lsp-utils.c` | none | apply, parse | equal to their reference definition |
| Navigation (`lsp-goto*.c`, `lsp-extension.c`), rename dialog | GTK state | one request, one answer | user interface, not modelled |
| Configuration, log, json-glib, input stream of jsonrpc-glib | | | conversion and input/output, not modelled |
| Child processes, `spawn/` | | | only the end of a process, in `LspServer` |

Interaction: a Geany signal calls a handler of `lsp-main.c`; the handler asks for the
server of the document (`lsp_server_get()`, which may start one), opens or changes the
document there (`lsp-sync.c`), and sends requests (`lsp_rpc_call()`), whose callbacks are
delivered by `call_cb()`. A child watch reports the end of a process to
`process_stopped()`. Timers and idle callbacks hold plain pointers to servers and
documents. The shared state is the server object (freed by `lsp-server.c`, referenced by
calls, timers and other slots) and the data of a `GeanyDocument` (which Geany uses again).
`PROJECT.json` lists the hazards that follow from it, at the lines where they bite.

## Modules

An action is one callback or signal handler with every call it makes: nothing else runs in
between. A handler of `LspSync` and `SaveChain` works on a copy `M` of the tables and
`Commit()`s it, so that the order of the calls in the code is the nesting of the operators.

* **`LspServer`** is the life of the servers. `Obj` is a set of addresses that `free_server()`
  returns and `lsp_server_init()` hands out again while timers (`kill_timers`,
  `free_timers`) and unanswered calls (`pending`; `orphans` once the client is closed)
  still hold them. `GetRunning`, `GetLaunch` and `GetDangling` are the ways through
  `server_get_or_start_for_ft()`; `ProcessStoppedNormally` and `ProcessCrashed` those of
  `process_stopped()`; `StopAndInitAll` and `TerminateAll` the two callers of
  `lsp_server_stop_all()`; `FreeServer` what every `free_server()` leaves behind. A step that
  reads freed memory sets `fault` and ends the behaviour: what follows is undefined.
  **`ServerSlots`** is the abstract specification of what the rest of the plugin sees of it: a slot
  per filetype that is down, starting, ready or given up, with a count of restarts.
  `LspServer` implements it (`Abstract == INSTANCE ServerSlots WITH ...`, `slotState`) as long as no
  filetype uses the server of another.
* **`RpcCalls`** is what the plugin relies on when it makes a call: an abstract specification
  of five actions: a call is made, is answered, or fails; the connection breaks, or the plugin closes it. `told` are the
  calls whose callback ran: after the close only those that start and stop the server, which always hear of their
  call. **`JsonrpcClient`** is the bundled client with the layer of `lsp-rpc.c`
  over it: table of invocations, output queue, read loop, panic and close, against a peer
  that answers late, twice, wrongly or not at all. It is shown to implement `RpcCalls`
  (`Abstract == INSTANCE RpcCalls WITH ...`). A callback runs with the completion of its
  task; the code runs it in a later iteration of the main loop, with nothing of the task
  left to change. A call that is rejected gets a number of its own here, which no message
  carries. Calls and notifications are numbered together in the order they are made (`Made`).
* **`LspSync`** is document synchronization, with the choice of a document's server and the
  handlers of `lsp-main.c` that lead to it. `view` is what the process knows of the
  documents, `confused` that it was told something out of turn. Texts are only told apart;
  an incremental change that is applied to the wrong text garbles it. Servers just start,
  run, crash; a server that is given up counts as one that never gets ready. Files are
  identified by document and name, so two documents are two files.
* **`SaveChain`** is what a save sets off when code actions or formatting on save are
  configured: the chain of callbacks from `on_document_before_save()` to
  `on_save_finish()`. One server serves all documents; documents are independent of each
  other. `config` says what is configured: the initial states have every configuration of
  `Configs`, and no step changes it. `lost` is a history variable: the marked documents whose callback found no server or
  did not come.

* **`Features`** composes what is shown of documents. **`Documents`** is what the features
  share: `doc` (open, text, timer of `on_update_idle()`), `current`, `server` (running, and
  the documents open at it; `unfreed` while a crashed one waits to be freed) and `calls`, those
  that are unanswered, each with the document and the text it was made for. An answer is
  about the text the server had when it was asked; where the protocol allows null instead, the server may send
  it (`result` is "none"), and `symbols.none`, `lens.none` and `painted.none` remember it. Each feature has a module that EXTENDS
  `Documents` with a variable of its own and defines its part of each handler:
  **`SemTokens`**, **`Symbols`**, **`CodeLens`**, **`Highlight`**, **`Completion`**, **`Diagnostics`**,
  **`Popups`** (hover, signatures, the window they share), **`Progress`**, **`WorkspaceFolders`**,
  **`SelectionRange`**. `Features` has an action per handler of `lsp-main.c` (`OpenDocument`,
  `Activate`, `Edit`, `UpdateIdle`, `CloseDocument`, `ServerInitialized`, `ServerCrashed`,
  `FreeServer`, ...) that does the part of every feature, in one step, as the handler does.
  A text is a number that no other text of the address has, also not one of a file that
  used it before. `enabled`, chosen at the start, is what the configuration switches on.
* **`Algorithms`** runs the pure functions on their inputs, each beside what it should compute.
  **`Snippets`** is the automaton of `lsp_utils_process_snippet()`; **`TextEdits`** applies the edits
  of an answer to an open file (with the caret) or to one on disk; **`SymbolTree`** is the update of
  the rows of the sidebar from a list of symbols; **`CompletionList`** sorts, filters and cuts
  off what the popup lists. They are recursive functions, one step of the code's loop at a time, except
  where the code calls a stable sort of GLib: **`Ordering`** has what that returns. `ListSort` is the merge sort of
  `g_list_sort()` as it is, because what it is given to compare symbols with is no order. A step of
  `Algorithms` picks an input; the tree is updated again from the rows it has. `shown` is the list these were made from.

`MCLspServer`, `MCJsonrpcClient`, `MCLspSync`, `MCSaveChain`, `MCFeatures` and `MCAlgorithms` give
values to constants.
Operators with a comment that begins with "Mutant:" change one definition the way a
plausible bug would. They are used by nothing; with one of them in place of the definition
it stands before, TLC finds the property that `PROJECT.json` names violated.

## Runs

| Run | Asks | Bounds |
|---|---|---|
| `server_lifecycle` | Do crashes, restarts, shutdowns and timers in every order lose a process, free one twice, lose count? Do the slots implement `ServerSlots`? | one filetype with a server of its own; three addresses, so they are used again; servers initialized twice; given up at the second restart |
| `server_shared` | Does unloading return when no server answers or exits? | C++ uses the server of C; four addresses; servers initialized once |
| `server_shared_handshake` | violated: is a server used only after its handshake? | as above |
| `server_callback_freed` | violated: do the calls of a server end before it is freed? | as `server_lifecycle` |
| `rpc_client` | Is each call completed once, whatever crosses, and in the end on a broken connection? Does the client implement `RpcCalls`? | 2 calls, 1 notification, 2 messages of the server; 580,754 states |
| `sync_documents` | Do servers have the text of the editor, with no document open where it is not served? | 2 documents, 2 servers (incremental and full), 1 place per server |
| `sync_mapping` | violated: is a mapped file served by the mapped server? | 1 document |
| `save_chain` | Does every chain end, with its edits saved and the mark removed? | 1 document address, 2 titles, 3 saves, 2 calls of a kind; code actions, formatting or both |
| `save_unasked` | violated, in the default configuration: are only saves made that were asked for? | 1 document |
| `features` | Is what each feature shows that of the document and the text shown, whatever was edited, closed, crashed or overtaken meanwhile? | 2 document addresses with 3 and 2 texts, 2 unanswered calls, 3 completion requests, 2 operations, 2 folders; 1,417,292 states |
| `completion_stale` | violated: is a completion only applied to the text it was made for? | as `features`, completion only |
| `algorithms` | Do snippets, text edits, the symbol tree and the list of completions come out as they should? | snippets of up to 3 parts out of 11; up to 3 edits of 3 characters; 2 updates of a tree of up to 6 rows, lists without symbols included; up to 3 completion items; 51,717 states |

Why the bounds are enough. Servers interact through their slot, through an address used
again and through a reference: a server in its slot, one that stops or crashed and one at an
address that was free meet in `server_lifecycle`, and `server_shared` has the reference. Two calls cross each other, the queue then holds one message behind the one that is
written, and a second answer to the same call fits into the messages of the server. The order of two notifications is not in the run, which has one: a notification and two calls
are numbered alike, and `ReachedInOrder` is for any number of either. One
place per server makes every second open an eviction; one document has every name and
filetype and three version numbers, the other only takes its place. A chain of a document
crosses the next save of the same document, twice. `CHECK_DEADLOCK FALSE` is given
throughout: with the bounds used up, the system may stop.

`sync_documents` sets `StaleFt` to FALSE: behaviours in which a document keeps the filetype of
an earlier name are left to `sync_mapping`. With them, a document also stays open at the
server it no longer belongs to.

`features` switches the features on one at a time (`OneAtATime`): a feature reads nothing of
another but what `Documents` has, and calls of different methods are answered in any order, so
what one feature does is not seen by the others. Two calls are two requests of the same kind
that cross, for one document or for two; a third text makes the first answer stale while a
second request is under way, and is what an address used again starts with. `FewTexts` takes
texts away from features whose state grows with positions: `highlight` and `popup` go through two
texts of one document, `selection` through one of each with two ranges that nest, where
what matters is the order of keys, answers and tabs. Answers to one method are given in order
except for completion (`Reordered`), where the code numbers its requests because of it.

`algorithms` takes every part a parser treats on its own (text, `$0`, `$1`, longer numbers, names,
braces and nested braces, a lone `$`) before and after every other; edits that touch, nest
in the caret's word or are listed in any order; classes of the same and of different names with
members that appear, vanish and move; items that match as a whole, at the beginning, in another
case, inside, or not. The inputs are those the code is made for. Inputs for which it departs from
its reference are left out and listed under "Divergences".

What the runs show of the code, beyond the properties that hold, is in `PROJECT.json` under
`findings`: a referenced server that is used before its handshake, a server that is freed
before its initialize call fails, a mapping that a new file escapes, a save on a switch of
tabs that nobody asked for, and a completion applied to a text it was not made for.

## Fairness

* `LspServer`: the main loop dispatches timers that are due and the watch of a child that
  ended (GLib does), and a process that got SIGTERM ends. No server is assumed to answer or to
  exit by itself.
* `JsonrpcClient`: idle callbacks run, and streams that are ready are read and written. The
  peer owes nothing.
* `SaveChain`: every call is answered, fails or is forgotten with its server. `CallsSettled`
  and `NoneWaitsOnTheDead` are what this rests on for a server that is gone; one that lives
  but never answers is out of the plugin's hands. A new server starts when no call of the
  old one is left: idle callbacks are faster than a handshake.
* `LspSync`, `Features` and `Algorithms` make no liveness claim. Properties of `Features` that say
  what is shown in the end speak of the states where nothing is under way (`Settled`): no answer,
  no timer, and the server runs. That such states come is up to the server and to the user.

## Proofs

What tlapm checks holds for every value of the constants that satisfies the assumptions named in
the modules, so for any number of documents, servers, calls and texts. Each component has
its theorems in a module beside it: `LspServerProofs`, `JsonrpcClientProofs`, `LspSyncProofs`,
`SaveChainProofs`, `AlgorithmsProofs`; `Features` has two, `FeaturesProofs` and, over it, `SelectionProofs`.
`SequenceLemmas` has what they need of sequences of the community modules.

* **`LspServer`**. `IInv` is the conjunction of `TypeOK`, `SlotServersCurrent`,
  `FreedServersForgotten` and `ShutdownHasProcess`. None of them is inductive alone: that a new
  server gets an address nobody holds needs that freed servers are forgotten, which needs that
  the lists hold allocated servers only, which needs that a server leaves
  `servers_in_shutdown` exactly when its process is gone. The proof has a step per action.
  `ShutdownKilled` adds that no timer is lost to an address used again. For any references
  between filetypes so far; `NoStray`, `CrashedOutOfReach`, `CrashesCounted` and
  `GivenUpStays` assume `\A ft \in Ft : RefLang[ft] = NULL`, which is needed: a reference is
  followed without looking whether its server is current or given up. Under the same condition
  `Implements` proves that `LspServer` implements `ServerSlots`; it needs that a server with
  a process has restarts left (`LiveInv`), so that the count of a crash does not overflow.
* **`JsonrpcClient`**. `IInv` adds to `TypeOK`, `EachCallOnce` and `NoneLeftBehind` that
  calls in a `PanicData` belong to a broken connection, that answered calls are completed,
  and that numbers not yet used are in no table. `Implements` proves the refinement: every
  step is an `Invoke`, an `Answer`, a `Fail`, a `Break`, a `Close` of `RpcCalls`, or a stutter. That includes
  whose callback runs: an answer or a failure that comes after the close tells the callers of startup and shutdown calls and no other.
  `ReachedInOrder` follows from `InOrder`, which says of what reached the server, what is written
  and what is queued, one behind the other, that messages, calls and notifications alike, are in order and that none is later than
  the last one made.
* **`LspSync`**. A handler is a composition of operators on the tables `M`, so the proof goes by operator:
  what `DidClose`, `MakeRoom`, `DidOpen`, `DidChange`, `DidSave` and the handlers made of them keep of two predicates
  on tables. `Sound(M)` has the types, and that `open_docs` and `mru_docs` of a server have the same documents,
  each once, and at most `MRU_SIZE`. `Honest(M)` says that a server was told nothing out of turn, that it
  is the one that serves each document open there and knows its text and version, and that it knows of
  nothing else. Between closing a document under its old name and opening it under the new one
  `Honest` fails for that document: `HonestBut(M, d)` is what holds meanwhile. `BooksAgree`
  and `TypeCorrect` hold without condition. `ServersMirror`, `NoServerConfused` and `OpenAtItsServer` assume
  `StaleFt = FALSE`, as the run `sync_documents` has it: when a document keeps the filetype of an earlier
  name (the run `sync_mapping`), it stays open at a server that does not serve it any more.
  `on_server_initialized()` opens documents in a loop, `DidOpenAll`, a recursive function: that it exists
  and that each round keeps `Honest` are proved by the least number of rounds for which they would fail
  (`LeastNat` of `SequenceLemmas`), which needs no induction rule.
* **`SaveChain`**. `Link` says that one call of a chain leaves other documents alone, `GoesOn` that the mark stays,
  `Ends` that what loses its mark is saved; each callback is composed of such links. The invariant
  is `TypeOK` and, where something is performed on save, `MarkedWhileSaving`; `ChainSaves` and `NoSaveUnasked`
  are about the step and follow from it. `ChainSaves` holds in every configuration; `ChainGoesOn` and
  `NoSaveUnasked` assume that every configuration has code actions or formatting: without them a document
  keeps its mark, which the run `save_unasked` shows.
* **`Features`: documents and folders**. `FoldersTold`, `BarStops` and `DiagnosticsDrawn`, for whichever features are
  switched on together. `IInv` has a conjunct for the documents (those open at the server are
  open in the editor, and the current one is open there while it runs) and one for each of the
  three features: an open document has a root and the folder of the project is never in the
  table, or closing the last of its documents would take it back (this is where
  `RootAssumption` is used: the folder of the project is a root or none); the
  call of `lsp_progress_free_all()` takes at least what the freed server had begun off the counter,
  which stops at 0; nothing is drawn while diagnostics are off. The handlers of the other features leave these variables
  alone (`Quiet`).
* **`Features`: answers**. What is shown depends on calls made earlier and answered in between, so the
  invariants are about the calls under way. `LastCalls(calls, m, d)` is the last call of a method for a
  document, as a set that is empty when none waits (`PendingIsLast`). Answers to one method come in order, so the
  call that leaves it empty was the last one made (`LastAnswered`). `CallsInv` has the types of calls, that a method is
  called only when its feature is on, and that no call outlives its server. `QueriesInv`: the last call for a whole text that
  is open at the server has that text, or the timer of `on_update_idle()` runs, which makes another. Each feature then has an
  invariant of one form: what is shown is of the present text, or a call is under way, or the timer runs
  (`SymbolsKnown`, `LensKnown`, `HighlightKnown`, `TokensKnown`). A server refuses a call only
  for a text that changed, and then the call was not the last, or the timer runs. A null answer ends the waiting and brings nothing:
  the invariants, as the properties, leave out documents whose last answer was null. `TokensKnown` adds that a
  difference that waits is to the result that is cached and is answered before any other call of the document (`Firsts`),
  unless a difference for the document did not fit (`astray`). `PaintedInv` has the same form for what the document is drawn with; it rests on
  `TokensInv` for a difference that comes last (`PaintedWith`), and `AskedForAll` shows that what is asked for when nothing is cached is
  all tokens, so that a drop of the cache leaves either no call under way or one whose answer does not need it. For completion, whose answers overtake each other, `Numbered`
  relates the request numbers: no list is of a request later than the last one that was answered, and what was dismissed is what is
  discarded; `ListMoves` compares the list before and after each step. `PopupInv` says that the popup that came up over an editor with focus is over the current document.
  `DocAssumption` (NULL is no document) is used throughout.
* **`Features`: the selection** (`SelectionProofs`). `ShrinksBack` speaks of lists that answers made which were asked for
  earlier and from other selections. `SelectionInv` says, as long as the user did not go elsewhere while the server was
  asked (`mixed`): the calls under way are for the current document, at places inside what is selected and inside every range of
  the list. The list is `Grown`: of any two ranges one is in the other, with a range everything larger than it is there, and
  `find_selection_range()` finds the next one up and the next one down, although answers to keys pressed in a
  row add the same ranges again. The history is a `Trail`: shrinking goes through it from its end, down to its first
  selection or to one below which the list has nothing (a list that was made anew knows the larger ranges only). `ListGrows`
  is the lemma the rest hangs on: an answer that climbs from a range of the list keeps it `Grown`. `SyntaxAssumption` is used for
  that: the ranges of a text are finitely many, and two of them nest or are apart. Without it "next one up" has no meaning.

* **`Algorithms`: the list of completions** (`AlgorithmsProofs`). What is sorted is given by places: `InOrder(S, R)` lists S
  so that each element comes after as many as R has before it. `InOrderSorts` proves that, for an order R, this is each
  element once and in order, by counting (an injection of a finite set into one of its size is onto), without induction. Both
  passes compare items in a way that leaves some equal; `StableOrder` makes an order of it by place, as a stable sort does.
  The filter keeps the first item of each label, which after the first pass is the one the server ranks first.
  `CompletionsRanked` holds for any items, labels, comparison with the word and maximum.
* **`Algorithms`: recursion**. The other three properties are about recursive functions on lists of any length. That
  such a function exists, and has at each place what its step makes of the place before, is proved once: `Induction` takes a set of
  numbers instead of a predicate and rests on the least number outside of it; `Iterated` builds
  the function for a step that stays in one set, `Levels` for one that leads from a set of each round to that of the next. Each proof
  then names the sets: what holds after k steps.
* **`Algorithms`: snippets**. `PartsRead` says in which state of the automaton the k-th part of a snippet leaves it: what was written, at
  which places the carets would be, and, behind a number or a name without braces, that the next character decides whether it
  was one. Inside braces the automaton is as deep as `Depth`, which is where `SnippetAssumption` is used: what a part is (character, number,
  name, braces to the one that closes them). `SnippetsPlain` holds for any set of such parts and any number of them.
* **`Algorithms`: edits**. The code makes the edits of an answer one at a time, from the end of the text backwards.
  `Half(text, es, p)` is the text with the edits at place p and behind it made; `HalfEdited` proves that the next edit leads from there to the
  text with its own place for p, since it does not reach into what was changed, and `EditsMade` that all of them lead to the text with every edit made. That order is found by `InOrder` again, of edits
  that begin at different places, so `EditsCorrect` does not depend on the order they are listed in. Where the caret ends follows
  from how far the text behind it has grown.
* **`Algorithms`: the tree of symbols**. `TreeInv` says that every row is one below a row of its scope, or at the top (`Tree`).
  The first pass keeps some rows of the old tree: `Updating` says that these embed into the old rows with all that is above them (`Embeds`), and that
  whatever row is gone has nothing below it that stays (`Gone`), which is what the early return for rows deeper than a
  removed one is for. Symbols move from the list to the rows: together they stay what they were. The second pass enters a row right below its parent (`RowInserted`).
  Sorting moves rows with what is below them: `RowBefore` compares the rows around two rows
  where they part, and `RowsOrder` proves that this is an order of all rows, in which
  parents stay next to their children. `TreeShown` holds after any number of updates and searches, for any symbols, also none and symbols with
  the same name, scope and line; it needs nothing of how symbols are compared, of which of several equal names is found, or of lines.

The assumptions of `Algorithms` say what its constants are: `EditAssumption` that what edits insert has no `$`, so
that only a snippet has tab stops, `SymbolAssumption` that an answer is a list of symbols. `{"$", "0", "b"} \subseteq STRING` is there
because no prover knows it; it is true of every value of the constants.

A first attempt at `HighlightsCatchUp` failed at the step of `UserSelects`, and rightly so: the action inserted the text of
an item and left the highlight and the selection as they were, while the change of the text reaches `on_editor_notify()` like any other.
The action has that now.

Model-checked only:

* liveness (`UnloadReturns`, `CallsSettled`, `NoneWaitsOnTheDead`, `ChainEnds`) and ENABLED, which are out of
  the prover's reach;
* `TreeNearest` of `Algorithms`: that a symbol whose parent is in the list is below it, and below the nearest of several, rests on
  parents being entered before their members. The sort is to see to that, but `compare_symbol_parent_first()` is no order (a
  symbol may come before another by its line and after it for a parent of the same name), so that it does holds only for lists of
  symbols as servers send them. The run has such lists; what exactly they have in common is not stated anywhere in
  the code, and a theorem would have to assume it.

Every other property of a run that is to pass is a theorem. `CrashedServerOutOfReach` is a theorem (`CrashedOutOfReach`) and in no run:
it follows from `SlotServersCurrent`, `FreedServersForgotten` and `NoStrayProcess`, which `server_lifecycle` checks.
`TypeOK` of `LspServer`, of `SaveChain`, and `TypeOK` and `NoneLeftBehind` of `JsonrpcClient` are proved
and in no run: they are conjuncts of the invariants that the other properties follow from. `TypeOK` of `Features`
is neither: the bounds of texts are in it, and the invariants of the features have what types they need.

## Not modelled

* Configuration files, `workspace/configuration`, menus, dialogs, the log, json-glib, framing of
  messages: conversion or user interface, without state that callbacks could find changed.
* Navigation: a request, an answer, a list or a jump. `window/showDocument` opens a file.
* The rename dialog, `lsp_highlight_rename()`, workspace symbols, the context menu of the symbol
  tree, the jump to the next diagnostic, `diagnostics_disable_for`, `completionItem/resolve`, the style a
  token is drawn with.
* `is_lsp_valid_for_doc()` as far as it depends on the project and on marker files: constant
  within a behaviour. A server that stops being valid for an open document would keep it open.
* Servers that have custom commands only, for which `lsp_command_send_code_action_request()`
  answers inline; formatting of a selection.
* Two timers of `on_update_idle()` for one address (closed and used again within 300 ms): they
  count as one.

### Divergences

Seen while modelling, outside of what the properties cover, with no run of their own. Each is a
place to look at when the code changes.

* `lsp-utils.c`: a `$` right after `$1` or `$name` is copied as text (`$1$0`). Edits that begin at one
  place are left out (`Disjoint`): two that insert there leave their texts the other way round than the protocol says, and one that
  replaces, applied after one that inserts, takes away what was inserted. Additional edits of a snippet
  completion are processed as snippets, too.
* `lsp-symbol-tree.c`: with three or more symbols of one name, the search for the nearest
  parent starts at the root of a balanced tree and may miss it. The lists of the run are ones on which
  `compare_symbol_parent_first()` is an order. When a search finds nothing in a new answer, line 758 returns and line 1044 tests
  only whether there are symbols at all: the rows found in an older answer stay shown (`shown` of `Algorithms`).
* `lsp-symbols.c:189`, `lsp-code-lens.c:123`: a null answer, which the protocol allows, is dropped: the symbols and the lenses of the
  text before stay, and the lenses cannot be run any more. `SymbolsShown` and `LensRunnable` leave out documents whose last answer was null.
* `lsp-autocomplete.c`: `max_entries` plus one items are listed; items of which only some have a
  sortText are in no order.
* `lsp-selection-range.c`: `goto_cb()` goes through a list that a moved caret may have made NULL; the
  list is the same for all documents.
* `lsp-semtokens.c`: two deltas asked for the same result are applied to each other; edits without `data`, as deletions may be, are
  skipped (lines 369 to 388) while the new result id is taken (402); a delta that comes after the cache was dropped is dropped, too. These
  documents are `astray` in the model, and the properties leave them out until an answer brings all tokens and no other
  is under way. After a null answer the cache goes (348 to 353, 441 to 445) and the old drawing stays: `TokensDrawn` leaves that out. `keyword_hash` is one
  global, so keywords may keep the colours of another document; `painted` is what `process_tokens()` draws without that.
* `lsp-code-lens.c`: the timer of one document empties the commands of another.
* `lsp-diagnostics.c`: after the last document was hidden and closed, the label keeps its number.
* `lsp-rename.c`: one global for the progress dialog; a second rename leaks the first, and a
  server that is shut down never calls `rename_cb()`.
* `lsp-command.c:265`: an action that must be resolved remembers the current document, not the
  one that is saved. `lsp-main.c:403`: a switch of tabs in the middle of a chain takes its mark away.
* `lsp-server.c:608`: an initialize answer after a stop clears `startup_shutdown`.
  `jsonrpc-client.c:1123`: when a write fails and only notifications wait, they are dropped and the
  client goes on.

## Plan

Done: the modules above, and proofs of every safety property that a run expects to hold, except `TreeNearest`. Next, when the code
changes: which lists of symbols `compare_symbol_parent_first()` sorts, as a condition on the
list, and `TreeNearest` under it; `lsp-goto-panel.c` and `configuration` if they come to keep state that callbacks find changed.
