SPECIFICATION Spec
CONSTANTS
    Item <- MCItem
    MaxItems = 3
    Document <- MCDocument
    Inserted <- MCInserted
    MaxEdits = 3
    SymbolLists <- MCSymbolLists
    Searches = {{"A", "B", "x", "y"}, {"x"}, {"A"}}
    CompletionItem <- MCCompletionItem
    MaxCompletions = 3
    MaxRefreshes = 2
    Label = {"foo", "foobar", "FOO", "xfoo", "f-o", "zzz"}
    Match <- MCMatch
    Nowhere = 5
    Dissimilar = {"zzz"}
    Identifier = {"foo", "foobar", "FOO", "xfoo", "zzz"}
    MaxEntries = 1
INVARIANTS
    SnippetPlain
    EditsApplied
    TreeShowsList
    TreeNearest
    ListRanked
CHECK_DEADLOCK FALSE
