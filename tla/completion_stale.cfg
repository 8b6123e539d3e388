SPECIFICATION Spec
CONSTANTS
    d1 = d1
    d2 = d2
    r1 = r1
    r2 = r2
    Doc = {d1, d2}
    NULL = NULL
    Default = Default
    Identifier = {foo, bar}
    MaxText <- Texts
    MaxCalls = 2
    Bare = {2}
    Delta = TRUE
    MaxRequests = 3
    MaxOperations = 2
    Root = {r1, r2}
    ProjectBase = r2
    Syntax <- Nested
    Configurations <- CompletionOnly
INVARIANTS
    EditsFresh
CHECK_DEADLOCK FALSE
