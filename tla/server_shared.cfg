\* C++ uses the server of C, as in the default lsp.conf ("use=C").
SPECIFICATION FairSpec
CONSTANTS
  c = c
  cpp = cpp
  NULL = NULL
  Ft = {c, cpp}
  Obj = {o1, o2, o3, o4}
  HasCmd = {c}
  RefLang <- CppUsesC
  DeadRestarts = 2
  GiveUp = 3
  MaxInits = 1
INVARIANTS
  ShutdownHasProcess
PROPERTIES
  UnloadReturns
CHECK_DEADLOCK FALSE
