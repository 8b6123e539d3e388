\* The error of an initialize request whose server was freed.
SPECIFICATION Spec
CONSTANTS
  c = c
  cpp = cpp
  NULL = NULL
  Ft = {c}
  Obj = {o1, o2, o3}
  HasCmd = {c}
  RefLang <- NoRef
  DeadRestarts = 2
  GiveUp = 3
  MaxInits = 2
INVARIANTS
  CallbackServerAlive
SYMMETRY Symmetry
CHECK_DEADLOCK FALSE
