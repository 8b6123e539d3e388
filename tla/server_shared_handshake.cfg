\* C++ is handed the server of C while that one is still being initialized.
SPECIFICATION Spec
CONSTANTS
  c = c
  cpp = cpp
  NULL = NULL
  Ft = {c, cpp}
  Obj = {o1, o2, o3, o4}
  HasCmd = {c}
  RefLang <- CppUsesC
  DeadRestarts = 2
  GiveUp = 3
  MaxInits = 1
PROPERTIES
  HandshakeFirst
SYMMETRY Symmetry
CHECK_DEADLOCK FALSE
