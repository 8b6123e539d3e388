\* One filetype with a server of its own: crashes, restarts, plugin unload and
\* address reuse with three addresses.
SPECIFICATION Spec
CONSTANTS
  c = c
  cpp = cpp
  NULL = NULL
  Ft = {c}
  Obj = {o1, o2, o3}
  HasCmd = {c}
  RefLang <- NoRef
  DeadRestarts = 2
  GiveUp = 3
  MaxInits = 2
INVARIANTS
  SlotServersCurrent
  FreedServersForgotten
  ShutdownWillBeKilled
  NoStrayProcess
PROPERTIES
  GivenUpStaysDown
  CrashesAreCounted
  ImplementsServerSlots
SYMMETRY Symmetry
CHECK_DEADLOCK FALSE
