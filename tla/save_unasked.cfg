\* The default configuration: nothing is performed on save.
SPECIFICATION Spec
CONSTANTS
  d = d
  organize = organize
  fix = fix
  Doc = {d}
  Title = {organize, fix}
  NULL = NULL
  Configs <- Default
  MaxSaves = 2
  MaxCalls = 1
PROPERTIES
  SavesAreAsked
CHECK_DEADLOCK FALSE
