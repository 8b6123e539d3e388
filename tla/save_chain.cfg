\* Servers with code actions, formatting or both on save, as gopls in the default lsp.conf.
SPECIFICATION FairSpec
CONSTANTS
  d = d
  organize = organize
  fix = fix
  Doc = {d}
  Title = {organize, fix}
  NULL = NULL
  Configs <- OnSave
  MaxSaves = 3
  MaxCalls = 2
INVARIANTS
  MarkedWhileSaving
PROPERTIES
  FinishedSaved
  SavesAreAsked
  ChainEnds
CHECK_DEADLOCK FALSE
