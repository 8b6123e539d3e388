\* A file saved under a name that lang_id_mappings match is not served by their server.
SPECIFICATION Spec
CONSTANTS
  d1 = d1
  d2 = d2
  a = a
  b = b
  Doc = {d1}
  Ft = {a, b}
  None = none
  NULL = NULL
  Incremental = {a}
  Mapped = b
  Name = {"x.c", "x.tmpl"}
  MappedName = {"x.tmpl"}
  NameOf <- MCNameOf
  FtOf <- MCFtOf
  StaleFt = TRUE
  MRU_SIZE = 1
  MaxText = 2
  MaxVersion <- Versions
INVARIANT
  MappingUsed
CHECK_DEADLOCK FALSE
