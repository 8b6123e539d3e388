\* Two documents that contend for the one place a server has; a syncs incrementally, b
\* with full texts.  Everything the editor, the servers and the timers may do, in any
\* order; a document never keeps a stale filetype.
SPECIFICATION Spec
CONSTANTS
  d1 = d1
  d2 = d2
  a = a
  b = b
  Doc = {d1, d2}
  Ft = {a, b}
  None = none
  NULL = NULL
  Incremental = {a}
  Mapped = b
  Name = {"x.c", "x.tmpl"}
  MappedName = {"x.tmpl"}
  NameOf <- MCNameOf
  FtOf <- MCFtOf
  StaleFt = FALSE
  MRU_SIZE = 1
  MaxText = 2
  MaxVersion <- Versions
INVARIANTS
  TypeOK
  Mirrored
  ProtocolKept
  OpenBounded
  OpenWhereServed
CHECK_DEADLOCK FALSE
