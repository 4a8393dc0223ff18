SPECIFICATION Spec
CONSTANTS
  switch = switch
  editor = editor
  import = import
  reorder = reorder
  Processes = {switch, editor, import, reorder}
  Role <- MCRole
  Ids = {1, 2, 3}
  Paths <- MCPaths
  Backends <- MCBackends
  DefaultConf <- MCDefaultConf
  Lines <- MCLines
  Drafts <- MCDrafts
  MaxOps = 3
  None = None
  Absent = Absent
  Garbage = Garbage
INVARIANTS TreesApart ImportFaithful
PROPERTIES EditsKept
CHECK_DEADLOCK FALSE
