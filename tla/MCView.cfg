SPECIFICATION Spec
CONSTANTS
  c1 = c1
  Conns = {c1}
  Kinds = {"mount", "live", "preview", "legacy"}
  None = None
  MaxRuns = 2
  MaxPolls = 2
  MaxEvents = 2
INVARIANTS
  CountOfThisRun
  CountNotVoid
PROPERTIES MountsCurrent
