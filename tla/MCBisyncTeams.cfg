SPECIFICATION Spec
CONSTANTS
  Manual = {m1}
  Scheduled = {s1}
  Targets = {t1, t2}
  Provider = "Teams"
  Unlocked = {"Tracked", "Repair"}
  MaxFaults = 1
  NoRun = NoRun
  NoTarget = NoTarget
  Unbound = Unbound
SYMMETRY Symmetry
VIEW Seen
INVARIANTS
  EngineExclusion
  ResyncOnlyAfterPreview
  InitializedIsVerified
  OrdinaryRunHasBaseline
  StaleRunningOnlyByFault
