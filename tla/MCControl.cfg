SPECIFICATION RepairFairSpec
CONSTANTS
  Manual = {m1, m2}
  Second = m2
  Worker = Worker
  None = None
ACTION_CONSTRAINT PauseOverRun
INVARIANTS
  RepairShielded
  RunExclusion
  NoAbandonedRunning
PROPERTIES
  RepairEnds
  RunningSettles
