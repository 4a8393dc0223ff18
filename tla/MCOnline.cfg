CONSTANTS
  t1 = t1
  Tasks = {t1}
  MaxJobs = 2
  MaxEvents = 2
SPECIFICATION FairSpec
INVARIANTS CleanSuspend CleanupAlone PreloadReachable
PROPERTIES GateReopens
