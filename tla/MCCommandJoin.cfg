SPECIFICATION ProcessFairSpec
CONSTANTS
  Waiters = {w1, w2}
  MaxAttempts = 2
  MaxCommands = 2
INVARIANTS
  JoinedMeansGone
PROPERTIES
  JoinKept
  WaitEnds
