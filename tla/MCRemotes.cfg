SPECIFICATION Spec
CONSTANTS
  Windows = {w1, w2}
  Names = {n1}
  w1 = w1
  w2 = w2
  Offered <- MCOffered
  Keys = {k1, k2}
  MaxTurns = 3
  None = None
INVARIANTS OutcomeTold
PROPERTIES OthersKept UsedRemoteKept
CHECK_DEADLOCK FALSE
SYMMETRY KeySymmetry
