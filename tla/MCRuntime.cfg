SPECIFICATION RuntimeSpec
CONSTANTS
  c1 = c1
  c2 = c2
  Conns = {c1, c2}
  None = None
  ConfirmMin = 1
  ConfirmMax = 1
  FreshFor = 1
  MaxEdits = 1
  MaxTasks = 1
  Statuses = {"Idle", "Error"}
  Ops = {"SyncNow", "Repair"}
  Editors = {c1}

INVARIANTS
  RoutedTracked
PROPERTIES
  FreshDecision
  RepairConfirmed
