SPECIFICATION Spec
CONSTANTS
  Tasks = {t1}
  MaxEdits = 2
  MaxFaults = 3
INVARIANTS
  RecordMatchesUnits
  LoginAgrees
PROPERTIES
  ForeignKept
  InstallSettled
