SPECIFICATION RetentionSpec
CONSTANTS
  Conns = {a, b}
  User = User
  Nobody = Nobody
  Retention = 1
  Span = 1
  LastDay = 2
  UserDays = {0}
  MaxFaults = 1
SYMMETRY Symmetry
PROPERTIES
  KeptForRetention
  UserFilesSurvive
