SPECIFICATION FairSpec
CONSTANTS
  r1 = r1
  r2 = r2
  a = a
  b = b
  Remotes = {r1, r2}
  Shared = r1
  Setups = {a, b}
  Providers = {"Smb", "OneDrive", "Teams"}
  None = None
INVARIANTS
  PendingIsRunning
PROPERTIES
  SavedWasTested
  BindingKept
  FoundRemoteKept
  SavedIsAnnounced
