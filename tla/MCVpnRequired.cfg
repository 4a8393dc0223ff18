CONSTANTS
  mount1 = mount1
  mirror1 = mirror1
  None = None
  Online = {mount1}
  Offline = {mirror1}
  OpenConnect = TRUE
  Checks = {"Interface", "Route"}
  Releasing = {mount1, mirror1}
  MeteredAllowed = {}
SPECIFICATION Spec
PROPERTIES RequiredVpnKept
