\* The same without faults and grants: one edit is enough.
SPECIFICATION FairSpec
CONSTANTS
  Config = {default, dark}
  Default = default
  EtcConfig = default
  App = {}
  None = None
  Torn = Torn
  Stale = Stale
  MaxEdits = 2
  MaxFaults = 0
PROPERTIES
  HotReloaded
