\* Two settings that differ, an application granted both permissions, which it may
\* have from before, two steps of the user and two crashes or file operations
\* that fail.
SPECIFICATION FairSpec
CONSTANTS
  Config = {default, dark}
  Default = default
  EtcConfig = dark
  App = {a}
  None = None
  Torn = Torn
  Stale = Stale
  MaxEdits = 2
  MaxFaults = 2
INVARIANTS
  HeardIsCurrent
  GrantsSurvive
PROPERTIES
  ReloadCatchesUp
