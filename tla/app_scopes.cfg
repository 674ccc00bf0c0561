\* Two scopes of one application and its window, whose id is spelt otherwise:
\* a count can be wrong, a listing can cross a signal, a name can be matched.
SPECIFICATION Spec
CONSTANTS
  u1 = u1
  u2 = u2
  app = app
  alike = alike
  t1 = t1
  t2 = t2
  None = None
  Unit <- Units
  AppId <- Apps
  AppOf <- ScopeOf
  WindowId <- AlikeOnly
  TokenOf <- Tokens
  ChannelSize = 1
  MaxDisturbances = 2
INVARIANTS
  CountsAgree
  QuietViewIsCurrent
PROPERTIES
  AnnouncesChanges
  ViewBecomesCurrent
