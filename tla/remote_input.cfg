\* One session handle that is used twice, two connections, and requests of
\* every kind.
SPECIFICATION FairSpec
CONSTANTS
  h1 = h1
  t1 = t1
  t2 = t2
  l1 = l1
  l2 = l2
  None = None
  Offset <- LeftOfOrigin
  Left = 1
  Space = 4
  Width = 3
  PlainKey = {"KEY_A"}
  SessionHandle = {h1}
  Thread = {t1, t2}
  Listener = {l1, l2}
  Request <- AllRequests
  EisRequest <- EisRequests
  Fails = TRUE
  MaxCalls = 5
INVARIANTS
  NothingFollowsExit
  ReleasedAtExit
  PressedTwiceOnlyByTaps
  NoStuckModifier
  CursorFollowsPointer
  ListenerFollowsSession
PROPERTIES
  InputDrains
CHECK_DEADLOCK FALSE
