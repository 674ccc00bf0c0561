\* One session and four calls on it: created, asked for the clipboard,
\* started and closed, or a second Start, in every order of their steps.
\* When every call has returned, or waits for a stream that was refused, the
\* system is at rest; EveryCallReturns says that it never is before.
SPECIFICATION FairSpec
CONSTANTS
  Session = {s1}
  Call = {c1, c2, c3, c4}
  None = None
  Used = {"CreateCast", "CreateRemote", "CreateCapture", "SelectSources", "SelectDevices",
          "RequestClipboard", "CastStart", "RemoteStart", "ConnectToEIS", "Enable",
          "Disable", "Close"}
INVARIANTS
  ClipboardFollowsSession
  ThreadsAreOwned
  OrphansOnlyFromOverlap
  ListenerFollowsSignals
PROPERTIES
  ActivationsInOrder
  EveryCallReturns
CHECK_DEADLOCK FALSE
