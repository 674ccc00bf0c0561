\* One session that is to persist with its application.
SPECIFICATION Spec
CONSTANTS
  Session = {s1}
  Call = {c1, c2, c3}
  None = None
  Used = {"CreateCast", "CreateRemote", "CreateCapture", "SelectSources", "SelectDevices",
          "RequestClipboard", "CastStart", "RemoteStart", "ConnectToEIS", "Enable",
          "Disable", "Close"}
PROPERTIES
  ApplicationSessionStaysAlive
CHECK_DEADLOCK FALSE
