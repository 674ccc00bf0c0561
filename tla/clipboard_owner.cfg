\* Two calls, among them two selections of the session, those of other
\* clients, and a worker that runs or stalls.
SPECIFICATION PortalFairSpec
CONSTANTS
  Mime = {text}
  MaxPending = 1
  QueueDepth = 1
  SignalDepth = 1
  Used = {"SetSelection", "Read"}
  MaxCalls = 2
  MaxChanges = 1
  MaxTransfers = 0
  Failures = {"device"}
INVARIANTS
  OwnerAgrees
PROPERTIES
  EveryCallReturns
  CloseNeverWaits
  OwnerStateAnnounced
CHECK_DEADLOCK FALSE
