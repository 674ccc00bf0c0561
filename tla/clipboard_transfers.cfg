\* Two pastes for one slot, two requests for the queue: each limit is reached,
\* and a timed-out request is still queued when the next one comes.
SPECIFICATION Spec
CONSTANTS
  Mime = {text}
  MaxPending = 1
  QueueDepth = 2
  SignalDepth = 1
  Used = {"SetSelection", "Write", "WriteDone"}
  MaxCalls = 3
  MaxChanges = 0
  MaxTransfers = 2
  Failures = {"bus"}
INVARIANTS
  TransfersAccounted
  DoneMeansDone
PROPERTIES
  ClosedSessionWindsDown
CHECK_DEADLOCK FALSE
