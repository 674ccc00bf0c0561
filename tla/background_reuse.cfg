\* A caller that may use a handle again at any time, its request on it still
\* open or not, and two Closes.  A request can be stranded here (see the
\* README), so the system may stop.
SPECIFICATION Spec
CONSTANTS
  Call = {c1, c2}
  Handle = {h1, h2}
  App = {a1, a2}
  Close = {k1, k2}
  Asker = {}
  None = None
  HandleReuse = "any"
  MayFail = FALSE
  PromptQueueCapacity = 1
  TombstoneCapacity = 2
  MaxClicks = 1
SYMMETRY Interchangeable
INVARIANTS
  NothingLeftOver
CHECK_DEADLOCK FALSE
