\* Three requests of two applications, one Close, fresh handles: every order
\* of the tasks, the dialog and the router, failures included.
SPECIFICATION Spec
CONSTANTS
  Call = {c1, c2, c3}
  Handle = {h1, h2, h3}
  App = {a1, a2}
  Close = {k1}
  Asker = {}
  None = None
  HandleReuse = "never"
  MayFail = TRUE
  PromptQueueCapacity = 1
  TombstoneCapacity = 2
  MaxClicks = 1
SYMMETRY Interchangeable
INVARIANTS
  TypeOK
  RegistryConsistent
  NoRequestStranded
  CancelHasCause
  CoalescedShareAnswer
