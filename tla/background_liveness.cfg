\* Two requests that may or may not coalesce, and one Close, which works
\* whether the user answers or not; and what they promise, step by step.
SPECIFICATION FairSpec
CONSTANTS
  Call = {c1, c2}
  Handle = {h1, h2}
  App = {a1, a2}
  Close = {k1}
  Asker = {}
  None = None
  HandleReuse = "never"
  MayFail = TRUE
  PromptQueueCapacity = 1
  TombstoneCapacity = 2
  MaxClicks = 1
PROPERTIES
  EveryRequestReplied
  ClosedRequestReplied
  ClosedPromptGoesAway
  ImplementsConsent
