\* Two calls on any of the interfaces, one background prompt, and a user who
\* answers, and who may press twice before the first press is handled.
SPECIFICATION FairSpec
CONSTANTS
  Asker = {d1, d2}
  ClientApp = {a1}
  Handle = {h1}
  None = None
  PromptQueueCapacity = 1
  TombstoneCapacity = 1
  MaxClicks = 2
INVARIANTS
  AnswersReachTheirAsker
  WhitelistedOnce
PROPERTIES
  EveryCallReturns
