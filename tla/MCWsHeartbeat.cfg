\* A ping may wait behind another message, and that one behind a handler.
CONSTANTS
  Interval = 14
  MaxLag = 1
  MaxHandle = 2
  Backlog = 2
  ClientGap = 4
  MaxTime = 42
SPECIFICATION Spec
INVARIANTS
  SilentIsClosed
  PromptIsKept
