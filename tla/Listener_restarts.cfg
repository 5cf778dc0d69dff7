\* Orderly restarts, with no wake whose record is lost.
SPECIFICATION Spec
CONSTANTS
  e1 = e1
  Errors <- Unreadable
  AckTimeout = 1
  Stale = 1
  MaxInbound = 1
  MaxLines = 1
  MaxLost = 0
  MaxErased = 3
  NoError = NoError
INVARIANTS ContinuationsCapped
