\* A second listener is refused, or a former one ends late.
SPECIFICATION Spec
CONSTANTS
  e1 = e1
  Errors <- Unreadable
  AckTimeout = 1
  Stale = 1
  MaxInbound = 1
  MaxLines = 1
  MaxLost = 1
  MaxErased = 1
  NoError = NoError
PROPERTIES LiveStateStands
