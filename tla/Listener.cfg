\* One role's listener with restarts, kills, refusals and failed writes.
SPECIFICATION FairSpec
CONSTANTS
  e1 = e1
  Errors <- Unreadable
  AckTimeout = 1
  Stale = 1
  MaxInbound = 1
  MaxLines = 1
  MaxLost = 1
  MaxErased = 1
  NoError = NoError
INVARIANTS TypeOK OneOutstanding AcknowledgedWasIngested SessionIsSole
           ContinuationsAccounted
PROPERTIES InboundArrives HeartbeatComes PublishingComesBack DeliverySpec
