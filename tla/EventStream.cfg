CONSTANTS
  Publishers = {p1, p2}
  Sessions = {c1}
  LedgerCapacity = 2
  MaxSubscribers = 1
  SubscriberQueue = 1
  Cursors = {0, 1, 3}
  MaxEvents = 4
SPECIFICATION FairSpec
INVARIANTS HubInv StreamInOrder NoSilentLoss
PROPERTIES PublishersReturn StreamsEnd
CHECK_DEADLOCK FALSE
