\* The poller and a catch-up over two blocks of two chains, with a fault.
SPECIFICATION IndexerSpec
CONSTANTS
  Owner = {o1, o2}
  Recipient = {o1, o2}
  Holder = o1
  Window = 2
  MaxBlock = 2
  MaxChain = 1
  MaxFaults = 1
  AfterSkip = FALSE
  None = None
INVARIANTS
  IndexerTypeOK
  NothingPassedOver
  RecordedOnce
  OwnerFollowsChain
PROPERTY
  EventsGetIndexed
CHECK_DEADLOCK FALSE
