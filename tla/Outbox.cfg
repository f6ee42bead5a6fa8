CONSTANTS
  Event = {e1}
  EventTries = 3
  DeliveryTries = 3
  MaxDeaths = 2
  MaxSlips = 2
SPECIFICATION FairOutboxSpec
INVARIANT ResentOnlyUntraced
PROPERTIES EventuallySettled EventuallyDelivered
CHECK_DEADLOCK FALSE
