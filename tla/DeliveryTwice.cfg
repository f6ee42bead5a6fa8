CONSTANTS
  Event = {e1}
  EventTries = 2
  DeliveryTries = 2
  MaxDeaths = 1
  MaxSlips = 1
SPECIFICATION OutboxSpec
INVARIANT SentOnce
CHECK_DEADLOCK FALSE
