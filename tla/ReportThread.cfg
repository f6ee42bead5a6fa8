CONSTANTS
  Tab = {phone, clerk, boss}
  phone = phone
  clerk = clerk
  boss = boss
  Portal <- MCPortal
  MaxMessages = 2
  MaxCalls = 1
  MaxReruns = 1
  MaxPosts = 2
CONSTRAINT Small
SPECIFICATION ChatSpec
INVARIANTS TurnsAlternate ShownOnce EnterRunsListed
PROPERTIES ShownStays
CHECK_DEADLOCK FALSE
