CONSTANTS
  App = {a1}
  a1 = a1
  Branch = {b1, b2}
  b1 = b1
  NoBranch = NoBranch
  Staff = {clerk, boss}
  clerk = clerk
  boss = boss
  Customer = Customer
  Role <- MCRole
  Home <- MCHome
  Match <- MCMatch
  Capacity <- MCCapacity
  SlotTimes <- MCSlotTimes
  Time = {1, 2}
  FirstDay = 8
  LastDay = 9
  MaxReschedules = 2
  MaxAttempt = 3
  MaxInFlight = 2
SPECIFICATION BankSpec
INVARIANTS ReschedulesCounted OfferAtOwnBranch
PROPERTIES NeverReoffered BranchIsolation DecisionFinal AcceptsWhatWasRead
CHECK_DEADLOCK FALSE
