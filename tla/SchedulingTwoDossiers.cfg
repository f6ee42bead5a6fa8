CONSTANTS
  App = {a1, a2}
  a1 = a1
  Branch = {b1, b2}
  b1 = b1
  NoBranch = NoBranch
  Staff = {clerk, boss}
  clerk = clerk
  boss = boss
  Customer = Customer
  Role <- MCRole
  Home <- MCHome
  Match <- MCMatch
  Capacity <- MCCapacity
  SlotTimes <- MCSlotTimes
  Time = {1, 2}
  FirstDay = 7
  LastDay = 8
  MaxReschedules = 1
  MaxAttempt = 2
  MaxInFlight = 1
SPECIFICATION BankSpec
INVARIANTS SlotExclusive CapacityRespected StatusMatchesOffer
SYMMETRY Symmetry
CHECK_DEADLOCK FALSE
