CONSTANTS
  App = {a1}
  Branch = {b1}
  b1 = b1
  NoBranch = NoBranch
  NoSlot = NoSlot
  Request = {p1, p2}
  Doc = {1}
  Nom = {n1}
  NoNom = NoNom
  LocalProvider = TRUE
  Staff = {boss}
  Customer = Customer
  Role <- MCRole
  Home <- MCHome
  Match <- MCMatch
  Capacity <- MCCapacity
  SlotTimes <- MCSlotTimes
  Time = {1, 2}
  FirstDay = 7
  LastDay = 8
  MaxReschedules = 1
  MaxAttempt = 2
  MaxInFlight = 1
SPECIFICATION WorkflowSpec
SYMMETRY Symmetry
INVARIANT DecidedDossierComplete
PROPERTY ImplementsLifecycle
CHECK_DEADLOCK FALSE
