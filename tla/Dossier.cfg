CONSTANTS
  App = {a1, a2}
  a1 = a1
  a2 = a2
  Branch = {b1}
  NoBranch = NoBranch
  Request = {p1, p2}
  Doc = {1, 2}
  Nom = {n1}
  NoNom = NoNom
  LocalProvider = FALSE
CONSTRAINT SecondIsThin
SYMMETRY Symmetry
SPECIFICATION Spec
INVARIANTS ProgressEarned CodesUnique
PROPERTIES TrashedStays NoRegression
CHECK_DEADLOCK FALSE
