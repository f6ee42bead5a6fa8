CONSTANTS
  App = {a1}
  Branch = {b1}
  NoBranch = NoBranch
  Request = {p1, p2}
  Doc = {1}
  Nom = {n1, n2}
  NoNom = NoNom
  LocalProvider = FALSE
SPECIFICATION Spec
PROPERTY FrozenAfterLock
CHECK_DEADLOCK FALSE
