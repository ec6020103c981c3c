SPECIFICATION Spec
CONSTANTS
  alice = alice
  bob = bob
  a = a
  b = b
  Tab = {t1, t2}
  Person = {alice, bob}
  Agent = {a, b}
  Owner <- Owners
  First <- Claims1
  Legacy = {a}
  Visits = 2
  Posts = 2
  Upsets = 1
  None = None
SYMMETRY Symmetry
CONSTRAINT Together
CHECK_DEADLOCK FALSE
INVARIANTS
  ClaimsInv
  PageIsBacked
  RosterKeepsUp
  MovedAsShown
  WaitsForAnswer
