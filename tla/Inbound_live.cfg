SPECIFICATION FairSpec
CONSTANTS
  x = x
  y = y
  n1 = n1
  n2 = n2
  n3 = n3
  Tx = {x, y}
  Value <- UnequalValues
  Note = {n1, n2, n3}
  TxOf <- MixedTxOf
  Usable = {n1, n2}
  Legacy = {}
  EOA = TRUE
  Intent = {i1}
  Handler = {h1}
  Task = {k1}
  Faults = {"duplicate"}
  None = None
INVARIANTS
  CreditIsBacked
PROPERTIES
  InboundEventuallyCredited
CHECK_DEADLOCK FALSE
