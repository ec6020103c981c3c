SPECIFICATION Spec
CONSTANTS
  x = x
  y = y
  n1 = n1
  n2 = n2
  n3 = n3
  Tx = {x, y}
  Value <- EqualValues
  Note = {n1, n2}
  TxOf <- TwoNotesTxOf
  Usable = {n1, n2}
  Legacy = {}
  EOA = TRUE
  Intent = {i1}
  Handler = {h1, h2}
  Task = {k1}
  Faults = {}
  None = None
SYMMETRY Symmetry
INVARIANTS
  CreditOncePerTransaction
CHECK_DEADLOCK FALSE
