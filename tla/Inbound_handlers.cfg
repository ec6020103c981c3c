SPECIFICATION BackingSpec
CONSTANTS
  x = x
  y = y
  n1 = n1
  n2 = n2
  n3 = n3
  Tx = {x, y}
  Value <- UnequalValues
  Note = {n1, n2, n3}
  TxOf <- MixedTxOf
  Usable = {n1, n2, n3}
  Legacy = {}
  EOA = FALSE
  Intent = {}
  Handler = {h1, h2}
  Task = {}
  Faults = {"crash", "duplicate", "lost_reply"}
  None = None
SYMMETRY NoteSymmetry
INVARIANTS
  SpendableIsSwept
  CreditOncePerTransaction
  ProcessedMeansCredited
PROPERTIES
  KeepsPromise
CHECK_DEADLOCK FALSE
