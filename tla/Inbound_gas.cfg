SPECIFICATION Spec
CONSTANTS
  x = x
  y = y
  n1 = n1
  n2 = n2
  n3 = n3
  Tx = {x, y}
  Value <- EqualValues
  Note = {n1}
  TxOf <- OneTxOf
  Usable = {n1}
  Legacy = {n1}
  EOA = TRUE
  Intent = {i1}
  Handler = {h1, h2}
  Task = {k1, k2}
  Faults = {"crash", "duplicate", "lost_reply", "hook_error", "circle_error", "window"}
  None = None
SYMMETRY Symmetry
INVARIANTS
  CreditOncePerPending
CHECK_DEADLOCK FALSE
