SPECIFICATION Spec
CONSTANTS
  Agent = {a, b}
  Common = {}
  Email <- Owners
  EmailOf <- OwnerOf
  Wallet = {w1, w2, w3}
  Stock = {w1, w2}
  Legacy = {w1}
  Request = {r1, r2}
  None = None
  Faults = {"crash", "torn_write", "remote_error", "lost_reply"}
SYMMETRY Symmetry
ACTION_CONSTRAINT Together
CHECK_DEADLOCK FALSE
INVARIANTS
  WalletsExclusive
  BindingBacksAccount
PROPERTIES
  WalletStable
