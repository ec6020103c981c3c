SPECIFICATION Spec
CONSTANTS
  Base = 2
  Decimals = 3
  Fee = 3
  NoText = NoText
  Tab = {t1, t2}
  Address = {x, y}
  Scanners = {t1}
  Pasters = {t2}
  Payers = {t2}
  Opening = 17
  Typed = {8}
  Works = 4
  None = None
SYMMETRY Symmetry
CONSTRAINT Together
CHECK_DEADLOCK FALSE
INVARIANTS
  FundingInv
  CameraOffWhenUnwatched
  NoDuplicateAddresses
  PendingHasCall
  SettledHasMoved
  AmountsSurvive
