SPECIFICATION FairSpec
CONSTANTS
  w1 = w1
  w2 = w2
  Request = {w1, w2}
  Amount <- TwoAmounts
  Day = 0
  Week = 1
  DailyLimit = 2
  WeeklyLimit = 2
  Horizon = 2
  Opening = 3
  Incoming = 1
  Faults = {"crash", "timeout", "status_error", "mint_error", "chain_error", "spend"}
  None = None
INVARIANTS
  LimitsHold
  BooksReconcile
  WithdrawnMeansPaid
PROPERTIES
  TerminalIsFinal
  WithdrawalDecided
CHECK_DEADLOCK FALSE
