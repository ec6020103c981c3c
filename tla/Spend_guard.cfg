SPECIFICATION Spec
CONSTANTS
  Caller = {c1, c2}
  Amounts = {1, 2, 3}
  MaxAmount = 2
  DayLimit = 2
  Coin = 1
  Dollars = 5
  SingleCap <- CapOfBoth
  DailyLimit <- LimitOfBoth
  Funds <- FundsOfBoth
  LastDay = 1
  Faults = {"remote_error", "lost_reply", "restart"}
SYMMETRY Symmetry
INVARIANTS
  PaidWithinOverlap
  DeliveredMeansPaid
