SPECIFICATION Spec
CONSTANTS
  Request = {r1, r2}
  Wallet = {w1, w2}
  TopUp = {t1, t2}
  NoTopUp = NoTopUp
  NoWallet = NoWallet
  Deposits = 1
  Guests = {w2}
  Usdc <- UsdcOfAll
  MinGas = 2
  TargetGas = 2
  WalletLimit = 2
  GlobalLimit = 3
  Reuse = 1
  DayLength = 1
  Horizon = 1
  Faults = {"lost_reply", "restart"}
SYMMETRY Symmetry
CONSTRAINT Together
CHECK_DEADLOCK FALSE
INVARIANTS
  GasTopUpInv
  TopUpsWithinLimits
  SentIsKnown
  IntentsHonest
