SPECIFICATION FairSpec
CONSTANTS
  Request = {r1, r2}
  Wallet = {w1}
  TopUp = {t1}
  NoTopUp = NoTopUp
  NoWallet = NoWallet
  Deposits = 2
  Guests = {}
  Usdc <- UsdcOfAll
  MinGas = 2
  TargetGas = 2
  WalletLimit = 2
  GlobalLimit = 2
  Reuse = 1
  DayLength = 1
  Horizon = 1
  Faults = {"refused"}
CHECK_DEADLOCK FALSE
PROPERTY
  PutOffIsConcluded
