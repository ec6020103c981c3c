SPECIFICATION Spec
CONSTANTS
  t1 = t1
  t2 = t2
  c1 = c1
  s1 = s1
  s2 = s2
  f1 = f1
  f2 = f2
  ann = ann
  bob = bob
  key1 = key1
  key2 = key2
  Agent = {ann, bob}
  Wallets = {ann, bob}
  Transfer = {t1, t2}
  Credit = {c1}
  Create = {s1, s2}
  Confirm = {f1, f2}
  Key = {key1, key2}
  Amounts = {0, 1, 2}
  Limit = 1
  Opening = 1
  None = None
SYMMETRY Symmetry
CONSTRAINT Apart
INVARIANTS
  SettlementsInv
  BooksReconcile
  MovedIsTraced
  AnsweredOkMeansRecorded
  SameKeySameSession
  CreditedOnce
PROPERTIES
  KeepsPromise
CHECK_DEADLOCK FALSE
