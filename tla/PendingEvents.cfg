CONSTANTS
  ann = ann
  bob = bob
  s1 = s1
  s2 = s2
  perk = perk
  conn = conn
  Nobody = Nobody
  Names = {ann, bob}
  Ids = {s1, s2}
  Accounts <- MCAccounts
  Log <- MCLog
  Native = {perk, conn}
  PerUserMax = 2
  GlobalMax = 2
  MaxFaults = 1
SYMMETRY Interchangeable
SPECIFICATION Spec
INVARIANT TypeOK
INVARIANT EveryReadingAccounted
INVARIANT QueueBounded
INVARIANT StoredAsNative
INVARIANT StragglerOnly
CHECK_DEADLOCK FALSE
