CONSTANTS
  Accounts = {bank, card}
  LiabilityAccounts = {card}
  Ids = {i1, i2, i3, i4}
  Keys = {k1, k2}
  Amounts = {1, 2}
  SnapshotBalances <- BalancesZeroOne
  MinBalance <- SmallestBalance
  MaxBalance = 3
  MaxSequence = 4
  MaxOrder = 2
SYMMETRY IdAndKeySymmetry
SPECIFICATION Spec
INVARIANTS
  LiabilityBalancesAreReadable
CHECK_DEADLOCK FALSE
