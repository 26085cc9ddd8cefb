CONSTANTS
  Accounts = {1, 2, 3}
  LiabilityAccounts = {2}
  Keys = {"k1", "k2"}
  Amounts = {1}
  SnapshotBalances <- BalancesZeroTwo
  MinBalance <- SmallestBalance
  MaxBalance = 3
  MaxSequence = 6
  MaxOrder = 3
  Ids = {1, 2, 3}
  Workloads <- AllWorkloads
  NoSession = NoSession
  NoAnswer = NoAnswer
  Unreadable = Unreadable
SPECIFICATION SessionsSpec
INVARIANTS
  AnswersAgree
  ReadsAreCurrent
PROPERTIES
  ImplementsLedger
  EverySessionEnds
