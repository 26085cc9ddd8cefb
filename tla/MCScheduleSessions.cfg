CONSTANTS
  k1 = k1
  k2 = k2
  t1 = t1
  Keys = {k1, k2}
  Transactions = {t1}
  Originals = {1, 2}
  Amounts = {1, 2}
  NoLink = NoLink
  NoAnswer = NoAnswer
  Sessions = {1, 2, 3, 4}
  Workloads <- AllWorkloads
SPECIFICATION SessionsSpec
INVARIANTS
  SessionTypeOK
  CommittedCollectionsReconcile
  AnswersAgree
PROPERTIES
  ImplementsSchedule
  HistoryIsKept
  EverySessionEnds
