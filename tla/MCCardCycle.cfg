CONSTANTS
  card = card
  Cards = {card}
  LastMonth = 1
  Cycles <- MonthsOfCard
  CardOf <- OneCard
  Keys = {k1, k2}
  Transfers = {t1}
  Balances = {1}
  Amounts = {1, 2}
  Dates = {1}
  MaxVersion = 1
  NoKey = NoKey
  NoIntent = NoIntent
  Purchases = {p1, p2}
  Principals = {2, 3}
  MaxInstallments = 2
SYMMETRY RowSymmetry
SPECIFICATION CycleSpec
INVARIANTS
  CycleTypeOK
  PrincipalIsConserved
  AllocationsReconcile
PROPERTIES
  ImplementsInstallments
  SchedulesAreHistory
CHECK_DEADLOCK FALSE
