CONSTANTS
  card = card
  p1 = p1
  p2 = p2
  k1 = k1
  k2 = k2
  Cards = {card}
  LastMonth = 1
  Keys = {k1, k2}
  Purchases = {p1, p2}
  Principals = {2}
  MaxInstallments = 2
  Amounts = {1, 2}
  NoSummary = NoSummary
  Sessions = {1, 2, 3, 4}
  Workloads <- AllWorkloads
SPECIFICATION Spec
INVARIANTS
  SummariesAreConsistent
