CONSTANTS
  card = card
  c1 = c1
  k1 = k1
  k2 = k2
  t1 = t1
  Cards = {card}
  Cycles = {c1}
  CardOf <- OneCard
  Keys = {k1, k2}
  Transfers = {t1}
  Balances = {1, 2}
  Amounts = {1, 2}
  Dates = {1}
  MaxVersion = 2
  NoKey = NoKey
  NoIntent = NoIntent
  Sessions = {1, 2, 3, 4}
  Workloads <- AllWorkloads
SPECIFICATION SessionsSpec
INVARIANTS
  RefusalsAreAboutTheStatement
