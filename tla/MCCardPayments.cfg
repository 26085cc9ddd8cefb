CONSTANTS
  card = card
  Cards = {card, other}
  Cycles = {c1, c2}
  CardOf <- OneCard
  Keys = {k1, k2}
  Transfers = {t1, t2}
  Balances = {0, 2}
  Amounts = {1, 2}
  Dates = {1, 2}
  MaxVersion = 2
  NoKey = NoKey
  NoIntent = NoIntent
  Horizons <- AllHorizons
SYMMETRY RowSymmetry
SPECIFICATION Spec
INVARIANTS
  TypeOK
  PlansFollowTheStatement
  PlansReconcileWithPayments
  NoCardPaymentIsOverlooked
PROPERTIES
  HistoryIsKept
CHECK_DEADLOCK FALSE
