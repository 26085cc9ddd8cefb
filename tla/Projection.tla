----------------------------- MODULE Projection -----------------------------
(***************************************************************************)
(* The baseline projection and what is safe to spend from an account:      *)
(* internal/projection/service.go assembles the events of the rows that    *)
(* one read has loaded, internal/domain/projection applies them in order.  *)
(*                                                                         *)
(* The rows are a record t of tables.  Ids of rows and accounts are        *)
(* numbers, because the code orders by them.  A flow is exact when its     *)
(* amount and its date are.  The card's own rows are CardProjection's:     *)
(* here are its scheduled flows and the cycles that have a payment issue.  *)
(***************************************************************************)
EXTENDS Recurrence, Functions

CONSTANTS
  MaxBalance,   \* math.MaxInt64
  NoPolicy      \* the owner has no projection_policies row

ASSUME BalanceAssumption == MaxBalance \in Nat

-----------------------------------------------------------------------------
(* Rows *)

AccountRow == [type : {"cash", "bank", "credit_card", "loan"}, status : {"active", "archived"}, balance : Int]

FlowRow == [id : Nat, date : Dates, amount : Nat \ {0}, direction : {"inflow", "outflow"},
            status : {"scheduled", "cancelled"}, exact : BOOLEAN, eligible : BOOLEAN]

CardFlowRow == [id : Nat, date : Dates, amount : Nat \ {0}]

ReceivableRow == [id : Nat, date : Dates \cup {NoDate}, original : Nat \ {0}, collected : Nat, exact : BOOLEAN,
                  certainty : {"confirmed", "expected", "uncertain"},
                  status : {"pending", "partially_collected", "collected", "cancelled"}]

Configuration == [reserve : Nat, horizon : Nat \ {0}, inflows : {"confirmed_only", "include_expected"},
                  mode : {"all_active_liquid", "explicit"}, ids : SUBSET Nat]

PolicyRow == [configuration : Configuration, version : Nat \ {0}, created : Nat, updated : Nat]

\* The rows of a table have ids of their own.
IsTable(rows) == IsFiniteSet(rows) /\ \A x, y \in rows : x.id = y.id => x = y

\* Every column has its type, as foreign keys and CHECKs have it too.
IsTables(t) ==
  /\ t = [accounts |-> t.accounts, policy |-> t.policy, obligations |-> t.obligations, flows |-> t.flows,
           cardFlows |-> t.cardFlows, issues |-> t.issues, receivables |-> t.receivables]
  /\ IsFiniteSet(DOMAIN t.accounts) /\ DOMAIN t.accounts \subseteq Nat
  /\ t.accounts \in [DOMAIN t.accounts -> AccountRow]
  /\ IsTable(t.obligations) /\ \A o \in t.obligations : IsObligation(o)
  /\ IsTable(t.flows) /\ t.flows \subseteq FlowRow
  /\ IsTable(t.cardFlows) /\ t.cardFlows \subseteq CardFlowRow
  /\ IsTable(t.receivables) /\ t.receivables \subseteq ReceivableRow
  /\ \A r \in t.receivables : IF r.status = "collected" THEN r.collected = r.original ELSE r.collected < r.original
  /\ t.policy # NoPolicy =>
       /\ t.policy \in PolicyRow
       /\ t.policy.created <= t.policy.updated
       /\ t.policy.configuration.ids \subseteq DOMAIN t.accounts

-----------------------------------------------------------------------------
(* Accounts *)

Fits(balance) == -MaxBalance - 1 <= balance /\ balance <= MaxBalance

IsLiquid(account) == account.type \in {"cash", "bank"}

\* ValidateSelectedAccount
Eligible(t, a) == t.accounts[a].status = "active" /\ IsLiquid(t.accounts[a])

\* loadProjectionAccounts
SelectedAccounts(t) ==
  IF t.policy.configuration.mode = "explicit" THEN t.policy.configuration.ids
  ELSE {a \in DOMAIN t.accounts : Eligible(t, a)}

\* The sum of the accounts up to one of them, in the order of their ids.
OpeningUpTo(t, last) ==
  SumFunction([a \in {x \in SelectedAccounts(t) : x <= last} |-> t.accounts[a].balance])

OpeningBalance(t) == SumFunction([a \in SelectedAccounts(t) |-> t.accounts[a].balance])

-----------------------------------------------------------------------------
(* Events of the rows, and the rows that are left out *)

Event(source, row, date, amount, direction, basis, exact, certainty) ==
  [source |-> source, row |-> row, date |-> date, amount |-> amount, direction |-> direction,
   basis |-> basis, exact |-> exact, certainty |-> certainty]

IncludesExpected(t) == t.policy.configuration.inflows = "include_expected"

withinFutureRange(date, asOf, end) == asOf < date /\ date <= end

Expansion(t, o, asOf) == occurrenceDates(o, asOf + 1, asOf + t.policy.configuration.horizon)

ObligationEvents(t, asOf) ==
  UNION {{Event("obligation", o.id, d, o.amount, "outflow", "mandatory_obligation_outflow", o.exact, "none") :
            d \in Expansion(t, o, asOf).dates} : o \in t.obligations}

manualInflowIncluded(t, f) == f.eligible /\ (IncludesExpected(t) \/ f.exact)

manualInclusionBasis(t, f) ==
  IF f.direction = "outflow" THEN "mandatory_manual_outflow"
  ELSE IF IncludesExpected(t) /\ ~ f.exact THEN "expected_manual_inflow_allowed_by_policy"
  ELSE "eligible_manual_inflow"

flowExclusionReasons(t, f) ==
  IF f.status = "cancelled" THEN {"cancelled"}
  ELSE IF f.direction = "inflow" /\ ~ manualInflowIncluded(t, f) THEN {"policy_excluded_inflow"}
  ELSE {}

FlowsInRange(t, asOf) ==
  {f \in t.flows : withinFutureRange(f.date, asOf, asOf + t.policy.configuration.horizon)}

FlowEvents(t, asOf) ==
  {Event("manual", f.id, f.date, f.amount, f.direction, manualInclusionBasis(t, f), f.exact, "none") :
     f \in {g \in FlowsInRange(t, asOf) : flowExclusionReasons(t, g) = {}}}

CardEvents(t, asOf) ==
  {Event("card", f.id, f.date, f.amount, "outflow", "authoritative_card_payment_intent", TRUE, "none") :
     f \in {g \in t.cardFlows : withinFutureRange(g.date, asOf, asOf + t.policy.configuration.horizon)}}

receivableExclusionReasons(t, r) ==
  IF r.status \in {"cancelled", "collected"} THEN {r.status}
  ELSE {x \in {"undated_receivable"} : r.date = NoDate}
         \cup {x \in {"uncertain_receivable"} : r.certainty = "uncertain"}
         \cup {x \in {"policy_excluded_inflow"} : r.certainty = "expected" /\ ~ IncludesExpected(t)}

\* Mutant: what was collected already is expected again.
OriginalAmount(r) == IF r.original > r.collected THEN r.original ELSE 0

OutstandingAmount(r) == r.original - r.collected

receivableInclusionBasis(r) ==
  IF r.certainty = "confirmed" THEN "confirmed_receivable" ELSE "expected_receivable_allowed_by_policy"

ReceivableEvents(t, asOf) ==
  {Event("receivable", r.id, r.date, OutstandingAmount(r), "inflow", receivableInclusionBasis(r), r.exact, r.certainty) :
     r \in {q \in t.receivables : /\ receivableExclusionReasons(t, q) = {}
                                  /\ withinFutureRange(q.date, asOf, asOf + t.policy.configuration.horizon)
                                  /\ OutstandingAmount(q) # 0}}

Events(t, asOf) ==
  ObligationEvents(t, asOf) \cup FlowEvents(t, asOf) \cup CardEvents(t, asOf) \cup ReceivableEvents(t, asOf)

Exclusion(source, row, reasons) == [source |-> source, row |-> row, reasons |-> reasons]

Exclusions(t, asOf) ==
  {x \in {Exclusion("manual", f.id, flowExclusionReasons(t, f)) : f \in FlowsInRange(t, asOf)}
           \cup {Exclusion("receivable", r.id, receivableExclusionReasons(t, r)) : r \in t.receivables} :
     x.reasons # {}}

\* validateEventInclusion
IsValid(e) ==
  CASE e.source = "obligation" -> e.direction = "outflow" /\ e.basis = "mandatory_obligation_outflow"
    [] e.source = "manual" ->
         IF e.direction = "outflow" THEN e.basis = "mandatory_manual_outflow"
         ELSE e.basis = IF e.exact THEN "eligible_manual_inflow" ELSE "expected_manual_inflow_allowed_by_policy"
    [] e.source = "receivable" ->
         \/ e.certainty = "confirmed" /\ e.basis = "confirmed_receivable"
         \/ e.certainty = "expected" /\ e.basis = "expected_receivable_allowed_by_policy"
    [] e.source = "card" -> e.basis = "authoritative_card_payment_intent" /\ e.exact

-----------------------------------------------------------------------------
(* The engine *)

\* The opening balance, not an event.
NoEvent == [source |-> "opening"]

SourceRank == [obligation |-> 0, manual |-> 1, receivable |-> 2, card |-> 3]

directionRank(direction) == IF direction = "outflow" THEN 0 ELSE 1

\* The order in which Calculate applies events.
Precedes(e, f) ==
  \/ e.date < f.date
  \/ /\ e.date = f.date
     /\ \/ directionRank(e.direction) < directionRank(f.direction)
        \/ /\ e.direction = f.direction
           /\ \/ SourceRank[e.source] < SourceRank[f.source]
              \/ e.source = f.source /\ e.row < f.row

Signed(e) == IF e.direction = "inflow" THEN e.amount ELSE -e.amount

\* Events that are applied when e is, e among them.
UpTo(events, e) == {f \in events : f = e \/ Precedes(f, e)}

\* The first of some events.
First(events) == CHOOSE e \in events : \A f \in events \ {e} : Precedes(e, f)

Failed(error) == [error |-> error]

\* Calculate: every balance on the way, the lowest and where it is reached first.
Calculate(t, asOf, opening, events, exclusions) ==
  LET after == [e \in events |-> opening + SumFunction([f \in UpTo(events, e) |-> Signed(f)])]
      minimum == Min({opening} \cup {after[e] : e \in events})
  IN
  IF \E e \in events : ~ Fits(after[e]) THEN Failed("overflow")
  ELSE [error |-> "none", asOf |-> asOf, policy |-> t.policy, opening |-> opening, after |-> after,
        minimum |-> minimum,
        limiting |-> IF minimum = opening THEN NoEvent ELSE First({e \in events : after[e] = minimum}),
        exclusions |-> exclusions, issues |-> t.issues]

\* The error of the first obligation that does not expand.
ExpansionError(t, asOf) ==
  LET failing == {o \in t.obligations : Expansion(t, o, asOf).error # "none"}
      first == CHOOSE o \in failing : \A p \in failing : o.id <= p.id
  IN
  Expansion(t, first, asOf).error

\* loadProjectionState and AssembleAndCalculate, up to the first error.
Baseline(t, asOf) ==
  CASE t.policy = NoPolicy -> Failed("configuration_required")
    [] t.policy # NoPolicy /\ AddDays(asOf, t.policy.configuration.horizon) = NoDate -> Failed("invalid_date")
    [] OTHER ->
         IF \E a \in SelectedAccounts(t) : ~ Eligible(t, a) THEN Failed("configuration_invalid")
         ELSE IF \E a \in SelectedAccounts(t) : ~ Fits(OpeningUpTo(t, a)) THEN Failed("overflow")
         ELSE IF \E o \in t.obligations : Expansion(t, o, asOf).error # "none" THEN Failed(ExpansionError(t, asOf))
         ELSE IF \E e \in Events(t, asOf) : ~ IsValid(e) THEN Failed("invalid_event")
         ELSE Calculate(t, asOf, OpeningBalance(t), Events(t, asOf), Exclusions(t, asOf))

-----------------------------------------------------------------------------
(* Safe to spend *)

\* A balance of the projection: after an event, or the opening one.
Point(b, e) == [event |-> e, date |-> IF e = NoEvent THEN b.asOf ELSE e.date]

\* earliestReserveBreach
EarliestBreach(b) ==
  Point(b, IF b.opening < b.policy.configuration.reserve THEN NoEvent
           ELSE First({e \in DOMAIN b.after : b.after[e] < b.policy.configuration.reserve}))

Safe(status, amount) ==
  [error |-> "none", status |-> status, amount |-> amount, deficit |-> 0, limiting |-> NoEvent, breach |-> NoEvent]

\* Mutant: what the account holds does not limit what may be spent from it.
SafeHeadroom(b, funding, headroom) ==
  IF funding <= 0 THEN Safe("constrained_by_funding_balance", 0)
  ELSE [Safe("constrained_by_future_cash_flow", headroom) EXCEPT !.limiting = Point(b, b.limiting)]

\* The smaller of what the projection leaves over the reserve and what the account holds.
SafeAbove(b, funding, headroom) ==
  IF funding <= 0 THEN Safe("constrained_by_funding_balance", 0)
  ELSE IF headroom < funding THEN
    [Safe("constrained_by_future_cash_flow", headroom) EXCEPT !.limiting = Point(b, b.limiting)]
  ELSE IF headroom > funding THEN Safe("constrained_by_funding_balance", funding)
  ELSE Safe("safe", headroom)

\* CalculateSafeToSpend of a baseline, from an account with a balance.
CalculateSafeToSpend(b, account) ==
  LET reserve == b.policy.configuration.reserve IN
  IF ~ IsLiquid(account) THEN Safe("unsupported_funding_type", 0)
  ELSE IF b.issues # {} THEN Safe("indeterminate", 0)
  ELSE IF ~ Fits(reserve - b.minimum) THEN Failed("overflow")
  ELSE IF b.minimum < reserve THEN
    [Safe("already_below_reserve", 0) EXCEPT !.deficit = reserve - b.minimum, !.limiting = Point(b, b.limiting),
                                             !.breach = EarliestBreach(b)]
  ELSE SafeAbove(b, account.balance, b.minimum - reserve)

\* The service's call of it, with the baseline of the same rows.
SafeToSpend(t, b, funding) ==
  LET account == t.accounts[funding] IN
  IF b.error # "none" THEN b
  ELSE IF account.status = "archived" THEN Failed("funding_account_invalid")
  ELSE IF IsLiquid(account) /\ funding \notin SelectedAccounts(t) THEN Failed("funding_account_not_selected")
  ELSE CalculateSafeToSpend(b, account)

-----------------------------------------------------------------------------
(* What the projection promises *)

Total(rows) == SumFunction([r \in rows |-> r.amount])

InflowsOf(events, dates) == Total({e \in events : e.direction = "inflow" /\ e.date \in dates})

OutflowsOf(events, dates) == Total({e \in events : e.direction = "outflow" /\ e.date \in dates})

Horizon(b) == b.asOf..b.asOf + b.policy.configuration.horizon

\* The lowest balance of every day, whose outflows all come before its inflows.
Lowest(b) ==
  [d \in Horizon(b) |->
     b.opening + InflowsOf(DOMAIN b.after, b.asOf..d - 1) - OutflowsOf(DOMAIN b.after, b.asOf..d)]

\* A positive amount may be spent exactly when the account holds it and the
\* balance without it is never under the reserve.
SpendableIs(b, account, amount) ==
  LET low == Lowest(b) IN
  /\ amount >= 0
  /\ \A x \in 1..MaxBalance :
       x <= amount <=> /\ x <= account.balance
                       /\ \A d \in Horizon(b) : low[d] - x >= b.policy.configuration.reserve

\* A status says what limits the amount, and where.
StatusIs(b, account, s) ==
  LET low == Lowest(b)
      minimum == Min({low[d] : d \in Horizon(b)})
      headroom == minimum - b.policy.configuration.reserve
      held == Max({account.balance, 0})
  IN
  /\ s.status = "already_below_reserve" <=> headroom < 0
  /\ s.status = "constrained_by_future_cash_flow" <=> 0 <= headroom /\ headroom < held
  /\ s.status = "safe" <=> headroom = held /\ held > 0
  /\ s.deficit = Max({-headroom, 0})
  /\ headroom < 0 => s.breach.date = Min({d \in Horizon(b) : low[d] < b.policy.configuration.reserve})
  /\ headroom < held => s.limiting # NoEvent /\ s.limiting.date = Min({d \in Horizon(b) : low[d] = minimum})

\* Money that a row stands for between two dates, according to the policy.
Relied(t, r) ==
  r.certainty = "confirmed" \/ (r.certainty = "expected" /\ IncludesExpected(t))

Open(r) == r.status \in {"pending", "partially_collected"} /\ r.date # NoDate

Owed(t, asOf, end) ==
  SumFunction([o \in t.obligations |-> o.amount * Cardinality(DueDates(o, asOf + 1, end))])
    + Total({f \in t.flows : f.direction = "outflow" /\ f.status = "scheduled" /\ f.date \in asOf + 1..end})
    + Total({f \in t.cardFlows : f.date \in asOf + 1..end})

Expected(t, asOf, end) ==
  Total({f \in t.flows : /\ f.direction = "inflow" /\ f.status = "scheduled" /\ f.date \in asOf + 1..end
                         /\ f.eligible /\ (f.exact \/ IncludesExpected(t))})
    + SumFunction([r \in {q \in t.receivables : Open(q) /\ q.date \in asOf + 1..end /\ Relied(t, q)} |->
                     r.original - r.collected])

\* Every day of the horizon ends with the money of the selected accounts, what
\* is relied on by then and not what is owed by then.
CountedOnce(t, b) ==
  \A d \in Horizon(b) :
    b.opening + InflowsOf(DOMAIN b.after, b.asOf..d) - OutflowsOf(DOMAIN b.after, b.asOf..d)
      = SumFunction([a \in SelectedAccounts(t) |-> t.accounts[a].balance])
          + Expected(t, b.asOf, d) - Owed(t, b.asOf, d)

NumberOf(source, row, S) == Cardinality({x \in S : x.source = source /\ x.row = row})

\* A row between the dates is one event or one exclusion; so is a receivable
\* that cannot be relied on, whatever its date.
ExplainedOnce(t, b) ==
  LET explanations(source, row) == NumberOf(source, row, DOMAIN b.after) + NumberOf(source, row, b.exclusions)
      future == b.asOf + 1..b.asOf + b.policy.configuration.horizon
  IN
  /\ \A f \in t.flows : explanations("manual", f.id) = IF f.date \in future THEN 1 ELSE 0
  /\ \A r \in t.receivables :
       explanations("receivable", r.id) = IF Open(r) /\ Relied(t, r) /\ r.date \notin future THEN 0 ELSE 1

=============================================================================
