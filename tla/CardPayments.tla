---------------------------- MODULE CardPayments ----------------------------
(***************************************************************************)
(* Credit-card statements, the payment intent of each cycle, the cash flow *)
(* that stands for what is left to pay, and the settlements that link      *)
(* posted transfers to it: internal/postgres/card_repository.go, each      *)
(* repository call as ONE atomic step.                                     *)
(*                                                                         *)
(* A row inserted under an idempotency key is named by that key.  Only the *)
(* statement fields a condition reads are kept.  The deferred triggers of  *)
(* migration 0015 are a guard where the repository leans on them           *)
(* (ReplaceIntent) and invariants everywhere else, where its own checks    *)
(* must be enough.                                                         *)
(***************************************************************************)
EXTENDS Integers, FiniteSets, Functions

CONSTANTS
  Cards,        \* accounts of type credit_card
  Cycles,       \* logical statement cycles
  CardOf,       \* the card of each cycle
  Keys,         \* values of the Idempotency-Key header
  Transfers,    \* ids of linked transfers from cash or bank to a card
  Balances,     \* statement balances
  Amounts,      \* amounts of intents and transfers
  Dates,        \* financial dates
  MaxVersion,   \* bound on the version an intent is replaced at
  NoKey,        \* superseded_by_id, settlement_transaction_id: NULL
  NoIntent      \* the cycle has no credit_card_payment_intents row

ASSUME CardAssumption == CardOf \in [Cycles -> Cards]

ASSUME MoneyAssumption == Balances \subseteq Nat /\ Amounts \subseteq Nat \ {0}

ASSUME DateAssumption == Dates \subseteq Nat /\ MaxVersion \in Nat \ {0}

ASSUME NullAssumption == NoKey \notin Keys \cup Transfers

VARIABLES
  cardStatus,   \* accounts.status
  payments,     \* linked_transfers to a card: ledger truth
  statements,   \* credit_card_statements
  intents,      \* credit_card_payment_intents, one per cycle (UNIQUE)
  flows,        \* scheduled_cash_flows of kind credit_card_payment_intent
  settlements,  \* credit_card_payment_intent_settlements
  mutations     \* financial_mutations of these two operations

vars == <<cardStatus, payments, statements, intents, flows, settlements, mutations>>

-----------------------------------------------------------------------------
(* Rows *)

PaymentRow == [id : Transfers, destination : Cards, amount : Amounts]

StatementRow == [id : Keys, cycle : Cycles, revision : Nat, authority : {"estimated", "issued"},
                 balance : Balances, due : Dates, supersededBy : Keys \cup {NoKey}]

IntentRow == [amount : Amounts, planned : Dates, version : 1..MaxVersion + 1,
              status : {"active", "needs_review", "cancelled", "settled"}]

\* Cycle, version and amount make the id createCardFlow gives the row.
FlowRow == [cycle : Cycles, version : 1..MaxVersion, amount : Nat \ {0}, date : Dates,
            status : {"scheduled", "cancelled", "settled"}, settledBy : Transfers \cup {NoKey}]

ASSUME IntentAssumption == NoIntent \notin IntentRow

SettlementRow == [id : Keys, cycle : Cycles, transfer : Transfers, amount : Amounts]

Operations == {"register_credit_card_statement", "settle_credit_card_payment_intent"}

-----------------------------------------------------------------------------
(* Reading the tables *)

Unclaimed(operation, key) == <<operation, key>> \notin mutations

\* The statements of a cycle with superseded_at IS NULL.
ActiveStatements(cycle) == {s \in statements : s.cycle = cycle /\ s.supersededBy = NoKey}

HasIntent(cycle) == intents[cycle] # NoIntent

SettlementsOf(cycle) == {s \in settlements : s.cycle = cycle}

SettledAmount(cycle) == SumFunction([s \in SettlementsOf(cycle) |-> s.amount])

Remaining(cycle) == intents[cycle].amount - SettledAmount(cycle)

IsScheduled(f, cycle) == f.cycle = cycle /\ f.status = "scheduled"

ScheduledFlows(cycle) == {f \in flows : IsScheduled(f, cycle)}

NextRevision(cycle) ==
  IF ActiveStatements(cycle) = {} THEN 1
  ELSE (CHOOSE s \in ActiveStatements(cycle) : TRUE).revision + 1

\* Mutant: a plan is compared with the balance only.
OutgrownByAmount(cycle, balance, due) ==
  /\ HasIntent(cycle) /\ due \in Dates
  /\ intents[cycle].status = "active"
  /\ intents[cycle].amount > balance

\* The plan no longer fits the statement that replaces the one it was made for.
Outgrown(cycle, balance, due) ==
  /\ HasIntent(cycle)
  /\ intents[cycle].status = "active"
  /\ intents[cycle].amount > balance \/ intents[cycle].planned > due

Flow(cycle, version, amount, date) ==
  [cycle |-> cycle, version |-> version, amount |-> amount, date |-> date,
   status |-> "scheduled", settledBy |-> NoKey]

\* Primary key of scheduled_cash_flows.
FlowIdFree(cycle, version, amount) ==
  ~ \E f \in flows : f.cycle = cycle /\ f.version = version /\ f.amount = amount

\* Mutant: the flow of the superseded plan stays scheduled.
FlowsKept(cycle) == {f \in flows : f.cycle = cycle \/ f.cycle # cycle}

\* cancelActiveCardFlow
FlowsCancelled(cycle) ==
  {IF IsScheduled(f, cycle) THEN [f EXCEPT !.status = "cancelled"] ELSE f : f \in flows}

FlowsSettled(cycle, transfer) ==
  {IF IsScheduled(f, cycle) THEN [f EXCEPT !.status = "settled", !.settledBy = transfer] ELSE f :
     f \in flows}

\* Mutant: no deferred trigger.
LifecycleUnchecked(cycle) == HasIntent(cycle)

\* What runway_validate_card_intent_flow demands of an intent at commit.
LifecycleConsistent(cycle) ==
  LET i == intents[cycle]
      settled == SettledAmount(cycle)
  IN
  /\ settled <= i.amount
  /\ settled = i.amount => i.status = "settled" /\ ScheduledFlows(cycle) = {}
  /\ settled < i.amount /\ i.status = "active" =>
       \E f \in flows : /\ ScheduledFlows(cycle) = {f}
                        /\ f.amount = i.amount - settled
                        /\ f.date = i.planned
  /\ settled < i.amount /\ i.status # "active" => ScheduledFlows(cycle) = {}

-----------------------------------------------------------------------------
(* Operations *)

Init ==
  /\ cardStatus = [c \in Cards |-> "active"]
  /\ payments = {}
  /\ statements = {}
  /\ intents = [c \in Cycles |-> NoIntent]
  /\ flows = {}
  /\ settlements = {}
  /\ mutations = {}

\* The ledger posts a transfer to a card, or archives the card.
PostTransfer(transfer, card, amount) ==
  /\ cardStatus[card] = "active"
  /\ \A p \in payments : p.id # transfer
  /\ payments' = payments \cup {[id |-> transfer, destination |-> card, amount |-> amount]}
  /\ UNCHANGED <<cardStatus, statements, intents, flows, settlements, mutations>>

ArchiveAccount(card) ==
  /\ cardStatus[card] = "active"
  /\ cardStatus' = [cardStatus EXCEPT ![card] = "archived"]
  /\ UNCHANGED <<payments, statements, intents, flows, settlements, mutations>>

MayReplace(s, authority) == ~ (s.authority = "issued" /\ authority = "estimated")

RegisterStatement(key, cycle, authority, balance, due) ==
  /\ cardStatus[CardOf[cycle]] = "active"
  /\ Unclaimed("register_credit_card_statement", key)
  /\ \A s \in ActiveStatements(cycle) : MayReplace(s, authority)
  /\ statements' =
       {IF s \in ActiveStatements(cycle) THEN [s EXCEPT !.supersededBy = key] ELSE s : s \in statements}
         \cup {[id |-> key, cycle |-> cycle, revision |-> NextRevision(cycle), authority |-> authority,
                balance |-> balance, due |-> due, supersededBy |-> NoKey]}
  /\ IF Outgrown(cycle, balance, due)
       THEN /\ intents' = [intents EXCEPT ![cycle].status = "needs_review"]
            /\ flows' = FlowsCancelled(cycle)
       ELSE UNCHANGED <<intents, flows>>
  /\ mutations' = mutations \cup {<<"register_credit_card_statement", key>>}
  /\ UNCHANGED <<cardStatus, payments, settlements>>

\* The amount and date a client may plan: no more than the authoritative
\* statement's balance, no later than its due date.
Plannable(cycle, amount, planned) ==
  \E s \in ActiveStatements(cycle) : amount <= s.balance /\ planned <= s.due

NextVersion(cycle) == IF HasIntent(cycle) THEN intents[cycle].version + 1 ELSE 1

IsPlanned(cycle, amount, planned) ==
  /\ intents[cycle].status = "active"
  /\ intents[cycle].amount = amount /\ intents[cycle].planned = planned

ReplaceIntent(cycle, amount, planned) ==
  /\ Plannable(cycle, amount, planned)
  /\ HasIntent(cycle) => /\ intents[cycle].status \in {"active", "needs_review"}
                         /\ ~ IsPlanned(cycle, amount, planned)
                         /\ intents[cycle].version < MaxVersion
  /\ FlowIdFree(cycle, NextVersion(cycle), amount)
  /\ intents' = [intents EXCEPT ![cycle] =
       [amount |-> amount, planned |-> planned, version |-> NextVersion(cycle), status |-> "active"]]
  /\ flows' = FlowsCancelled(cycle) \cup {Flow(cycle, NextVersion(cycle), amount, planned)}
  /\ UNCHANGED <<cardStatus, payments, statements, settlements, mutations>>
  /\ LifecycleConsistent(cycle)'

Cancellable(cycle) == intents[cycle].status \in {"active", "needs_review"}

CancelIntent(cycle) ==
  /\ HasIntent(cycle)
  /\ Cancellable(cycle)
  /\ intents' = [intents EXCEPT ![cycle].status = "cancelled", ![cycle].version = @ + 1]
  /\ flows' = FlowsCancelled(cycle)
  /\ UNCHANGED <<cardStatus, payments, statements, settlements, mutations>>

\* A transfer to the card of the intent that settles nothing yet (UNIQUE).
Linked(payment, cycle) ==
  /\ payment.destination = CardOf[cycle]
  /\ \A s \in settlements : s.transfer # payment.id

\* Mutant: the amount is compared with the plan, not with what is left of it.
FitsPlan(payment, cycle) == payment.amount <= intents[cycle].amount

FitsRemaining(payment, cycle) == payment.amount <= Remaining(cycle)

SettleInFull(cycle, payment) ==
  /\ payment.amount = Remaining(cycle)
  /\ flows' = FlowsSettled(cycle, payment.id)
  /\ intents' = [intents EXCEPT ![cycle].status = "settled", ![cycle].version = @ + 1]

SettleInPart(cycle, payment) ==
  LET i == intents[cycle]
      left == Remaining(cycle) - payment.amount
  IN
  /\ left # 0
  /\ FlowIdFree(cycle, i.version, left)
  /\ flows' = FlowsCancelled(cycle) \cup {Flow(cycle, i.version, left, i.planned)}
  /\ UNCHANGED intents

SettleIntent(key, cycle, payment) ==
  /\ Unclaimed("settle_credit_card_payment_intent", key)
  /\ HasIntent(cycle)
  /\ intents[cycle].status = "active"
  /\ Linked(payment, cycle)
  /\ FitsRemaining(payment, cycle)
  /\ settlements' = settlements \cup
       {[id |-> key, cycle |-> cycle, transfer |-> payment.id, amount |-> payment.amount]}
  /\ mutations' = mutations \cup {<<"settle_credit_card_payment_intent", key>>}
  /\ SettleInFull(cycle, payment) \/ SettleInPart(cycle, payment)
  /\ UNCHANGED <<cardStatus, payments, statements>>

Next ==
  \/ \E transfer \in Transfers, card \in Cards, amount \in Amounts : PostTransfer(transfer, card, amount)
  \/ \E card \in Cards : ArchiveAccount(card)
  \/ \E key \in Keys, cycle \in Cycles, authority \in {"estimated", "issued"}, balance \in Balances,
        due \in Dates : RegisterStatement(key, cycle, authority, balance, due)
  \/ \E cycle \in Cycles, amount \in Amounts, planned \in Dates : ReplaceIntent(cycle, amount, planned)
  \/ \E cycle \in Cycles : CancelIntent(cycle)
  \/ \E key \in Keys, cycle \in Cycles, payment \in payments : SettleIntent(key, cycle, payment)

Spec == Init /\ [][Next]_vars

-----------------------------------------------------------------------------
(* Properties *)

\* Every row has its columns' types (migrations 0004, 0008, 0013).
TypeOK ==
  /\ cardStatus \in [Cards -> {"active", "archived"}]
  /\ payments \subseteq PaymentRow
  /\ statements \subseteq StatementRow
  /\ intents \in [Cycles -> IntentRow \cup {NoIntent}]
  /\ flows \subseteq FlowRow
  /\ settlements \subseteq SettlementRow
  /\ mutations \subseteq Operations \X Keys

Replaces(newer, older) ==
  /\ newer.id = older.supersededBy
  /\ newer.cycle = older.cycle
  /\ newer.revision = older.revision + 1
  /\ older.authority = "issued" => newer.authority = "issued"

\* One of them is authoritative, every other is replaced by the next
\* (unique index and triggers of 0008 and 0009).
StatementsFormAChain ==
  /\ \A s, u \in statements : s.cycle = u.cycle /\ s.revision = u.revision => s = u
  /\ \A s \in statements : Cardinality(ActiveStatements(s.cycle)) = 1
  /\ \A s \in statements :
       s.supersededBy # NoKey => \E u \in statements : Replaces(u, s)

\* The statements of a cycle are one chain of revisions in which an estimate
\* never replaces an issued statement, and an active plan fits the statement in
\* force, whatever statement it was made for: no correction, in whatever order
\* it comes, leaves an outdated plan active.
PlansFollowTheStatement ==
  /\ StatementsFormAChain
  /\ \A c \in Cycles :
       HasIntent(c) /\ intents[c].status = "active" => Plannable(c, intents[c].amount, intents[c].planned)

\* A settlement is a transfer posted to the card, counted for one intent only.
SettlementsArePosted ==
  /\ \A s \in settlements :
       /\ [id |-> s.transfer, destination |-> CardOf[s.cycle], amount |-> s.amount] \in payments
       /\ HasIntent(s.cycle)
  /\ \A s, u \in settlements : s.transfer = u.transfer \/ s.id = u.id => s = u

\* A flow is settled by one payment of its own amount (trigger of 0004, unique
\* index), for an intent that is settled.
SettledFlowsMatchAPayment ==
  \A f \in flows : f.status = "settled" =>
    /\ intents[f.cycle].status = "settled"
    /\ \E p \in payments : p.id = f.settledBy /\ p.amount = f.amount
    /\ \A g \in flows : g.settledBy = f.settledBy => g = f

\* createCardFlow never meets a flow id it used before: neither for the next
\* version of a plan nor for what a partial payment leaves of this one.
FlowIdsAreFree(c) ==
  /\ \A f \in flows : f.cycle = c => f.version <= intents[c].version
  /\ intents[c].status = "active" =>
       \A left \in 1..Remaining(c) - 1 : FlowIdFree(c, intents[c].version, left)

\* After any sequence of plans, corrections, cancellations and payments, what
\* is paid is posted and counted once, and the cash still planned plus the cash
\* paid is the plan: the checks of RegisterStatement, CancelIntent and
\* SettleIntent always leave what the deferred trigger of migration 0015 accepts.
PlansReconcileWithPayments ==
  /\ SettlementsArePosted
  /\ SettledFlowsMatchAPayment
  /\ \A c \in Cycles : HasIntent(c) =>
       /\ intents[c].status = "settled" <=> SettledAmount(c) = intents[c].amount
       /\ LifecycleConsistent(c)
       /\ FlowIdsAreFree(c)

\* Settled and cancelled are final, versions never go back, and rows are
\* history: what replaces them is a new row.
OutcomesAreFinal ==
  /\ \A c \in Cycles : HasIntent(c) =>
       /\ intents'[c].version >= intents[c].version
       /\ intents[c].status \in {"settled", "cancelled"} => intents'[c] = intents[c]
  /\ \A s \in statements : s \in statements' \/ s.supersededBy = NoKey
  /\ \A f \in flows : f \in flows' \/ f.status = "scheduled"
  /\ settlements \subseteq settlements'

\* A plan that was paid in part keeps its amount and date until it is settled or
\* cancelled; once a correction sent it to review it can only be cancelled.
PaidPlansAreFixed ==
  \A c \in Cycles : SettlementsOf(c) # {} =>
    /\ intents'[c].amount = intents[c].amount
    /\ intents'[c].planned = intents[c].planned
    /\ intents[c].status = "needs_review" => intents'[c].status \in {"needs_review", "cancelled"}

\* No order of corrections, plans, payments and cancellations revives what has
\* ended, rewrites a row, or changes a plan behind a payment made for it.
HistoryIsKept == [][OutcomesAreFinal /\ PaidPlansAreFixed]_vars

=============================================================================
