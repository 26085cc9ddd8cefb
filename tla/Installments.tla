---------------------------- MODULE Installments ----------------------------
(***************************************************************************)
(* Purchases paid in monthly installments without interest: a plan divides *)
(* the principal of a posted card purchase among consecutive statement     *)
(* cycles, a statement takes up the allocations of its cycle, principal    *)
(* payments pay them (internal/postgres/installment_repository.go, each    *)
(* repository call as ONE atomic step).                                    *)
(*                                                                         *)
(* A cycle of a card is named by the month it starts in.  A row inserted   *)
(* under an idempotency key is named by that key.  Of the statements only  *)
(* whether a cycle has an active one is read here (billed); CardCycle      *)
(* composes them.                                                          *)
(***************************************************************************)
EXTENDS InstallmentTerms, FiniteSets, Functions

CONSTANTS
  Cards,      \* accounts of type credit_card
  Keys,       \* values of the Idempotency-Key header
  Purchases   \* ids of posted liability charges

VARIABLES
  cardStatus,         \* accounts.status
  charges,            \* financial_transactions of effect liability_charge
  billed,             \* cycles with an active statement
  plans,              \* credit_card_installment_plans
  allocations,        \* credit_card_installment_allocations
  principalPayments,  \* credit_card_installment_principal_payments
  claims              \* financial_mutations of these two operations

vars == <<cardStatus, charges, billed, plans, allocations, principalPayments, claims>>

-----------------------------------------------------------------------------
(* Rows *)

MonthCycles == Cards \X Months

ChargeRow == [id : Purchases, card : Cards, amount : Principals]

PlanRow == [id : Keys, card : Cards, purchase : Purchases, principal : Principals,
            count : 1..MaxInstallments, status : {"active", "completed"}]

AllocationRow == [plan : Keys, number : 1..MaxInstallments, cycle : MonthCycles, principal : Nat \ {0},
                  status : {"pending", "statement_allocated", "paid"}]

PaymentRow == [id : Keys, plan : Keys, number : 1..MaxInstallments, amount : Amounts]

Operations == {"create_installment_plan", "record_installment_principal_payment"}

-----------------------------------------------------------------------------
(* The schedule of a plan *)

InitialStatus(cycle) == IF cycle \in billed THEN "statement_allocated" ELSE "pending"

\* BuildInstallmentSchedule, its cycles and the rows made of it.
Schedule(key, charge, count, first) ==
  {[plan |-> key, number |-> n, cycle |-> <<charge.card, first + n - 1>>,
    principal |-> InstallmentPrincipal(charge.amount, count, n),
    status |-> InitialStatus(<<charge.card, first + n - 1>>)] : n \in 1..count}

-----------------------------------------------------------------------------
(* Reading the tables *)

Unclaimed(operation, key) == <<operation, key>> \notin claims

AllocationsOf(plan) == {a \in allocations : a.plan = plan.id}

PlanOf(a) == CHOOSE p \in plans : p.id = a.plan

PaymentsTo(a) == {x \in principalPayments : x.plan = a.plan /\ x.number = a.number}

Paid(a) == SumFunction([x \in PaymentsTo(a) |-> x.amount])

Unpaid(a) == a.principal - Paid(a)

PaymentsOf(plan) == {x \in principalPayments : x.plan = plan.id}

\* installmentSummary
PaidPrincipal(plan) == SumFunction([x \in PaymentsOf(plan) |-> x.amount])

Outstanding(plan) == plan.principal - PaidPrincipal(plan)

-----------------------------------------------------------------------------
(* Operations *)

Init ==
  /\ cardStatus = [c \in Cards |-> "active"]
  /\ charges = {}
  /\ billed = {}
  /\ plans = {}
  /\ allocations = {}
  /\ principalPayments = {}
  /\ claims = {}

\* The ledger posts a purchase to a card, or archives the card.
PostCharge(purchase, card, amount) ==
  /\ cardStatus[card] = "active"
  /\ \A c \in charges : c.id # purchase
  /\ charges' = charges \cup {[id |-> purchase, card |-> card, amount |-> amount]}
  /\ UNCHANGED <<cardStatus, billed, plans, allocations, principalPayments, claims>>

ArchiveAccount(card) ==
  /\ cardStatus[card] = "active"
  /\ cardStatus' = [cardStatus EXCEPT ![card] = "archived"]
  /\ UNCHANGED <<charges, billed, plans, allocations, principalPayments, claims>>

\* UNIQUE (owner_id, account_id, purchase_transaction_id)
Unplanned(purchase) == \A p \in plans : p.purchase # purchase

CreateInstallmentPlan(key, charge, count, first) ==
  /\ cardStatus[charge.card] = "active"
  /\ Unclaimed("create_installment_plan", key)
  /\ Schedulable(charge.amount, count, first)
  /\ Unplanned(charge.id)
  /\ plans' = plans \cup {[id |-> key, card |-> charge.card, purchase |-> charge.id,
                           principal |-> charge.amount, count |-> count, status |-> "active"]}
  /\ allocations' = allocations \cup Schedule(key, charge, count, first)
  /\ claims' = claims \cup {<<"create_installment_plan", key>>}
  /\ UNCHANGED <<cardStatus, charges, billed, principalPayments>>

\* Mutant: a statement takes up every allocation of its cycle that it finds.
TakenUpAll(cycle) ==
  {IF a.cycle = cycle THEN [a EXCEPT !.status = "statement_allocated"] ELSE a : a \in allocations}

\* A statement takes up what is pending for its cycle.
TakenUp(cycle) ==
  {IF a.cycle = cycle /\ a.status = "pending" THEN [a EXCEPT !.status = "statement_allocated"] ELSE a :
     a \in allocations}

\* What RegisterStatement does here, for a first statement and for corrections.
RegisterStatement(cycle) ==
  /\ cardStatus[cycle[1]] = "active"
  /\ billed' = billed \cup {cycle}
  /\ allocations' = TakenUp(cycle)
  /\ UNCHANGED <<cardStatus, charges, plans, principalPayments, claims>>

FitsUnpaid(a, amount) == amount <= Unpaid(a)

\* Mutant: a plan is complete with its last installment.
LastInstallmentPaid(a, amount) == amount = Unpaid(a) /\ a.number = PlanOf(a).count

CompletesPlan(a, amount) == amount = Outstanding(PlanOf(a))

RecordPrincipalPayment(key, a, amount) ==
  /\ Unclaimed("record_installment_principal_payment", key)
  /\ PlanOf(a).status = "active"
  /\ a.status # "paid"
  /\ FitsUnpaid(a, amount)
  /\ principalPayments' = principalPayments \cup
       {[id |-> key, plan |-> a.plan, number |-> a.number, amount |-> amount]}
  /\ allocations' = IF amount = Unpaid(a)
                      THEN (allocations \ {a}) \cup {[a EXCEPT !.status = "paid"]}
                      ELSE allocations
  /\ plans' = IF CompletesPlan(a, amount)
                THEN (plans \ {PlanOf(a)}) \cup {[PlanOf(a) EXCEPT !.status = "completed"]}
                ELSE plans
  /\ claims' = claims \cup {<<"record_installment_principal_payment", key>>}
  /\ UNCHANGED <<cardStatus, charges, billed>>

Next ==
  \/ \E purchase \in Purchases, card \in Cards, amount \in Principals : PostCharge(purchase, card, amount)
  \/ \E card \in Cards : ArchiveAccount(card)
  \/ \E key \in Keys, charge \in charges, count \in 1..MaxInstallments, first \in Months :
       CreateInstallmentPlan(key, charge, count, first)
  \/ \E cycle \in MonthCycles : RegisterStatement(cycle)
  \/ \E key \in Keys, a \in allocations, amount \in Amounts : RecordPrincipalPayment(key, a, amount)

Spec == Init /\ [][Next]_vars

-----------------------------------------------------------------------------
(* Properties *)

\* Every row has its columns' types (migration 0011).
TypeOK ==
  /\ cardStatus \in [Cards -> {"active", "archived"}]
  /\ charges \subseteq ChargeRow
  /\ billed \subseteq MonthCycles
  /\ plans \subseteq PlanRow
  /\ allocations \subseteq AllocationRow
  /\ principalPayments \subseteq PaymentRow
  /\ claims \subseteq Operations \X Keys

UnpaidAllocationsOf(plan) == {a \in AllocationsOf(plan) : a.status # "paid"}

PlansOn(card) == {p \in plans : p.card = card}

ChargesOn(card) == {x \in charges : x.card = card}

SpreadOver(plan, S) ==
  /\ Cardinality(S) = plan.count
  /\ SumFunction([a \in S |-> a.principal]) = plan.principal
  /\ \A a, b \in S : a.number < b.number => a.principal - b.principal \in {0, 1}
  /\ \A a, b \in S : a.cycle = b.cycle \/ a.number = b.number => a = b

\* The allocations of a plan are its principal, divided as evenly as whole
\* minor units allow with the larger parts first, one to a cycle
\* (docs/adr/0001:69-76; deferred trigger of migration 0011).
SchedulesConservePrincipal == \A p \in plans : SpreadOver(p, AllocationsOf(p))

\* What is unpaid of the allocations that are not paid is what is outstanding
\* of their plan (docs/adr/0001:59-62), an allocation is paid when nothing of it is left, and
\* a plan is completed when nothing of it is (deferred triggers of migration 0012).
OutstandingIsUnpaidAllocations ==
  /\ \A p \in plans :
       /\ Outstanding(p) = SumFunction([a \in UnpaidAllocationsOf(p) |-> Unpaid(a)])
       /\ p.status = "completed" <=> Outstanding(p) = 0
  /\ \A a \in allocations : Unpaid(a) >= 0 /\ (a.status = "paid" <=> Unpaid(a) = 0)

\* An unpaid allocation is pending while its cycle has no statement and taken
\* up when it has one, whichever of plan and statement came first.
StatementsTakeUpAllocations ==
  \A a \in allocations : a.status # "paid" =>
    a.status = IF a.cycle \in billed THEN "statement_allocated" ELSE "pending"

\* Planning creates no liability (docs/adr/0001:54-56): plans of a card divide
\* distinct purchases posted to it, so what is outstanding on it never exceeds what was charged.
PlansDividePurchases ==
  /\ \A p \in plans : [id |-> p.purchase, card |-> p.card, amount |-> p.principal] \in charges
  /\ \A c \in Cards :
       SumFunction([p \in PlansOn(c) |-> p.principal]) <= SumFunction([x \in ChargesOn(c) |-> x.amount])

Rank(status) == CASE status = "pending" -> 1 [] status = "statement_allocated" -> 2 [] status = "paid" -> 3

\* A schedule is written once: afterwards allocations only advance, plans only complete, payments
\* stay, and a paid allocation never becomes owing again.
SchedulesAreHistory ==
  [][/\ principalPayments \subseteq principalPayments'
     /\ \A a \in allocations : \E b \in allocations' :
          [a EXCEPT !.status = b.status] = b /\ Rank(a.status) <= Rank(b.status)
     /\ \A b \in allocations' :
          (\E p \in plans : p.id = b.plan) => \E a \in allocations : [a EXCEPT !.status = b.status] = b
     /\ \A p \in plans : p \in plans' \/ [p EXCEPT !.status = "completed"] \in plans']_vars

=============================================================================
