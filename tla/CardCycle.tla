------------------------------ MODULE CardCycle ------------------------------
(***************************************************************************)
(* A card as a whole: the statements, intents and settlements of           *)
(* CardPayments together with the plans and allocations of Installments.   *)
(* They meet in RegisterStatement, which changes both in one transaction,  *)
(* and in the statements that CreateInstallmentPlan reads.  Installments   *)
(* sees a cycle as billed when CardPayments has an active statement of it. *)
(***************************************************************************)
EXTENDS CardPayments

CONSTANTS LastMonth, Purchases, Principals, MaxInstallments   \* as in Installments

\* The cycles of a card are named by card and month, as Installments does.
ASSUME CycleAssumption ==
  /\ Cycles = Cards \X (0..LastMonth)
  /\ \A c \in Cycles : CardOf[c] = c[1]

ASSUME PlanAssumption ==
  /\ LastMonth \in Nat /\ MaxInstallments \in Nat
  /\ Principals \subseteq Nat \ {0}

VARIABLES
  charges, plans, allocations, principalPayments, claims    \* as in Installments

installmentVars == <<charges, plans, allocations, principalPayments, claims>>
cycleVars == <<vars, installmentVars>>

Billed == {c \in Cycles : ActiveStatements(c) # {}}

I == INSTANCE Installments WITH billed <- Billed

-----------------------------------------------------------------------------

CycleInit == Init /\ I!Init

\* Mutant: a first statement takes up what its cycle has, paid or not.
TakeUpFirst(cycle) ==
  allocations' = IF cycle \in Billed THEN allocations
                 ELSE {IF a.cycle = cycle THEN [a EXCEPT !.status = "statement_allocated"] ELSE a :
                         a \in allocations}

TakeUp(cycle) == allocations' = I!TakenUp(cycle)

RegisterStatementOfCycle(key, cycle, authority, balance, due) ==
  /\ RegisterStatement(key, cycle, authority, balance, due)
  /\ TakeUp(cycle)
  /\ UNCHANGED <<charges, plans, principalPayments, claims>>

PaymentStep ==
  \/ \E transfer \in Transfers, card \in Cards, amount \in Amounts : PostTransfer(transfer, card, amount)
  \/ \E card \in Cards : ArchiveAccount(card)
  \/ \E cycle \in Cycles, amount \in Amounts, planned \in Dates : ReplaceIntent(cycle, amount, planned)
  \/ \E cycle \in Cycles : CancelIntent(cycle)
  \/ \E key \in Keys, cycle \in Cycles, payment \in payments : SettleIntent(key, cycle, payment)

InstallmentStep ==
  \/ \E purchase \in Purchases, card \in Cards, amount \in Principals : I!PostCharge(purchase, card, amount)
  \/ \E key \in Keys, charge \in charges, count \in 1..MaxInstallments, first \in I!Months :
       I!CreateInstallmentPlan(key, charge, count, first)
  \/ \E key \in Keys, a \in allocations, amount \in Amounts : I!RecordPrincipalPayment(key, a, amount)

CycleNext ==
  \/ \E key \in Keys, cycle \in Cycles, authority \in {"estimated", "issued"}, balance \in Balances,
        due \in Dates : RegisterStatementOfCycle(key, cycle, authority, balance, due)
  \/ PaymentStep /\ UNCHANGED installmentVars
  \/ UNCHANGED vars /\ InstallmentStep

CycleSpec == CycleInit /\ [][CycleNext]_cycleVars

-----------------------------------------------------------------------------
(* Properties *)

\* Every row of both halves has its columns' types (migration 0011).
CycleTypeOK == TypeOK /\ I!TypeOK

\* A card whose statements come and are corrected is a card that Installments
\* describes: billed cycles stay billed through corrections, and every
\* registration takes up what is pending, never what a payment has already paid.
ImplementsInstallments == I!Init /\ [][I!Next]_I!vars

\* The allocations of a plan are its principal, divided as evenly as whole
\* minor units allow with the larger parts first, one to a cycle
\* (docs/adr/0001:69-76), and plans of a card divide distinct purchases posted
\* to it: planning creates no liability (docs/adr/0001:54-56).
PrincipalIsConserved == I!SchedulesConservePrincipal /\ I!PlansDividePurchases

\* Whichever of plan, statement and payment comes first: what is unpaid of the
\* allocations is what is outstanding of their plan (docs/adr/0001:59-62), and
\* an unpaid allocation is taken up exactly when its cycle has a statement.
AllocationsReconcile == I!OutstandingIsUnpaidAllocations /\ I!StatementsTakeUpAllocations

\* A schedule is written once: allocations only advance, plans only complete,
\* and no correction of a statement makes a paid allocation owing again.
SchedulesAreHistory == I!SchedulesAreHistory

=============================================================================
