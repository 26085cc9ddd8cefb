------------------------- MODULE InstallmentSessions -------------------------
(***************************************************************************)
(* How installment_repository.go, and the part of RegisterStatement that   *)
(* concerns allocations, carry out the operations of Installments:         *)
(* concurrent transactions at READ COMMITTED with row locks.  Plans and    *)
(* statements lock the card account first; a principal payment never does  *)
(* and locks its allocation, then its plan; a statement meets payments at  *)
(* the allocations of its cycle.  A summary is read by two queries that    *)
(* share no transaction.                                                   *)
(*                                                                         *)
(* A session serves one request; a retry is another session with the same  *)
(* request.  Cycle rows are locked under their account's lock here; their  *)
(* meeting with payment plans is in CardSessions.                          *)
(***************************************************************************)
EXTENDS InstallmentTerms, SequencesExt

CONSTANTS
  Cards, Keys, Purchases,   \* as in Installments
  Sessions,     \* requests being served
  Workloads,    \* what clients may ask for: functions from sessions to requests
  NoSummary     \* no summary was answered

\* What clients may ask for; a plan names the principal that its client expects.
PlanRequest == [operation : {"create_installment_plan"}, key : Keys, card : Cards, purchase : Purchases,
                principal : Nat, count : 1..MaxInstallments, first : Months]

PaymentRequest == [operation : {"record_installment_principal_payment"}, key : Keys, plan : Keys,
                   number : 1..MaxInstallments, amount : Amounts]

StatementRequest == [operation : {"register"}, card : Cards, month : Months]

SummaryRequest == [operation : {"summary"}, plan : Keys]

ASSUME WorkloadAssumption ==
  Workloads \subseteq [Sessions -> PlanRequest \cup PaymentRequest \cup StatementRequest \cup SummaryRequest]

VARIABLES
  cardStatus, charges, billed, plans, allocations, principalPayments, claims,  \* committed rows
  locks,        \* rows a session holds FOR UPDATE
  pc,           \* the statement a session runs next, or how it ended
  request,      \* what the client of a session asks for
  scan,         \* allocations the UPDATE of a statement has found and not reached
  writes,       \* uncommitted rows
  summary       \* what GetInstallmentPlanSummary has read

committed == <<cardStatus, charges, billed, plans, allocations, principalPayments, claims>>
vars == <<committed, locks, pc, request, scan, writes, summary>>

I == INSTANCE Installments

-----------------------------------------------------------------------------
(* Requests, rows and locks *)

NoWrites == [billed |-> {}, plans |-> {}, allocations |-> {}, payments |-> {}, claims |-> {}]

Ended == {"done", "rejected", "failed"}

AccountRow(card) == <<"account", card>>
AllocationRow(plan, number) == <<"allocation", plan, number>>
PlanRow(plan) == <<"plan", plan>>

Card(s) == request[s].card
IsPayment(s) == request[s].operation = "record_installment_principal_payment"

\* The allocations a payment's client may name: those it can read.
Target(s) == {a \in allocations : a.plan = request[s].plan /\ a.number = request[s].number}

\* Mutant: one query joins plan and account, and locks both.
PlanRowsAndAccount(s) == {PlanRow(request[s].plan)} \cup {AccountRow(a.cycle[1]) : a \in Target(s)}

\* What the second query of loadAllocationAndPlanForUpdate locks.
PlanRows(s) == {PlanRow(request[s].plan)}

Holders(s, rows) == {o \in Sessions \ {s} : locks[o] \cap rows # {}}

\* Insertion of a unique value waits for a session that has inserted it.
KeyBlockers(s) ==
  {o \in Sessions \ {s} : <<request[s].operation, request[s].key>> \in writes[o].claims}

RowOf(a) == AllocationRow(a.plan, a.number)

WaitsFor(s) ==
  CASE pc[s] = "account"    -> Holders(s, {AccountRow(Card(s))})
    [] pc[s] = "claim"      -> KeyBlockers(s)
    [] pc[s] = "allocation" -> Holders(s, {RowOf(a) : a \in Target(s)})
    [] pc[s] = "plan"       -> Holders(s, PlanRows(s))
    [] pc[s] = "take_up"    -> IF scan[s] = <<>> THEN {} ELSE Holders(s, {RowOf(Head(scan[s]))})
    [] OTHER                -> {}

Ready(s, statement) == pc[s] = statement /\ WaitsFor(s) = {}

Goto(s, statement) == pc' = [pc EXCEPT ![s] = statement]

Take(s, rows) == locks' = [locks EXCEPT ![s] = @ \cup rows]

End(s, outcome) ==
  /\ Goto(s, outcome)
  /\ locks' = [locks EXCEPT ![s] = {}]
  /\ writes' = [writes EXCEPT ![s] = NoWrites]
  /\ scan' = [scan EXCEPT ![s] = <<>>]
  /\ UNCHANGED <<request, summary>>

\* The transaction ends and leaves no row: rolled back, or a commit without writes.
EndUnchanged(s, outcome) == End(s, outcome) /\ UNCHANGED committed

-----------------------------------------------------------------------------
(* Statements shared by several calls *)

FirstStatement(r) ==
  CASE r.operation \in {"create_installment_plan", "register"} -> "account"
    [] r.operation = "record_installment_principal_payment"    -> "allocation"
    [] r.operation = "summary"                                 -> "read_plan"

Begin(s) ==
  /\ pc[s] = "idle"
  /\ Goto(s, FirstStatement(request[s]))
  /\ UNCHANGED <<committed, locks, request, scan, writes, summary>>

LockAccount(s) ==
  /\ Ready(s, "account")
  /\ IF cardStatus[Card(s)] = "active"
       THEN /\ Take(s, {AccountRow(Card(s))})
            /\ Goto(s, IF request[s].operation = "register" THEN "bill" ELSE "purchase")
            /\ UNCHANGED <<committed, request, scan, writes, summary>>
       ELSE EndUnchanged(s, "rejected")

ClaimMutation(s) ==
  LET claim == <<request[s].operation, request[s].key>> IN
  /\ Ready(s, "claim")
  /\ IF claim \in claims
       THEN EndUnchanged(s, "done")
       ELSE /\ writes' = [writes EXCEPT ![s].claims = {claim}]
            /\ Goto(s, IF IsPayment(s) THEN "pay" ELSE "schedule")
            /\ UNCHANGED <<committed, locks, request, scan, summary>>

\* Rows of writes replace the committed rows that have their ids.
Commit(s) ==
  LET w == writes[s] IN
  /\ pc[s] = "commit"
  /\ billed' = billed \cup w.billed
  /\ plans' = {p \in plans : \A q \in w.plans : q.id # p.id} \cup w.plans
  /\ allocations' = {a \in allocations : \A b \in w.allocations : RowOf(b) # RowOf(a)} \cup w.allocations
  /\ principalPayments' = principalPayments \cup w.payments
  /\ claims' = claims \cup w.claims
  /\ UNCHANGED <<cardStatus, charges>>
  /\ End(s, "done")

-----------------------------------------------------------------------------
(* CreateInstallmentPlan: account, purchase, key, plan and allocations *)

Purchase(s) == {c \in charges : c.id = request[s].purchase /\ c.card = Card(s)}

ValidatePurchase(s) ==
  /\ Ready(s, "purchase")
  /\ IF \E c \in Purchase(s) : c.amount = request[s].principal
       THEN Goto(s, "claim") /\ UNCHANGED <<committed, locks, request, scan, writes, summary>>
       ELSE EndUnchanged(s, "rejected")

InsertPlan(s) ==
  LET r == request[s]
      charge == [id |-> r.purchase, card |-> r.card, amount |-> r.principal]
  IN
  /\ Ready(s, "schedule")
  /\ IF Schedulable(r.principal, r.count, r.first) /\ I!Unplanned(r.purchase)
       THEN /\ writes' = [writes EXCEPT
                 ![s].plans = {[id |-> r.key, card |-> r.card, purchase |-> r.purchase,
                                principal |-> r.principal, count |-> r.count, status |-> "active"]},
                 ![s].allocations = I!Schedule(r.key, charge, r.count, r.first)]
            /\ Goto(s, "commit")
            /\ UNCHANGED <<committed, locks, request, scan, summary>>
       ELSE EndUnchanged(s, "rejected")

-----------------------------------------------------------------------------
(* RegisterStatement: account, statement, the allocations of the cycle *)

RequestedCycle(s) == <<Card(s), request[s].month>>

InsertStatement(s) ==
  /\ Ready(s, "bill")
  /\ writes' = [writes EXCEPT ![s].billed = {RequestedCycle(s)}]
  /\ Goto(s, "find")
  /\ UNCHANGED <<committed, locks, request, scan, summary>>

\* UPDATE ... WHERE status='pending': the rows its snapshot shows, in some order.
FindAllocations(s) ==
  /\ Ready(s, "find")
  /\ \E order \in SetToSeqs({a \in allocations : a.cycle = RequestedCycle(s) /\ a.status = "pending"}) :
       scan' = [scan EXCEPT ![s] = order]
  /\ Goto(s, "take_up")
  /\ UNCHANGED <<committed, locks, request, writes, summary>>

\* Each row is waited for, and looked at again as it is then.
TakeUp(s) ==
  LET a == Head(scan[s]) IN
  /\ Ready(s, "take_up")
  /\ IF scan[s] = <<>>
       THEN Goto(s, "commit") /\ UNCHANGED <<locks, scan, writes>>
       ELSE /\ scan' = [scan EXCEPT ![s] = Tail(@)]
            /\ IF a \in allocations
                 THEN /\ Take(s, {RowOf(a)})
                      /\ writes' = [writes EXCEPT
                           ![s].allocations = @ \cup {[a EXCEPT !.status = "statement_allocated"]}]
                 ELSE UNCHANGED <<locks, writes>>
            /\ UNCHANGED pc
  /\ UNCHANGED <<committed, request, summary>>

-----------------------------------------------------------------------------
(* RecordInstallmentPrincipalPayment: allocation, plan, key, payment *)

LockAllocation(s) ==
  /\ Ready(s, "allocation")
  /\ IF Target(s) # {}
       THEN /\ Take(s, {RowOf(a) : a \in Target(s)})
            /\ Goto(s, "plan")
            /\ UNCHANGED <<committed, request, scan, writes, summary>>
       ELSE EndUnchanged(s, "rejected")

\* Mutant: the plan is read without FOR UPDATE.
ReadPlan(s) ==
  /\ pc[s] = "plan"
  /\ Goto(s, "claim")
  /\ UNCHANGED <<committed, locks, request, scan, writes, summary>>

LockPlan(s) ==
  /\ Ready(s, "plan")
  /\ Take(s, PlanRows(s))
  /\ Goto(s, "claim")
  /\ UNCHANGED <<committed, request, scan, writes, summary>>

\* The checks, the row, and what the sums over the payments say of allocation and plan.
Pay(s) ==
  LET r == request[s]
      a == CHOOSE b \in Target(s) : TRUE
      plan == I!PlanOf(a)
  IN
  /\ Ready(s, "pay")
  /\ IF plan.status = "active" /\ a.status # "paid" /\ I!FitsUnpaid(a, r.amount)
       THEN /\ writes' = [writes EXCEPT
                 ![s].payments = {[id |-> r.key, plan |-> a.plan, number |-> a.number,
                                   amount |-> r.amount]},
                 ![s].allocations = IF r.amount = I!Unpaid(a) THEN {[a EXCEPT !.status = "paid"]} ELSE {},
                 ![s].plans = IF I!CompletesPlan(a, r.amount)
                                THEN {[plan EXCEPT !.status = "completed"]} ELSE {}]
            /\ Goto(s, "commit")
            /\ UNCHANGED <<committed, locks, request, scan, summary>>
       ELSE EndUnchanged(s, "rejected")

-----------------------------------------------------------------------------
(* GetInstallmentPlanSummary: two queries, two snapshots *)

ReadSummaryPlan(s) ==
  /\ Ready(s, "read_plan")
  /\ \/ \E p \in plans :
          /\ p.id = request[s].plan
          /\ summary' = [summary EXCEPT ![s] = [status |-> p.status, outstanding |-> p.principal]]
          /\ Goto(s, "read_payments")
          /\ UNCHANGED <<committed, locks, request, scan, writes>>
     \/ /\ \A p \in plans : p.id # request[s].plan
        /\ EndUnchanged(s, "rejected")

ReadSummaryPayments(s) ==
  /\ Ready(s, "read_payments")
  /\ \E p \in plans :
       /\ p.id = request[s].plan
       /\ summary' = [summary EXCEPT ![s].outstanding = @ - I!PaidPrincipal(p)]
  /\ Goto(s, "done")
  /\ UNCHANGED <<committed, locks, request, scan, writes>>

-----------------------------------------------------------------------------
(* Specification *)

Init ==
  /\ I!Init
  /\ locks = [s \in Sessions |-> {}]
  /\ pc = [s \in Sessions |-> "idle"]
  /\ request \in Workloads
  /\ scan = [s \in Sessions |-> <<>>]
  /\ writes = [s \in Sessions |-> NoWrites]
  /\ summary = [s \in Sessions |-> NoSummary]

Progress(s) ==
  \/ LockAccount(s) \/ ClaimMutation(s) \/ Commit(s)
  \/ ValidatePurchase(s) \/ InsertPlan(s)
  \/ InsertStatement(s) \/ FindAllocations(s) \/ TakeUp(s)
  \/ LockAllocation(s) \/ LockPlan(s) \/ Pay(s)
  \/ ReadSummaryPlan(s) \/ ReadSummaryPayments(s)

\* The connection breaks or the process dies.
Fail(s) == pc[s] \notin Ended \cup {"idle"} /\ EndUnchanged(s, "failed")

\* The ledger posts purchases and archives cards under the account's lock.
AccountFree(card) == \A s \in Sessions : AccountRow(card) \notin locks[s]

PostCharge ==
  /\ \E purchase \in Purchases, card \in Cards, amount \in Principals :
       AccountFree(card) /\ I!PostCharge(purchase, card, amount)
  /\ UNCHANGED <<locks, pc, request, scan, writes, summary>>

ArchiveAccount ==
  /\ \E card \in Cards : AccountFree(card) /\ I!ArchiveAccount(card)
  /\ UNCHANGED <<locks, pc, request, scan, writes, summary>>

AllServed == (\A s \in Sessions : pc[s] \in Ended) /\ UNCHANGED vars

Next ==
  \/ \E s \in Sessions : Begin(s)
  \/ \E s \in Sessions : Progress(s)
  \/ \E s \in Sessions : Fail(s)
  \/ PostCharge
  \/ ArchiveAccount
  \/ AllServed

Spec == Init /\ [][Next]_vars

-----------------------------------------------------------------------------
(* Properties *)

\* The commits are the atomic operations of Installments: the last payments of
\* a plan, made at once, complete it; a statement and a plan, or a statement
\* and a payment, for one cycle do not lose each other's change of an allocation.
ImplementsInstallments == I!Init /\ [][I!Next]_I!vars

\* Accounts, then allocations, then plans, then keys: the lock orders of plans,
\* statements and payments never close a cycle of waits.
NoWaitCycle ==
  \A waiting \in (SUBSET Sessions) \ {{}} : \E s \in waiting : WaitsFor(s) \cap waiting = {}

\* A summary says that a plan is completed exactly when nothing of it is
\* outstanding (0012:66-70 refuse to commit anything else).
SummariesAreConsistent ==
  \A s \in Sessions :
    pc[s] = "done" /\ summary[s] # NoSummary =>
      (summary[s].status = "completed" <=> summary[s].outstanding = 0)

=============================================================================
