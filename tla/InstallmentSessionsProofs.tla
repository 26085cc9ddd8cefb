---------------------- MODULE InstallmentSessionsProofs ----------------------
(***************************************************************************)
(* Theorems of InstallmentSessions, for any sessions with any requests.    *)
(* SInv follows a session from its locks to its commit: it holds the rows  *)
(* that its checks read and that it writes, so that what others commit     *)
(* leaves its checks and its rows as they are, and the commit is the       *)
(* operation of Installments on the tables as they are then.  A statement  *)
(* takes its allocations one by one: what it has not reached yet it still  *)
(* has to look at (StatementOK).                                           *)
(*                                                                         *)
(* IP is the instance I with the theorems about it.                        *)
(***************************************************************************)
EXTENDS InstallmentSessions, SumTheorems

IP == INSTANCE InstallmentsProofs

-----------------------------------------------------------------------------
(* I and IP are the same *)

LEMMA SameTerms ==
  /\ \A f : I!SumFunction(f) = IP!SumFunction(f)
  /\ I!Months = Months /\ IP!Months = Months
  /\ I!MonthCycles = Cards \X Months /\ IP!MonthCycles = Cards \X Months
  /\ \A principal, count, first : /\ I!Schedulable(principal, count, first) <=> Schedulable(principal, count, first)
                                  /\ IP!Schedulable(principal, count, first) <=> Schedulable(principal, count, first)
BY DEF I!SumFunction, I!SumFunctionOnSet, I!FoldFunctionOnSet, I!MapThenFoldSet,
       IP!SumFunction, IP!SumFunctionOnSet, IP!FoldFunctionOnSet, IP!MapThenFoldSet,
       I!Months, IP!Months, Months, I!MonthCycles, IP!MonthCycles,
       I!Schedulable, IP!Schedulable, Schedulable

LEMMA SameAmounts ==
  /\ \A a : I!Unpaid(a) = IP!Unpaid(a)
  /\ \A p : I!Outstanding(p) = IP!Outstanding(p)
BY SameTerms DEF I!Unpaid, I!Paid, I!PaymentsTo, I!Outstanding, I!PaidPrincipal, I!PaymentsOf,
                 IP!Unpaid, IP!Paid, IP!PaymentsTo, IP!Outstanding, IP!PaidPrincipal, IP!PaymentsOf

LEMMA SameNext == I!Next => IP!Next
<1> SUFFICES ASSUME I!Next PROVE IP!Next
  OBVIOUS
<1>1. CASE \E purchase \in Purchases, card \in Cards, amount \in Principals :
             I!PostCharge(purchase, card, amount)
  BY <1>1 DEF I!PostCharge, IP!PostCharge, IP!Next
<1>2. CASE \E card \in Cards : I!ArchiveAccount(card)
  BY <1>2 DEF I!ArchiveAccount, IP!ArchiveAccount, IP!Next
<1>3. ASSUME NEW key \in Keys, NEW charge \in charges, NEW count \in 1..MaxInstallments,
             NEW first \in I!Months, I!CreateInstallmentPlan(key, charge, count, first)
      PROVE  IP!Next
  <2>1. IP!CreateInstallmentPlan(key, charge, count, first)
    BY <1>3 DEF I!CreateInstallmentPlan, I!Unclaimed, I!Schedulable, I!Unplanned, I!Schedule,
                I!InstallmentPrincipal, I!InitialStatus,
                IP!CreateInstallmentPlan, IP!Unclaimed, IP!Schedulable, IP!Unplanned, IP!Schedule,
                IP!InstallmentPrincipal, IP!InitialStatus
  <2> QED
    BY <2>1, SameTerms DEF IP!Next
<1>4. ASSUME NEW cycle \in I!MonthCycles, I!RegisterStatement(cycle)
      PROVE  IP!Next
  <2>1. IP!RegisterStatement(cycle)
    BY <1>4 DEF I!RegisterStatement, I!TakenUp, IP!RegisterStatement, IP!TakenUp
  <2> QED
    BY <2>1, SameTerms DEF IP!Next
<1>5. ASSUME NEW key \in Keys, NEW a \in allocations, NEW amount \in Amounts,
             I!RecordPrincipalPayment(key, a, amount)
      PROVE  IP!Next
  <2>1. IP!RecordPrincipalPayment(key, a, amount)
    BY <1>5, SameAmounts, Zenon
       DEF I!RecordPrincipalPayment, I!Unclaimed, I!PlanOf, I!FitsUnpaid, I!CompletesPlan,
           IP!RecordPrincipalPayment, IP!Unclaimed, IP!PlanOf, IP!FitsUnpaid, IP!CompletesPlan
  <2> QED
    BY <2>1 DEF IP!Next
<1> QED
  BY <1>1, <1>2, <1>3, <1>4, <1>5 DEF I!Next

LEMMA Assumed == IP!BoundAssumption /\ IP!PrincipalAssumption
BY BoundAssumption, PrincipalAssumption DEF IP!BoundAssumption, IP!PrincipalAssumption

LEMMA CommittedRowsAreSound ==
  /\ I!Init => IP!IInv /\ IP!MoneyInv
  /\ IP!IInv /\ IP!MoneyInv /\ [I!Next]_I!vars => IP!IInv' /\ IP!MoneyInv'
<1>1. I!Init => IP!Init
  BY DEF I!Init, IP!Init
<1>2. I!Init => IP!IInv /\ IP!MoneyInv
  BY <1>1, Assumed, IP!InitIInv, IP!InitMoney
<1>3. [I!Next]_I!vars => [IP!Next]_IP!vars
  BY SameNext DEF I!vars, IP!vars
<1>4. IP!IInv /\ IP!MoneyInv /\ [IP!Next]_IP!vars => IP!IInv' /\ IP!MoneyInv'
  BY Assumed, IP!NextPreservesIInv, IP!NextPreservesMoney
<1> QED
  BY <1>2, <1>3, <1>4

\* What the invariant of Installments says of the committed rows.
LEMMA CommittedFacts ==
  ASSUME IP!IInv
  PROVE  /\ cardStatus \in [Cards -> {"active", "archived"}]
         /\ \A c \in charges : /\ c.id \in Purchases /\ c.card \in Cards /\ c.amount \in Principals
                               /\ c = [id |-> c.id, card |-> c.card, amount |-> c.amount]
         /\ \A p \in plans : <<"create_installment_plan", p.id>> \in claims
         /\ \A p, q \in plans : p.id = q.id \/ p.purchase = q.purchase => p = q
         /\ \A a \in allocations : \E p \in plans : p.id = a.plan
         /\ \A a, b \in allocations : a.plan = b.plan /\ a.number = b.number => a = b
         /\ \A a \in allocations : a.cycle \in Cards \X Months
BY SameTerms DEF IP!IInv, IP!TypeOK, IP!ChargeRow, IP!AllocationRow, IP!PlansAreClaimed, IP!PlansAreDistinct,
                 IP!AllocationsArePlanned, IP!NumbersAreDistinct

-----------------------------------------------------------------------------
(* The invariant of the sessions *)

Request == PlanRequest \cup PaymentRequest \cup StatementRequest \cup SummaryRequest

\* What a request r asks for, and what its session has at the statement p.
Plans(r) == r.operation = "create_installment_plan"

Pays(r) == r.operation = "record_installment_principal_payment"

Bills(r) == r.operation = "register"

HasAccount(r, p) ==
  \/ Plans(r) /\ p \in {"purchase", "claim", "schedule", "commit"}
  \/ Bills(r) /\ p \in {"bill", "find", "take_up", "commit"}

HasAllocation(r, p) == Pays(r) /\ p \in {"plan", "claim", "pay", "commit"}

HasPlan(r, p) == Pays(r) /\ p \in {"claim", "pay", "commit"}

Claims(r, p) ==
  \/ Plans(r) /\ p \in {"schedule", "commit"}
  \/ Pays(r) /\ p \in {"pay", "commit"}

Claim(r) == <<r.operation, r.key>>

PcOK(r, p) ==
  \/ p \in Ended \cup {"idle"}
  \/ Plans(r) /\ p \in {"account", "purchase", "claim", "schedule", "commit"}
  \/ Bills(r) /\ p \in {"account", "bill", "find", "take_up", "commit"}
  \/ Pays(r) /\ p \in {"allocation", "plan", "claim", "pay", "commit"}
  \/ r.operation = "summary" /\ p \in {"read_plan", "read_payments"}

TargetOf(r) == {a \in allocations : a.plan = r.plan /\ a.number = r.number}

\* A session holds what its checks have read; a statement also the allocations it takes up.
Held(r, p, w) ==
  (IF HasAccount(r, p) THEN {AccountRow(r.card)} ELSE {})
    \cup (IF HasAllocation(r, p) THEN {AllocationRow(r.plan, r.number)} ELSE {})
    \cup (IF HasPlan(r, p) THEN {PlanRow(r.plan)} ELSE {})
    \cup (IF Bills(r) THEN {RowOf(b) : b \in w.allocations} ELSE {})

LockOK(r, p, l, w) ==
  /\ l = Held(r, p, w)
  /\ HasAccount(r, p) => cardStatus[r.card] = "active"
  /\ HasAllocation(r, p) => TargetOf(r) # {}

ClaimOK(r, p, w) ==
  /\ w.claims = IF Claims(r, p) THEN {Claim(r)} ELSE {}
  /\ Claims(r, p) => Claim(r) \notin claims

\* CreateInstallmentPlan
ChargeOf(r) == [id |-> r.purchase, card |-> r.card, amount |-> r.principal]

NewPlan(r) ==
  [id |-> r.key, card |-> r.card, purchase |-> r.purchase, principal |-> r.principal,
   count |-> r.count, status |-> "active"]

PlanOK(r, p, w) ==
  Plans(r) =>
    /\ p \in {"claim", "schedule", "commit"} => ChargeOf(r) \in charges
    /\ IF p = "commit"
         THEN /\ Schedulable(r.principal, r.count, r.first) /\ I!Unplanned(r.purchase)
              /\ w.plans = {NewPlan(r)}
              /\ w.allocations = I!Schedule(r.key, ChargeOf(r), r.count, r.first)
         ELSE w.plans = {} /\ w.allocations = {}
    /\ w.billed = {} /\ w.payments = {}

\* RegisterStatement
CycleOf(r) == <<r.card, r.month>>

PendingOf(r) == {a \in allocations : a.cycle = CycleOf(r) /\ a.status = "pending"}

Allocated(a) == [a EXCEPT !.status = "statement_allocated"]

ScanOK(r, c) ==
  \A i \in DOMAIN c : /\ c[i].cycle = CycleOf(r) /\ c[i].status = "pending"
                       /\ \E b \in allocations : RowOf(b) = RowOf(c[i]) /\ b.cycle = c[i].cycle

StatementOK(r, p, w, c) ==
  /\ c # <<>> => Bills(r) /\ p = "take_up"
  /\ Bills(r) =>
       /\ w.billed = IF p \in {"find", "take_up", "commit"} THEN {CycleOf(r)} ELSE {}
       /\ \A b \in w.allocations : \E a \in PendingOf(r) : b = Allocated(a)
       /\ w.allocations # {} => p \in {"take_up", "commit"}
       /\ p \in {"take_up", "commit"} =>
            \A a \in PendingOf(r) : Allocated(a) \in w.allocations \/ \E i \in DOMAIN c : c[i] = a
       /\ ScanOK(r, c)
       /\ w.plans = {} /\ w.payments = {}

\* RecordInstallmentPrincipalPayment
Accepted(r, a) == I!PlanOf(a).status = "active" /\ a.status # "paid" /\ I!FitsUnpaid(a, r.amount)

NewPayment(r) == [id |-> r.key, plan |-> r.plan, number |-> r.number, amount |-> r.amount]

PaidAllocations(r, a) == IF r.amount = I!Unpaid(a) THEN {[a EXCEPT !.status = "paid"]} ELSE {}

CompletedPlans(r, a) ==
  IF I!CompletesPlan(a, r.amount) THEN {[I!PlanOf(a) EXCEPT !.status = "completed"]} ELSE {}

PaymentOK(r, p, w) ==
  Pays(r) =>
    /\ IF p = "commit"
         THEN \E a \in TargetOf(r) :
                /\ Accepted(r, a)
                /\ w.payments = {NewPayment(r)}
                /\ w.allocations = PaidAllocations(r, a)
                /\ w.plans = CompletedPlans(r, a)
         ELSE w.payments = {} /\ w.allocations = {} /\ w.plans = {}
    /\ w.billed = {}

SummaryOK(r, w) == r.operation = "summary" => w = NoWrites

Fine(r, p, l, w, c) ==
  /\ PcOK(r, p) /\ LockOK(r, p, l, w) /\ ClaimOK(r, p, w)
  /\ PlanOK(r, p, w) /\ StatementOK(r, p, w, c) /\ PaymentOK(r, p, w) /\ SummaryOK(r, w)

SessionOK(s) == Fine(request[s], pc[s], locks[s], writes[s], scan[s])

\* Two sessions hold no row in common and no key.
Apart(s, o) ==
  /\ locks[s] \cap locks[o] = {}
  /\ Claims(request[s], pc[s]) /\ Claims(request[o], pc[o]) => Claim(request[s]) # Claim(request[o])

HasFields(w) ==
  w = [billed |-> w.billed, plans |-> w.plans, allocations |-> w.allocations,
       payments |-> w.payments, claims |-> w.claims]

Shape ==
  /\ request \in [Sessions -> Request]
  /\ pc = [s \in Sessions |-> pc[s]]
  /\ locks = [s \in Sessions |-> locks[s]]
  /\ writes = [s \in Sessions |-> writes[s]]
  /\ scan = [s \in Sessions |-> scan[s]]
  /\ \A s \in Sessions : HasFields(writes[s]) /\ scan[s] \in Seq(IP!AllocationRow)

ChargesAreDistinct == \A c, d \in charges : c.id = d.id => c = d

RowsOK == IP!IInv /\ IP!MoneyInv /\ ChargesAreDistinct

SInv ==
  /\ RowsOK
  /\ Shape
  /\ \A s \in Sessions : SessionOK(s)
  /\ \A s, o \in Sessions : s # o => Apart(s, o)

-----------------------------------------------------------------------------
(* Steps of a session *)

LEMMA RowsStay ==
  ASSUME RowsOK, UNCHANGED committed
  PROVE  RowsOK' /\ UNCHANGED I!vars
<1>1. /\ UNCHANGED <<cardStatus, charges, billed, plans, allocations, principalPayments, claims>>
      /\ UNCHANGED I!vars
  BY DEF committed, I!vars
<1>2. IP!IInv' /\ IP!MoneyInv'
  BY <1>1, CommittedRowsAreSound DEF RowsOK
<1> QED
  BY <1>1, <1>2 DEF RowsOK, ChargesAreDistinct

\* While nothing is committed, what a session may have depends on what it has.
LEMMA Moved ==
  ASSUME UNCHANGED <<committed, request>>, NEW s, NEW p, NEW l, NEW w, NEW c,
         pc'[s] = p, locks'[s] = l, writes'[s] = w, scan'[s] = c
  PROVE  SessionOK(s)' <=> Fine(request[s], p, l, w, c)
<1>1. /\ UNCHANGED <<cardStatus, charges, billed, plans, allocations, principalPayments, claims>>
      /\ UNCHANGED request
  BY DEF committed
<1> DEFINE r == request[s]
<1>2. PcOK(request[s], pc[s])' <=> PcOK(r, p)
  BY <1>1 DEF PcOK, Plans, Pays, Bills, Ended
<1>3. LockOK(request[s], pc[s], locks[s], writes[s])' <=> LockOK(r, p, l, w)
  BY <1>1 DEF LockOK, Held, HasAccount, HasAllocation, HasPlan, Plans, Pays, Bills, TargetOf, RowOf,
              AccountRow, PlanRow, AllocationRow
<1>4. ClaimOK(request[s], pc[s], writes[s])' <=> ClaimOK(r, p, w)
  BY <1>1 DEF ClaimOK, Claims, Claim, Plans, Pays
<1>5. PlanOK(request[s], pc[s], writes[s])' <=> PlanOK(r, p, w)
  BY <1>1 DEF PlanOK, Plans, ChargeOf, NewPlan, Schedulable, I!Unplanned, I!Schedule, I!InitialStatus,
              I!InstallmentPrincipal
<1>6. StatementOK(request[s], pc[s], writes[s], scan[s])' <=> StatementOK(r, p, w, c)
  BY <1>1 DEF StatementOK, Bills, CycleOf, PendingOf, Allocated, ScanOK, RowOf, AllocationRow
<1>7. PaymentOK(request[s], pc[s], writes[s])' <=> PaymentOK(r, p, w)
  BY <1>1 DEF PaymentOK, Pays, TargetOf, Accepted, NewPayment, PaidAllocations, CompletedPlans,
              I!FitsUnpaid, I!CompletesPlan, I!PlanOf, I!Unpaid, I!Paid, I!PaymentsTo, I!Outstanding,
              I!PaidPrincipal, I!PaymentsOf
<1>8. SummaryOK(request[s], writes[s])' <=> SummaryOK(r, w)
  BY <1>1 DEF SummaryOK, NoWrites
<1> QED
  BY <1>2, <1>3, <1>4, <1>5, <1>6, <1>7, <1>8 DEF SessionOK, Fine

LEMMA SessionIs ==
  ASSUME SInv, NEW s \in Sessions
  PROVE  /\ PcOK(request[s], pc[s]) /\ LockOK(request[s], pc[s], locks[s], writes[s])
         /\ ClaimOK(request[s], pc[s], writes[s]) /\ PlanOK(request[s], pc[s], writes[s])
         /\ StatementOK(request[s], pc[s], writes[s], scan[s]) /\ PaymentOK(request[s], pc[s], writes[s])
         /\ SummaryOK(request[s], writes[s])
         /\ request[s] \in Request /\ HasFields(writes[s]) /\ scan[s] \in Seq(IP!AllocationRow)
         /\ RowsOK /\ Shape
BY DEF SInv, SessionOK, Fine, Shape

\* A step of s that writes p, l, w and c, and commits nothing.
Steps(s, p, l, w, c) ==
  /\ UNCHANGED <<committed, request>>
  /\ pc' = [pc EXCEPT ![s] = p] /\ locks' = [locks EXCEPT ![s] = l]
  /\ writes' = [writes EXCEPT ![s] = w] /\ scan' = [scan EXCEPT ![s] = c]

LEMMA SessionStep ==
  ASSUME SInv, NEW s \in Sessions, NEW p, NEW l, NEW w, NEW c, Steps(s, p, l, w, c),
         HasFields(w), c \in Seq(IP!AllocationRow), Fine(request[s], p, l, w, c),
         \A o \in Sessions \ {s} :
           /\ l \cap locks[o] = {}
           /\ Claims(request[s], p) /\ Claims(request[o], pc[o]) => Claim(request[s]) # Claim(request[o])
  PROVE  SInv' /\ UNCHANGED I!vars
<1>1. /\ UNCHANGED <<committed, request>> /\ request' = request
      /\ pc' = [pc EXCEPT ![s] = p] /\ locks' = [locks EXCEPT ![s] = l]
      /\ writes' = [writes EXCEPT ![s] = w] /\ scan' = [scan EXCEPT ![s] = c]
  BY DEF Steps
<1>2. Shape
  BY DEF SInv
<1>3. /\ pc'[s] = p /\ locks'[s] = l /\ writes'[s] = w /\ scan'[s] = c
      /\ \A o \in Sessions \ {s} : /\ pc'[o] = pc[o] /\ locks'[o] = locks[o]
                                   /\ writes'[o] = writes[o] /\ scan'[o] = scan[o]
  BY <1>1, <1>2 DEF Shape
<1>4. RowsOK' /\ UNCHANGED I!vars
  BY <1>1, RowsStay DEF SInv
<1>5. Shape'
  <2>1. IP!AllocationRow' = IP!AllocationRow
    BY DEF IP!AllocationRow, IP!MonthCycles, IP!Months
  <2>2. /\ request' \in [Sessions -> Request]
        /\ pc' = [o \in Sessions |-> pc'[o]] /\ locks' = [o \in Sessions |-> locks'[o]]
        /\ writes' = [o \in Sessions |-> writes'[o]] /\ scan' = [o \in Sessions |-> scan'[o]]
    BY <1>1, <1>2 DEF Shape
  <2>3. ASSUME NEW o \in Sessions PROVE HasFields(writes[o])' /\ (scan[o] \in Seq(IP!AllocationRow))'
    <3>1. CASE o = s
      BY <1>3, <2>1, <3>1 DEF HasFields
    <3>2. CASE o # s
      BY <1>2, <1>3, <2>1, <3>2 DEF HasFields, Shape
    <3> QED
      BY <3>1, <3>2
  <2> QED
    BY <2>2, <2>3 DEF Shape
<1>6. ASSUME NEW o \in Sessions PROVE SessionOK(o)'
  <2>1. CASE o = s
    BY <1>1, <1>3, <2>1, Moved
  <2>2. CASE o # s
    <3>1. SessionOK(o)' <=> Fine(request[o], pc[o], locks[o], writes[o], scan[o])
      BY <1>1, <1>3, <2>2, Moved
    <3> QED
      BY <3>1 DEF SInv, SessionOK
  <2> QED
    BY <2>1, <2>2
<1>7. ASSUME NEW o \in Sessions, NEW u \in Sessions, o # u PROVE Apart(o, u)'
  <2>1. CASE o = s
    BY <1>1, <1>3, <1>7, <2>1 DEF Apart, Claims, Claim, Plans, Pays
  <2>2. CASE u = s
    BY <1>1, <1>3, <1>7, <2>2 DEF Apart, Claims, Claim, Plans, Pays
  <2>3. CASE o # s /\ u # s
    <3>1. Apart(o, u)
      BY <1>7 DEF SInv
    <3> QED
      BY <1>1, <1>3, <2>3, <3>1 DEF Apart, Claims, Claim, Plans, Pays
  <2> QED
    BY <2>1, <2>2, <2>3
<1>8. \A o \in Sessions : SessionOK(o)'
  BY <1>6
<1> QED
  BY <1>4, <1>5, <1>7, <1>8 DEF SInv

\* A session that takes no row and claims no key stays apart from the others.
LEMMA QuietStep ==
  ASSUME SInv, NEW s \in Sessions, NEW p, NEW l, NEW w, NEW c, Steps(s, p, l, w, c),
         HasFields(w), c \in Seq(IP!AllocationRow), Fine(request[s], p, l, w, c),
         l \subseteq locks[s], Claims(request[s], p) => Claims(request[s], pc[s])
  PROVE  SInv' /\ UNCHANGED I!vars
<1>1. ASSUME NEW o \in Sessions \ {s}
      PROVE  /\ l \cap locks[o] = {}
             /\ Claims(request[s], p) /\ Claims(request[o], pc[o]) => Claim(request[s]) # Claim(request[o])
  <2>1. Apart(s, o)
    BY DEF SInv
  <2> QED
    BY <2>1 DEF Apart
<1> QED
  BY <1>1, SessionStep

LEMMA Unaltered ==
  ASSUME Shape, NEW s \in Sessions
  PROVE  /\ pc = [pc EXCEPT ![s] = pc[s]] /\ locks = [locks EXCEPT ![s] = locks[s]]
         /\ writes = [writes EXCEPT ![s] = writes[s]] /\ scan = [scan EXCEPT ![s] = scan[s]]
BY DEF Shape

LEMMA NoWritesAre ==
  /\ HasFields(NoWrites)
  /\ NoWrites.billed = {} /\ NoWrites.plans = {} /\ NoWrites.allocations = {}
  /\ NoWrites.payments = {} /\ NoWrites.claims = {}
BY DEF NoWrites, HasFields

\* What a session has written and holds before its first row and after its end.
Bare == {"idle", "account", "allocation", "read_plan", "read_payments"} \cup Ended

LEMMA BareIsFine ==
  ASSUME NEW r \in Request, NEW p \in Bare, PcOK(r, p)
  PROVE  Fine(r, p, {}, NoWrites, <<>>)
<1>1. /\ ~ HasAccount(r, p) /\ ~ HasAllocation(r, p) /\ ~ HasPlan(r, p) /\ ~ Claims(r, p)
      /\ p \notin {"find", "take_up", "commit", "claim", "schedule"}
  BY DEF HasAccount, HasAllocation, HasPlan, Claims, Ended, Bare
<1>2. LockOK(r, p, {}, NoWrites)
  BY <1>1, NoWritesAre DEF LockOK, Held
<1>3. ClaimOK(r, p, NoWrites)
  BY <1>1, NoWritesAre DEF ClaimOK
<1>4. PlanOK(r, p, NoWrites) /\ PaymentOK(r, p, NoWrites)
  BY <1>1, NoWritesAre DEF PlanOK, PaymentOK
<1>5. StatementOK(r, p, NoWrites, <<>>)
  BY <1>1, NoWritesAre DEF StatementOK, ScanOK
<1>6. SummaryOK(r, NoWrites)
  BY DEF SummaryOK
<1> QED
  BY <1>2, <1>3, <1>4, <1>5, <1>6 DEF Fine

LEMMA BareHasNothing ==
  ASSUME SInv, NEW s \in Sessions, pc[s] \in Bare
  PROVE  locks[s] = {} /\ writes[s] = NoWrites /\ scan[s] = <<>>
<1> DEFINE r == request[s]
           p == pc[s]
           w == writes[s]
<1>1. /\ PcOK(r, p) /\ LockOK(r, p, locks[s], w) /\ ClaimOK(r, p, w) /\ PlanOK(r, p, w)
      /\ StatementOK(r, p, w, scan[s]) /\ PaymentOK(r, p, w) /\ SummaryOK(r, w) /\ HasFields(w)
  BY SessionIs
<1>2. /\ ~ HasAccount(r, p) /\ ~ HasAllocation(r, p) /\ ~ HasPlan(r, p) /\ ~ Claims(r, p)
      /\ p \notin {"find", "take_up", "commit", "claim", "schedule"}
  BY DEF HasAccount, HasAllocation, HasPlan, Claims, Ended, Bare
<1> HIDE DEF r, p, w
<1>3. Plans(r) \/ Bills(r) \/ Pays(r) \/ r.operation = "summary"
  BY SessionIs DEF r, Request, PlanRequest, PaymentRequest, StatementRequest, SummaryRequest, Plans, Bills, Pays
<1>4. w.claims = {} /\ scan[s] = <<>>
  BY <1>1, <1>2 DEF ClaimOK, StatementOK
<1>5. w.billed = {} /\ w.plans = {} /\ w.allocations = {} /\ w.payments = {}
  BY <1>1, <1>2, <1>3, NoWritesAre DEF PlanOK, StatementOK, PaymentOK, SummaryOK
<1>6. w = NoWrites
  BY <1>1, <1>4, <1>5 DEF HasFields, NoWrites
<1>7. locks[s] = {}
  BY <1>1, <1>2, <1>5 DEF LockOK, Held
<1> QED
  BY <1>4, <1>6, <1>7 DEF w

LEMMA EndPreservesSInv ==
  ASSUME SInv, NEW s \in Sessions, NEW outcome \in Ended, EndUnchanged(s, outcome)
  PROVE  SInv' /\ UNCHANGED I!vars
<1>1. Steps(s, outcome, {}, NoWrites, <<>>)
  BY DEF EndUnchanged, End, Goto, Steps
<1>2. Fine(request[s], outcome, {}, NoWrites, <<>>)
  BY BareIsFine, SessionIs DEF Bare, PcOK
<1>3. ~ Claims(request[s], outcome)
  BY DEF Claims, Ended
<1>4. <<>> \in Seq(IP!AllocationRow)
  OBVIOUS
<1> QED
  BY <1>1, <1>2, <1>3, <1>4, NoWritesAre, QuietStep

\* From one bare statement to another.
LEMMA BareStep ==
  ASSUME SInv, NEW s \in Sessions, pc[s] \in Bare, NEW p \in Bare, PcOK(request[s], p),
         Goto(s, p), UNCHANGED <<committed, locks, request, scan, writes>>
  PROVE  SInv' /\ UNCHANGED I!vars
<1>1. locks[s] = {} /\ writes[s] = NoWrites /\ scan[s] = <<>>
  BY BareHasNothing
<1>2. Steps(s, p, {}, NoWrites, <<>>)
  BY <1>1, SessionIs, Unaltered DEF Steps, Goto
<1>3. Fine(request[s], p, {}, NoWrites, <<>>)
  BY BareIsFine, SessionIs
<1>4. ~ Claims(request[s], p)
  BY DEF Claims, Ended, Bare
<1>5. <<>> \in Seq(IP!AllocationRow)
  OBVIOUS
<1> QED
  BY <1>2, <1>3, <1>4, <1>5, NoWritesAre, QuietStep

-----------------------------------------------------------------------------
(* Statements *)

LEMMA Begun ==
  ASSUME SInv, NEW s \in Sessions, Begin(s)
  PROVE  SInv' /\ UNCHANGED I!vars
<1>1. FirstStatement(request[s]) \in Bare /\ PcOK(request[s], FirstStatement(request[s]))
  BY SessionIs DEF Request, PlanRequest, PaymentRequest, StatementRequest, SummaryRequest, FirstStatement,
                   Bare, PcOK, Plans, Pays, Bills
<1> QED
  BY <1>1, BareStep DEF Begin, Bare

LEMMA SummaryRead ==
  ASSUME SInv, NEW s \in Sessions, ReadSummaryPlan(s) \/ ReadSummaryPayments(s)
  PROVE  SInv' /\ UNCHANGED I!vars
<1>1. PcOK(request[s], pc[s])
  BY SessionIs
<1>2. CASE ReadSummaryPlan(s)
  <2>1. pc[s] = "read_plan" /\ request[s].operation = "summary"
    BY <1>1, <1>2 DEF ReadSummaryPlan, Ready, PcOK, Ended
  <2>2. CASE Goto(s, "read_payments") /\ UNCHANGED <<committed, locks, request, scan, writes>>
    <3>1. PcOK(request[s], "read_payments")
      BY <2>1 DEF PcOK
    <3> QED
      BY <2>1, <2>2, <3>1, BareStep DEF Bare
  <2>3. CASE EndUnchanged(s, "rejected")
    BY <2>3, EndPreservesSInv DEF Ended
  <2> QED
    BY <1>2, <2>2, <2>3 DEF ReadSummaryPlan
<1>3. CASE ReadSummaryPayments(s)
  BY <1>3, BareStep DEF ReadSummaryPayments, Ready, Bare, Ended, PcOK
<1> QED
  BY <1>2, <1>3

LEMMA AccountLocked ==
  ASSUME SInv, NEW s \in Sessions, LockAccount(s)
  PROVE  SInv' /\ UNCHANGED I!vars
<1> DEFINE r == request[s]
           p == IF r.operation = "register" THEN "bill" ELSE "purchase"
           l == {AccountRow(r.card)}
<1>1. pc[s] = "account" /\ Holders(s, {AccountRow(r.card)}) = {}
  BY DEF LockAccount, Ready, WaitsFor, Card
<1>2. locks[s] = {} /\ writes[s] = NoWrites /\ scan[s] = <<>>
  BY <1>1, BareHasNothing DEF Bare
<1>3. Plans(r) \/ Bills(r)
  BY <1>1, SessionIs DEF PcOK, Ended
<1>4. CASE cardStatus[r.card] = "active"
  <2>1. Steps(s, p, l, NoWrites, <<>>)
    BY <1>2, <1>4, SessionIs, Unaltered DEF LockAccount, Steps, Goto, Take, Card
  <2>2. PcOK(r, p)
    BY <1>3 DEF PcOK, Plans, Bills
  <2>3. /\ HasAccount(r, p) /\ ~ HasAllocation(r, p) /\ ~ HasPlan(r, p) /\ ~ Claims(r, p)
        /\ p \notin {"claim", "schedule", "find", "take_up", "commit"}
    BY <1>3 DEF HasAccount, HasAllocation, HasPlan, Claims, Plans, Bills, Pays
  <2> HIDE DEF p, r
  <2>4. LockOK(r, p, l, NoWrites)
    BY <1>4, <2>3, NoWritesAre DEF LockOK, Held
  <2>5. ClaimOK(r, p, NoWrites) /\ PlanOK(r, p, NoWrites) /\ PaymentOK(r, p, NoWrites)
    BY <2>3, NoWritesAre DEF ClaimOK, PlanOK, PaymentOK
  <2>6. StatementOK(r, p, NoWrites, <<>>) /\ SummaryOK(r, NoWrites)
    BY <2>3, NoWritesAre DEF StatementOK, ScanOK, SummaryOK
  <2>7. Fine(r, p, l, NoWrites, <<>>)
    BY <2>2, <2>4, <2>5, <2>6 DEF Fine
  <2>8. \A o \in Sessions \ {s} : l \cap locks[o] = {}
    BY <1>1 DEF Holders
  <2>9. <<>> \in Seq(IP!AllocationRow)
    OBVIOUS
  <2> QED
    BY <2>1, <2>3, <2>7, <2>8, <2>9, NoWritesAre, SessionStep DEF r
<1>5. CASE cardStatus[r.card] # "active"
  BY <1>5, EndPreservesSInv DEF LockAccount, Card, Ended
<1> QED
  BY <1>4, <1>5

\* A statement that only reads.
LEMMA ReadStep ==
  ASSUME SInv, NEW s \in Sessions, NEW p, Goto(s, p), UNCHANGED <<committed, locks, request, scan, writes>>,
         Fine(request[s], p, locks[s], writes[s], scan[s]),
         Claims(request[s], p) => Claims(request[s], pc[s])
  PROVE  SInv' /\ UNCHANGED I!vars
<1>1. Steps(s, p, locks[s], writes[s], scan[s])
  BY SessionIs, Unaltered DEF Steps, Goto
<1> QED
  BY <1>1, SessionIs, QuietStep

LEMMA PurchaseValidated ==
  ASSUME SInv, NEW s \in Sessions, ValidatePurchase(s)
  PROVE  SInv' /\ UNCHANGED I!vars
<1> DEFINE r == request[s]
           w == writes[s]
<1>1. /\ pc[s] = "purchase"
      /\ PcOK(r, "purchase") /\ LockOK(r, "purchase", locks[s], w) /\ ClaimOK(r, "purchase", w)
      /\ PlanOK(r, "purchase", w) /\ StatementOK(r, "purchase", w, scan[s])
      /\ PaymentOK(r, "purchase", w) /\ SummaryOK(r, w)
  BY SessionIs DEF ValidatePurchase, Ready
<1>2. Plans(r) /\ ~ Bills(r) /\ ~ Pays(r) /\ r.operation # "summary"
  BY <1>1 DEF PcOK, Ended, Plans, Bills, Pays
<1>3. ASSUME NEW c \in Purchase(s), c.amount = r.principal
      PROVE  ChargeOf(r) \in charges
  BY <1>3, CommittedFacts, SessionIs DEF Purchase, Card, ChargeOf, RowsOK
<1>4. CASE \E c \in Purchase(s) : c.amount = r.principal
  <2>1. ChargeOf(r) \in charges
    BY <1>3, <1>4
  <2>2. Goto(s, "claim") /\ UNCHANGED <<committed, locks, request, scan, writes>>
    BY <1>4 DEF ValidatePurchase
  <2> HIDE DEF r, w
  <2>3. LockOK(r, "claim", locks[s], w)
    BY <1>1, <1>2 DEF LockOK, Held, HasAccount, HasAllocation, HasPlan
  <2>4. ClaimOK(r, "claim", w) /\ PlanOK(r, "claim", w) /\ PaymentOK(r, "claim", w) /\ PcOK(r, "claim")
    BY <1>1, <1>2, <2>1 DEF ClaimOK, Claims, PlanOK, PaymentOK, PcOK
  <2>5. StatementOK(r, "claim", w, scan[s])
    BY <1>1, <1>2 DEF StatementOK
  <2>6. Fine(r, "claim", locks[s], w, scan[s]) /\ ~ Claims(r, "claim")
    BY <1>1, <2>3, <2>4, <2>5 DEF Fine, Claims
  <2> QED
    BY <2>2, <2>6, ReadStep DEF r, w
<1>5. CASE ~ \E c \in Purchase(s) : c.amount = r.principal
  BY <1>5, EndPreservesSInv DEF ValidatePurchase, Ended
<1> QED
  BY <1>4, <1>5

LEMMA KeyClaimed ==
  ASSUME SInv, NEW s \in Sessions, ClaimMutation(s)
  PROVE  SInv' /\ UNCHANGED I!vars
<1> DEFINE r == request[s]
           w == writes[s]
           p == IF IsPayment(s) THEN "pay" ELSE "schedule"
           u == [w EXCEPT !.claims = {Claim(r)}]
<1>1. /\ pc[s] = "claim" /\ KeyBlockers(s) = {}
      /\ PcOK(r, "claim") /\ LockOK(r, "claim", locks[s], w) /\ ClaimOK(r, "claim", w)
      /\ PlanOK(r, "claim", w) /\ StatementOK(r, "claim", w, scan[s])
      /\ PaymentOK(r, "claim", w) /\ SummaryOK(r, w) /\ HasFields(w)
  BY SessionIs DEF ClaimMutation, Ready, WaitsFor
<1>2. /\ Plans(r) \/ Pays(r)
      /\ ~ Bills(r) /\ r.operation # "summary"
      /\ Plans(r) => ~ Pays(r) /\ p = "schedule"
      /\ Pays(r) => ~ Plans(r) /\ p = "pay"
  BY <1>1 DEF PcOK, Ended, Plans, Bills, Pays, IsPayment
<1>3. CASE Claim(r) \notin claims
  <2>1. Steps(s, p, locks[s], u, scan[s])
    BY <1>1, <1>3, SessionIs, Unaltered DEF ClaimMutation, Claim, Steps, Goto
  <2>2. /\ u.claims = {Claim(r)} /\ u.billed = w.billed /\ u.plans = w.plans
        /\ u.allocations = w.allocations /\ u.payments = w.payments /\ HasFields(u)
    BY <1>1 DEF HasFields
  <2> HIDE DEF r, w, p, u
  <2>3. LockOK(r, p, locks[s], u) /\ PcOK(r, p)
    BY <1>1, <1>2, <2>2 DEF LockOK, Held, HasAccount, HasAllocation, HasPlan, PcOK
  <2>4. ClaimOK(r, p, u) /\ PlanOK(r, p, u) /\ PaymentOK(r, p, u) /\ SummaryOK(r, u)
    BY <1>1, <1>2, <1>3, <2>2 DEF ClaimOK, Claims, PlanOK, PaymentOK, SummaryOK
  <2>5. StatementOK(r, p, u, scan[s])
    BY <1>1, <1>2 DEF StatementOK
  <2>6. Fine(r, p, locks[s], u, scan[s])
    BY <2>3, <2>4, <2>5 DEF Fine
  <2>7. ASSUME NEW o \in Sessions \ {s}
        PROVE  /\ locks[s] \cap locks[o] = {}
               /\ Claims(request[o], pc[o]) => Claim(r) # Claim(request[o])
    <3>1. Apart(s, o)
      BY DEF SInv
    <3>2. Claim(r) \notin writes[o].claims
      BY <1>1 DEF KeyBlockers, Claim, r
    <3>3. ClaimOK(request[o], pc[o], writes[o])
      BY SessionIs
    <3> QED
      BY <3>1, <3>2, <3>3 DEF Apart, ClaimOK
  <2> QED
    BY <2>1, <2>2, <2>6, <2>7, SessionIs, SessionStep DEF r
<1>4. CASE Claim(r) \in claims
  BY <1>4, EndPreservesSInv DEF ClaimMutation, Claim, Ended
<1> QED
  BY <1>3, <1>4

LEMMA PlanInserted ==
  ASSUME SInv, NEW s \in Sessions, InsertPlan(s)
  PROVE  SInv' /\ UNCHANGED I!vars
<1> DEFINE r == request[s]
           w == writes[s]
           rows == I!Schedule(r.key, ChargeOf(r), r.count, r.first)
           u == [w EXCEPT !.plans = {NewPlan(r)}, !.allocations = rows]
<1>1. /\ pc[s] = "schedule"
      /\ PcOK(r, "schedule") /\ LockOK(r, "schedule", locks[s], w) /\ ClaimOK(r, "schedule", w)
      /\ PlanOK(r, "schedule", w) /\ StatementOK(r, "schedule", w, scan[s]) /\ HasFields(w)
  BY SessionIs DEF InsertPlan, Ready
<1>2. Plans(r) /\ ~ Bills(r) /\ ~ Pays(r) /\ r.operation # "summary"
  BY <1>1 DEF PcOK, Ended, Plans, Bills, Pays
<1>3. CASE Schedulable(r.principal, r.count, r.first) /\ I!Unplanned(r.purchase)
  <2>1. Steps(s, "commit", locks[s], u, scan[s])
    BY <1>3, SessionIs, Unaltered DEF InsertPlan, Steps, Goto, NewPlan, ChargeOf
  <2>2. /\ u.plans = {NewPlan(r)} /\ u.allocations = rows
        /\ u.claims = w.claims /\ u.billed = w.billed /\ u.payments = w.payments /\ HasFields(u)
    <3>1. u = [w EXCEPT !.plans = {NewPlan(r)}, !.allocations = rows] /\ HasFields(w)
      BY <1>1
    <3>2. PICK x, y : x = {NewPlan(r)} /\ y = rows
      OBVIOUS
    <3> HIDE DEF u, w, rows, r
    <3>3. u = [w EXCEPT !.plans = x, !.allocations = y]
      BY <3>1, <3>2
    <3>4. PICK e, f, g, h, k : w = [billed |-> e, plans |-> f, allocations |-> g, payments |-> h, claims |-> k]
      BY <3>1 DEF HasFields
    <3>5. u = [billed |-> e, plans |-> x, allocations |-> y, payments |-> h, claims |-> k]
      BY <3>3, <3>4
    <3> QED
      BY <3>2, <3>4, <3>5 DEF HasFields
  <2>3. PlanOK(r, "commit", u)
    BY <1>1, <1>2, <1>3, <2>2 DEF PlanOK, rows
  <2> HIDE DEF r, w, u
  <2>4. LockOK(r, "commit", locks[s], u) /\ PcOK(r, "commit")
    BY <1>1, <1>2, <2>2 DEF LockOK, Held, HasAccount, HasAllocation, HasPlan, PcOK
  <2>5. ClaimOK(r, "commit", u) /\ PaymentOK(r, "commit", u) /\ SummaryOK(r, u)
    BY <1>1, <1>2, <2>2 DEF ClaimOK, Claims, PaymentOK, SummaryOK
  <2>6. StatementOK(r, "commit", u, scan[s])
    BY <1>1, <1>2 DEF StatementOK
  <2>7. Fine(r, "commit", locks[s], u, scan[s]) /\ Claims(r, "schedule")
    BY <1>2, <2>3, <2>4, <2>5, <2>6 DEF Fine, Claims
  <2> QED
    BY <1>1, <2>1, <2>2, <2>7, SessionIs, QuietStep DEF r
<1>4. CASE ~ (Schedulable(r.principal, r.count, r.first) /\ I!Unplanned(r.purchase))
  BY <1>4, EndPreservesSInv DEF InsertPlan, Ended
<1> QED
  BY <1>3, <1>4

LEMMA StatementInserted ==
  ASSUME SInv, NEW s \in Sessions, InsertStatement(s)
  PROVE  SInv' /\ UNCHANGED I!vars
<1> DEFINE r == request[s]
           w == writes[s]
           u == [w EXCEPT !.billed = {CycleOf(r)}]
<1>1. /\ pc[s] = "bill"
      /\ PcOK(r, "bill") /\ LockOK(r, "bill", locks[s], w) /\ ClaimOK(r, "bill", w)
      /\ StatementOK(r, "bill", w, scan[s]) /\ HasFields(w)
  BY SessionIs DEF InsertStatement, Ready
<1>2. Bills(r) /\ ~ Plans(r) /\ ~ Pays(r) /\ r.operation # "summary"
  BY <1>1 DEF PcOK, Ended, Plans, Bills, Pays
<1>3. Steps(s, "find", locks[s], u, scan[s])
  BY SessionIs, Unaltered DEF InsertStatement, Steps, Goto, RequestedCycle, CycleOf, Card
<1>4. /\ u.billed = {CycleOf(r)} /\ u.plans = w.plans /\ u.allocations = w.allocations
      /\ u.claims = w.claims /\ u.payments = w.payments /\ HasFields(u)
  BY <1>1 DEF HasFields
<1> HIDE DEF r, w, u
<1>5. LockOK(r, "find", locks[s], u) /\ PcOK(r, "find")
  BY <1>1, <1>2, <1>4 DEF LockOK, Held, HasAccount, HasAllocation, HasPlan, PcOK
<1>6. ClaimOK(r, "find", u) /\ PlanOK(r, "find", u) /\ PaymentOK(r, "find", u) /\ SummaryOK(r, u)
  BY <1>1, <1>2, <1>4 DEF ClaimOK, Claims, PlanOK, PaymentOK, SummaryOK
<1>7. StatementOK(r, "find", u, scan[s])
  BY <1>1, <1>2, <1>4 DEF StatementOK
<1>8. Fine(r, "find", locks[s], u, scan[s]) /\ ~ Claims(r, "find")
  BY <1>2, <1>5, <1>6, <1>7 DEF Fine, Claims
<1> QED
  BY <1>3, <1>4, <1>8, SessionIs, QuietStep DEF r

LEMMA AllocationsAre ==
  ASSUME RowsOK
  PROVE  \A a \in allocations :
           /\ a \in IP!AllocationRow
           /\ a = [plan |-> a.plan, number |-> a.number, cycle |-> a.cycle,
                   principal |-> a.principal, status |-> a.status]
           /\ RowOf(Allocated(a)) = RowOf(a) /\ Allocated(a).cycle = a.cycle
           /\ Allocated(a).status = "statement_allocated"
BY DEF RowsOK, IP!IInv, IP!TypeOK, IP!AllocationRow, RowOf, AllocationRow, Allocated

\* Each row of the snapshot is in the scan, which names no other.
LEMMA ScanIsPending ==
  ASSUME NEW S, IsFiniteSet(S), NEW order \in SetToSeqs(S)
  PROVE  order \in Seq(S) /\ \A a \in S : \E i \in DOMAIN order : order[i] = a
<1> DEFINE n == Cardinality(S)
<1>1. n \in Nat
  BY FS_CardinalityType
<1>2. IsFiniteSet(1..n) /\ Cardinality(1..n) = n
  BY <1>1, FS_Interval
<1>3. order \in [1..n -> S] /\ \A i, j \in 1..n : i # j => order[i] # order[j]
  BY DEF SetToSeqs
<1> HIDE DEF n
<1>4. order \in Injection(1..n, S)
  BY <1>3 DEF Injection, IsInjective
<1>5. order \in Surjection(1..n, S)
  BY <1>2, <1>4, FS_Injection DEF n
<1> QED
  BY <1>1, <1>3, <1>5 DEF Surjection

LEMMA AllocationsFound ==
  ASSUME SInv, NEW s \in Sessions, FindAllocations(s)
  PROVE  SInv' /\ UNCHANGED I!vars
<1> DEFINE r == request[s]
           w == writes[s]
<1>1. /\ pc[s] = "find" /\ RowsOK
      /\ PcOK(r, "find") /\ LockOK(r, "find", locks[s], w) /\ ClaimOK(r, "find", w)
      /\ StatementOK(r, "find", w, scan[s]) /\ HasFields(w)
  BY SessionIs DEF FindAllocations, Ready
<1>2. Bills(r) /\ ~ Plans(r) /\ ~ Pays(r) /\ r.operation # "summary"
  BY <1>1 DEF PcOK, Ended, Plans, Bills, Pays
<1>3. PICK order \in SetToSeqs(PendingOf(r)) : scan' = [scan EXCEPT ![s] = order]
  BY DEF FindAllocations, PendingOf, RequestedCycle, CycleOf, Card
<1>4. Steps(s, "take_up", locks[s], w, order)
  BY <1>3, SessionIs, Unaltered DEF FindAllocations, Steps, Goto
<1>5. IsFiniteSet(PendingOf(r))
  <2>1. IsFiniteSet(allocations)
    BY <1>1 DEF RowsOK, IP!MoneyInv, IP!IsFiniteSet, IsFiniteSet
  <2>2. PendingOf(r) \subseteq allocations
    BY DEF PendingOf
  <2> QED
    BY <2>1, <2>2, FS_Subset
<1>6. order \in Seq(PendingOf(r)) /\ \A a \in PendingOf(r) : \E i \in DOMAIN order : order[i] = a
  BY <1>5, ScanIsPending
<1> HIDE DEF r, w
<1>7. \A i \in DOMAIN order : order[i] \in PendingOf(r)
  BY <1>6
<1>8. LockOK(r, "take_up", locks[s], w) /\ PcOK(r, "take_up")
  BY <1>1, <1>2 DEF LockOK, Held, HasAccount, HasAllocation, HasPlan, PcOK
<1>9. ClaimOK(r, "take_up", w) /\ PlanOK(r, "take_up", w) /\ PaymentOK(r, "take_up", w) /\ SummaryOK(r, w)
  BY <1>1, <1>2 DEF ClaimOK, Claims, PlanOK, PaymentOK, SummaryOK
<1>10. StatementOK(r, "take_up", w, order)
  <2>1. ScanOK(r, order)
    BY <1>7 DEF ScanOK, PendingOf
  <2> QED
    BY <1>1, <1>2, <1>6, <2>1 DEF StatementOK
<1>11. Fine(r, "take_up", locks[s], w, order) /\ ~ Claims(r, "take_up")
  BY <1>2, <1>8, <1>9, <1>10 DEF Fine, Claims
<1>12. order \in Seq(IP!AllocationRow)
  <2>1. PendingOf(r) \subseteq IP!AllocationRow
    BY <1>1, AllocationsAre DEF PendingOf
  <2> QED
    BY <1>6, <2>1
<1> QED
  BY <1>1, <1>4, <1>11, <1>12, QuietStep DEF r, w

LEMMA ScanEnded ==
  ASSUME SInv, NEW s \in Sessions, TakeUp(s), scan[s] = <<>>
  PROVE  SInv' /\ UNCHANGED I!vars
<1> DEFINE r == request[s]
           w == writes[s]
<1>1. /\ pc[s] = "take_up"
      /\ PcOK(r, "take_up") /\ LockOK(r, "take_up", locks[s], w) /\ ClaimOK(r, "take_up", w)
      /\ StatementOK(r, "take_up", w, scan[s])
  BY SessionIs DEF TakeUp, Ready
<1>2. Bills(r) /\ ~ Plans(r) /\ ~ Pays(r) /\ r.operation # "summary"
  BY <1>1 DEF PcOK, Ended, Plans, Bills, Pays
<1>3. Goto(s, "commit") /\ UNCHANGED <<committed, locks, request, scan, writes>>
  BY DEF TakeUp
<1> HIDE DEF r, w
<1>4. LockOK(r, "commit", locks[s], w) /\ PcOK(r, "commit")
  BY <1>1, <1>2 DEF LockOK, Held, HasAccount, HasAllocation, HasPlan, PcOK
<1>5. ClaimOK(r, "commit", w) /\ PlanOK(r, "commit", w) /\ PaymentOK(r, "commit", w) /\ SummaryOK(r, w)
  BY <1>1, <1>2 DEF ClaimOK, Claims, PlanOK, PaymentOK, SummaryOK
<1>6. StatementOK(r, "commit", w, scan[s])
  BY <1>1, <1>2 DEF StatementOK
<1>7. Fine(r, "commit", locks[s], w, scan[s]) /\ ~ Claims(r, "commit")
  BY <1>2, <1>4, <1>5, <1>6 DEF Fine, Claims
<1> QED
  BY <1>3, <1>7, ReadStep DEF r, w

LEMMA TakenUp ==
  ASSUME SInv, NEW s \in Sessions, TakeUp(s), scan[s] # <<>>
  PROVE  SInv' /\ UNCHANGED I!vars
<1> DEFINE r == request[s]
           w == writes[s]
           a == Head(scan[s])
           c == Tail(scan[s])
           u == [w EXCEPT !.allocations = @ \cup {Allocated(a)}]
           l == locks[s] \cup {RowOf(a)}
<1>1. /\ pc[s] = "take_up" /\ Holders(s, {RowOf(a)}) = {} /\ RowsOK
      /\ PcOK(r, "take_up") /\ LockOK(r, "take_up", locks[s], w) /\ ClaimOK(r, "take_up", w)
      /\ StatementOK(r, "take_up", w, scan[s]) /\ HasFields(w) /\ scan[s] \in Seq(IP!AllocationRow)
  BY SessionIs DEF TakeUp, Ready, WaitsFor
<1>2. Bills(r) /\ ~ Plans(r) /\ ~ Pays(r) /\ r.operation # "summary"
  BY <1>1 DEF PcOK, Ended, Plans, Bills, Pays
<1>3. /\ a = scan[s][1] /\ 1 \in DOMAIN scan[s] /\ c \in Seq(IP!AllocationRow)
      /\ \A i \in DOMAIN c : i + 1 \in DOMAIN scan[s] /\ c[i] = scan[s][i + 1]
      /\ \A i \in DOMAIN scan[s] : i = 1 \/ (i - 1 \in DOMAIN c /\ c[i - 1] = scan[s][i])
  <2>1. PICK q \in Seq(IP!AllocationRow) : q = scan[s]
    BY <1>1
  <2>2. /\ Head(q) = q[1] /\ 1 \in DOMAIN q /\ Tail(q) \in Seq(IP!AllocationRow)
        /\ \A i \in DOMAIN Tail(q) : i + 1 \in DOMAIN q /\ Tail(q)[i] = q[i + 1]
        /\ \A i \in DOMAIN q : i = 1 \/ (i - 1 \in DOMAIN Tail(q) /\ Tail(q)[i - 1] = q[i])
    BY <2>1
  <2> QED
    BY <2>1, <2>2
<1>4. CASE a \in allocations
  <2>1. Steps(s, "take_up", l, u, c)
    BY <1>1, <1>4, SessionIs, Unaltered DEF TakeUp, Take, Steps, Allocated
  <2>2. /\ u.allocations = w.allocations \cup {Allocated(a)} /\ u.billed = w.billed /\ u.plans = w.plans
        /\ u.claims = w.claims /\ u.payments = w.payments /\ HasFields(u)
    <3>1. u = [w EXCEPT !.allocations = w.allocations \cup {Allocated(a)}] /\ HasFields(w)
      BY <1>1 DEF HasFields
    <3>2. PICK x : x = w.allocations \cup {Allocated(a)}
      OBVIOUS
    <3> HIDE DEF u, w, a
    <3>3. u = [w EXCEPT !.allocations = x]
      BY <3>1, <3>2
    <3>4. PICK e, f, g, h, k : w = [billed |-> e, plans |-> f, allocations |-> g, payments |-> h, claims |-> k]
      BY <3>1 DEF HasFields
    <3>5. u = [billed |-> e, plans |-> f, allocations |-> x, payments |-> h, claims |-> k]
      BY <3>3, <3>4
    <3>6. w.allocations = g
      BY <3>4
    <3> QED
      BY <3>2, <3>4, <3>5, <3>6 DEF HasFields
  <2>3. RowOf(Allocated(a)) = RowOf(a)
    BY <1>1, <1>4, AllocationsAre
  <2>4. Holders(s, {RowOf(a)}) = {}
    BY <1>1
  <2> HIDE DEF r, w, u, a, c
  <2>5. a \in PendingOf(r)
    BY <1>1, <1>2, <1>3, <1>4 DEF StatementOK, ScanOK, PendingOf
  <2>6. LockOK(r, "take_up", l, u) /\ PcOK(r, "take_up")
    BY <1>1, <1>2, <2>2, <2>3 DEF LockOK, Held, HasAccount, HasAllocation, HasPlan, PcOK
  <2>7. ClaimOK(r, "take_up", u) /\ PlanOK(r, "take_up", u) /\ PaymentOK(r, "take_up", u) /\ SummaryOK(r, u)
    BY <1>1, <1>2, <2>2 DEF ClaimOK, Claims, PlanOK, PaymentOK, SummaryOK
  <2>8. StatementOK(r, "take_up", u, c)
    <3>1. ScanOK(r, c)
      BY <1>1, <1>2, <1>3 DEF StatementOK, ScanOK
    <3>2. \A b \in PendingOf(r) : Allocated(b) \in u.allocations \/ \E i \in DOMAIN c : c[i] = b
      <4> SUFFICES ASSUME NEW b \in PendingOf(r), Allocated(b) \notin u.allocations
                   PROVE  \E i \in DOMAIN c : c[i] = b
        OBVIOUS
      <4>1. PICK i \in DOMAIN scan[s] : scan[s][i] = b
        BY <1>1, <1>2, <2>2 DEF StatementOK
      <4>2. i # 1
        BY <1>3, <2>2, <4>1
      <4> QED
        BY <1>3, <4>1, <4>2
    <3> QED
      BY <1>1, <1>2, <2>2, <2>5, <3>1, <3>2 DEF StatementOK
  <2>9. Fine(r, "take_up", l, u, c) /\ ~ Claims(r, "take_up")
    BY <1>2, <2>6, <2>7, <2>8 DEF Fine, Claims
  <2>10. \A o \in Sessions \ {s} : l \cap locks[o] = {}
    BY <2>4 DEF SInv, Apart, Holders
  <2> QED
    BY <1>3, <2>1, <2>2, <2>9, <2>10, SessionStep DEF r
<1>5. CASE a \notin allocations
  <2>1. Steps(s, "take_up", locks[s], w, c)
    BY <1>1, <1>5, SessionIs, Unaltered DEF TakeUp, Steps
  <2> HIDE DEF r, w, a, c
  <2>2. StatementOK(r, "take_up", w, c)
    <3>1. ScanOK(r, c)
      BY <1>1, <1>2, <1>3 DEF StatementOK, ScanOK
    <3>2. \A b \in PendingOf(r) : Allocated(b) \in w.allocations \/ \E i \in DOMAIN c : c[i] = b
      <4> SUFFICES ASSUME NEW b \in PendingOf(r), Allocated(b) \notin w.allocations
                   PROVE  \E i \in DOMAIN c : c[i] = b
        OBVIOUS
      <4>1. PICK i \in DOMAIN scan[s] : scan[s][i] = b
        BY <1>1, <1>2 DEF StatementOK
      <4>2. i # 1
        BY <1>3, <1>5, <4>1 DEF PendingOf
      <4> QED
        BY <1>3, <4>1, <4>2
    <3> QED
      BY <1>1, <1>2, <3>1, <3>2 DEF StatementOK
  <2>3. ClaimOK(r, "take_up", w) /\ PlanOK(r, "take_up", w) /\ PaymentOK(r, "take_up", w) /\ SummaryOK(r, w)
    BY <1>1, <1>2 DEF ClaimOK, Claims, PlanOK, PaymentOK, SummaryOK
  <2>4. Fine(r, "take_up", locks[s], w, c) /\ ~ Claims(r, "take_up")
    BY <1>1, <1>2, <2>2, <2>3 DEF Fine, Claims
  <2> QED
    BY <1>1, <1>3, <2>1, <2>4, QuietStep DEF r, w
<1> QED
  BY <1>4, <1>5

LEMMA AllocationLocked ==
  ASSUME SInv, NEW s \in Sessions, LockAllocation(s)
  PROVE  SInv' /\ UNCHANGED I!vars
<1> DEFINE r == request[s]
           row == AllocationRow(r.plan, r.number)
<1>1. pc[s] = "allocation" /\ Holders(s, {RowOf(a) : a \in TargetOf(r)}) = {}
  BY DEF LockAllocation, Ready, WaitsFor, Target, TargetOf
<1>2. locks[s] = {} /\ writes[s] = NoWrites /\ scan[s] = <<>>
  BY <1>1, BareHasNothing DEF Bare
<1>3. Pays(r) /\ ~ Plans(r) /\ ~ Bills(r) /\ r.operation # "summary"
  BY <1>1, SessionIs DEF PcOK, Ended, Plans, Bills, Pays
<1>4. CASE TargetOf(r) # {}
  <2>1. {RowOf(a) : a \in TargetOf(r)} = {row}
    BY <1>4 DEF TargetOf, RowOf
  <2>2. Steps(s, "plan", {row}, NoWrites, <<>>)
    BY <1>2, <1>4, <2>1, SessionIs, Unaltered DEF LockAllocation, Target, TargetOf, Steps, Goto, Take
  <2>3. /\ HasAllocation(r, "plan") /\ ~ HasAccount(r, "plan") /\ ~ HasPlan(r, "plan") /\ ~ Claims(r, "plan")
    BY <1>3 DEF HasAccount, HasAllocation, HasPlan, Claims
  <2>4. Holders(s, {row}) = {}
    BY <1>1, <2>1
  <2> HIDE DEF r
  <2>5. LockOK(r, "plan", {row}, NoWrites) /\ PcOK(r, "plan")
    BY <1>3, <1>4, <2>3 DEF LockOK, Held, PcOK
  <2>6. /\ ClaimOK(r, "plan", NoWrites) /\ PlanOK(r, "plan", NoWrites) /\ PaymentOK(r, "plan", NoWrites)
        /\ StatementOK(r, "plan", NoWrites, <<>>) /\ SummaryOK(r, NoWrites)
    BY <1>3, <2>3, NoWritesAre DEF ClaimOK, PlanOK, PaymentOK, StatementOK, SummaryOK
  <2>7. Fine(r, "plan", {row}, NoWrites, <<>>)
    BY <2>5, <2>6 DEF Fine
  <2>8. \A o \in Sessions \ {s} : {row} \cap locks[o] = {}
    BY <2>4 DEF Holders
  <2>9. <<>> \in Seq(IP!AllocationRow)
    OBVIOUS
  <2> QED
    BY <2>2, <2>3, <2>7, <2>8, <2>9, NoWritesAre, SessionStep DEF r
<1>5. CASE TargetOf(r) = {}
  BY <1>5, EndPreservesSInv DEF LockAllocation, Target, TargetOf, Ended
<1> QED
  BY <1>4, <1>5

LEMMA PlanLocked ==
  ASSUME SInv, NEW s \in Sessions, LockPlan(s)
  PROVE  SInv' /\ UNCHANGED I!vars
<1> DEFINE r == request[s]
           w == writes[s]
           l == locks[s] \cup {PlanRow(r.plan)}
<1>1. /\ pc[s] = "plan" /\ Holders(s, {PlanRow(r.plan)}) = {}
      /\ PcOK(r, "plan") /\ LockOK(r, "plan", locks[s], w) /\ ClaimOK(r, "plan", w)
      /\ PaymentOK(r, "plan", w) /\ StatementOK(r, "plan", w, scan[s])
  BY SessionIs DEF LockPlan, Ready, WaitsFor, PlanRows
<1>2. Pays(r) /\ ~ Plans(r) /\ ~ Bills(r) /\ r.operation # "summary"
  BY <1>1 DEF PcOK, Ended, Plans, Bills, Pays
<1>3. Steps(s, "claim", l, w, scan[s])
  BY SessionIs, Unaltered DEF LockPlan, PlanRows, Steps, Goto, Take
<1> HIDE DEF r, w
<1>4. LockOK(r, "claim", l, w) /\ PcOK(r, "claim")
  BY <1>1, <1>2 DEF LockOK, Held, HasAccount, HasAllocation, HasPlan, PcOK
<1>5. /\ ClaimOK(r, "claim", w) /\ PlanOK(r, "claim", w) /\ PaymentOK(r, "claim", w)
      /\ StatementOK(r, "claim", w, scan[s]) /\ SummaryOK(r, w)
  BY <1>1, <1>2 DEF ClaimOK, Claims, PlanOK, PaymentOK, StatementOK, SummaryOK
<1>6. Fine(r, "claim", l, w, scan[s]) /\ ~ Claims(r, "claim")
  BY <1>2, <1>4, <1>5 DEF Fine, Claims
<1>7. \A o \in Sessions \ {s} : l \cap locks[o] = {}
  BY <1>1 DEF Holders, SInv, Apart
<1> QED
  BY <1>3, <1>6, <1>7, SessionIs, SessionStep DEF r, w

LEMMA PaymentInserted ==
  ASSUME SInv, NEW s \in Sessions, Pay(s)
  PROVE  SInv' /\ UNCHANGED I!vars
<1> DEFINE r == request[s]
           w == writes[s]
           a == CHOOSE b \in Target(s) : TRUE
           x == {NewPayment(r)}
           y == PaidAllocations(r, a)
           z == CompletedPlans(r, a)
           u == [w EXCEPT !.payments = x, !.allocations = y, !.plans = z]
<1>1. /\ pc[s] = "pay"
      /\ PcOK(r, "pay") /\ LockOK(r, "pay", locks[s], w) /\ ClaimOK(r, "pay", w)
      /\ PaymentOK(r, "pay", w) /\ StatementOK(r, "pay", w, scan[s]) /\ HasFields(w)
  BY SessionIs DEF Pay, Ready
<1>2. Pays(r) /\ ~ Plans(r) /\ ~ Bills(r) /\ r.operation # "summary"
  BY <1>1 DEF PcOK, Ended, Plans, Bills, Pays
<1>3. a \in TargetOf(r) /\ a.plan = r.plan /\ a.number = r.number
  <2>1. TargetOf(r) # {} /\ Target(s) = TargetOf(r)
    BY <1>1, <1>2 DEF LockOK, HasAllocation, Target, TargetOf
  <2>2. a \in TargetOf(r)
    BY <2>1
  <2> QED
    BY <2>2 DEF TargetOf
<1>4. CASE Accepted(r, a)
  <2>1. /\ UNCHANGED <<committed, locks, request, scan>> /\ Goto(s, "commit")
        /\ writes' = [writes EXCEPT
             ![s].payments = {[id |-> r.key, plan |-> a.plan, number |-> a.number, amount |-> r.amount]},
             ![s].allocations = y, ![s].plans = z]
    BY <1>4 DEF Pay, Accepted, PaidAllocations, CompletedPlans
  <2>2. x = {[id |-> r.key, plan |-> a.plan, number |-> a.number, amount |-> r.amount]}
    BY <1>3 DEF NewPayment
  <2> HIDE DEF a, x, y, z
  <2>3. Steps(s, "commit", locks[s], u, scan[s])
    BY <2>1, <2>2, SessionIs, Unaltered DEF Steps, Goto
  <2>4. /\ u.payments = x /\ u.allocations = y /\ u.plans = z
        /\ u.claims = w.claims /\ u.billed = w.billed /\ HasFields(u)
    <3>1. u = [w EXCEPT !.payments = x, !.allocations = y, !.plans = z] /\ HasFields(w)
      BY <1>1
    <3> HIDE DEF u, w
    <3>2. PICK e, f, g, h, k : w = [billed |-> e, plans |-> f, allocations |-> g, payments |-> h, claims |-> k]
      BY <3>1 DEF HasFields
    <3>3. u = [billed |-> e, plans |-> z, allocations |-> y, payments |-> x, claims |-> k]
      BY <3>1, <3>2
    <3> QED
      BY <3>2, <3>3 DEF HasFields
  <2> HIDE DEF r, w, u
  <2>5. PaymentOK(r, "commit", u)
    BY <1>1, <1>2, <1>3, <1>4, <2>4 DEF PaymentOK, x, y, z
  <2>6. LockOK(r, "commit", locks[s], u) /\ PcOK(r, "commit")
    BY <1>1, <1>2, <2>4 DEF LockOK, Held, HasAccount, HasAllocation, HasPlan, PcOK
  <2>7. ClaimOK(r, "commit", u) /\ PlanOK(r, "commit", u) /\ SummaryOK(r, u)
    BY <1>1, <1>2, <2>4 DEF ClaimOK, Claims, PlanOK, SummaryOK
  <2>8. StatementOK(r, "commit", u, scan[s])
    BY <1>1, <1>2 DEF StatementOK
  <2>9. Fine(r, "commit", locks[s], u, scan[s]) /\ Claims(r, "pay")
    BY <1>2, <2>5, <2>6, <2>7, <2>8 DEF Fine, Claims
  <2> QED
    BY <1>1, <2>3, <2>4, <2>9, SessionIs, QuietStep DEF r
<1>5. CASE ~ Accepted(r, a)
  BY <1>5, EndPreservesSInv DEF Pay, Accepted, Ended
<1> QED
  BY <1>4, <1>5

-----------------------------------------------------------------------------
(* Commits are operations of Installments *)

LEMMA RequestTypes ==
  ASSUME NEW r \in Request
  PROVE  /\ Plans(r) => /\ r.key \in Keys /\ r.card \in Cards /\ r.purchase \in Purchases
                        /\ r.count \in 1..MaxInstallments /\ r.first \in Months
         /\ Bills(r) => CycleOf(r) \in Cards \X Months /\ CycleOf(r)[1] = r.card
         /\ Pays(r) => r.key \in Keys /\ r.amount \in Amounts
         /\ Plans(r) \/ Bills(r) \/ Pays(r) \/ r.operation = "summary"
BY DEF Request, PlanRequest, PaymentRequest, StatementRequest, SummaryRequest, Plans, Bills, Pays, CycleOf

LEMMA CommitIs ==
  ASSUME NEW s \in Sessions, Commit(s)
  PROVE  /\ pc[s] = "commit" /\ End(s, "done") /\ cardStatus' = cardStatus /\ charges' = charges
         /\ billed' = billed \cup writes[s].billed
         /\ plans' = {p \in plans : \A q \in writes[s].plans : q.id # p.id} \cup writes[s].plans
         /\ allocations' = {a \in allocations : \A b \in writes[s].allocations : RowOf(b) # RowOf(a)}
                             \cup writes[s].allocations
         /\ principalPayments' = principalPayments \cup writes[s].payments
         /\ claims' = claims \cup writes[s].claims
BY DEF Commit

\* The rows of two allocations are the same when plan and number are.
LEMMA SameRow ==
  \A a, b : RowOf(a) = RowOf(b) <=> a.plan = b.plan /\ a.number = b.number
BY DEF RowOf, AllocationRow

LEMMA ScheduledRows ==
  ASSUME NEW key, NEW charge, NEW count, NEW first
  PROVE  \A b \in I!Schedule(key, charge, count, first) : b.plan = key /\ b.cycle[1] = charge.card
<1> SUFFICES ASSUME NEW b \in I!Schedule(key, charge, count, first)
             PROVE  b.plan = key /\ b.cycle[1] = charge.card
  OBVIOUS
<1>1. PICK n \in 1..count :
         b = [plan |-> key, number |-> n, cycle |-> <<charge.card, first + n - 1>>,
              principal |-> I!InstallmentPrincipal(charge.amount, count, n),
              status |-> I!InitialStatus(<<charge.card, first + n - 1>>)]
  BY DEF I!Schedule
<1>2. b.cycle = <<charge.card, first + n - 1>>
  BY <1>1
<1> QED
  BY <1>1, <1>2

PlanCommitted(r) ==
  /\ plans' = plans \cup {NewPlan(r)}
  /\ allocations' = allocations \cup I!Schedule(r.key, ChargeOf(r), r.count, r.first)
  /\ claims' = claims \cup {Claim(r)}
  /\ UNCHANGED <<cardStatus, charges, billed, principalPayments>>

LEMMA PlanCommits ==
  ASSUME SInv, NEW s \in Sessions, Commit(s), Plans(request[s])
  PROVE  I!Next /\ PlanCommitted(request[s])
<1> DEFINE r == request[s]
           w == writes[s]
           rows == I!Schedule(r.key, ChargeOf(r), r.count, r.first)
<1>1. /\ pc[s] = "commit" /\ RowsOK /\ r \in Request
      /\ LockOK(r, "commit", locks[s], w) /\ ClaimOK(r, "commit", w) /\ PlanOK(r, "commit", w)
  BY CommitIs, SessionIs
<1>2. /\ cardStatus[r.card] = "active" /\ Claim(r) \notin claims /\ w.claims = {Claim(r)}
      /\ ChargeOf(r) \in charges /\ Schedulable(r.principal, r.count, r.first) /\ I!Unplanned(r.purchase)
      /\ w.plans = {NewPlan(r)} /\ w.allocations = rows /\ w.billed = {} /\ w.payments = {}
  BY <1>1 DEF LockOK, HasAccount, ClaimOK, Claims, PlanOK
<1>3. Claim(r) = <<"create_installment_plan", r.key>>
  BY DEF Claim, Plans
<1>4. \A p \in plans : p.id # r.key
  BY <1>1, <1>2, <1>3, CommittedFacts DEF RowsOK
<1>5. plans' = plans \cup {NewPlan(r)}
  BY <1>2, <1>4, CommitIs DEF NewPlan
<1>6. \A b \in rows : b.plan = r.key
  BY ScheduledRows
<1>7. \A a \in allocations : a.plan # r.key
  BY <1>1, <1>4, CommittedFacts DEF RowsOK
<1> HIDE DEF rows
<1>8. allocations' = allocations \cup rows
  BY <1>2, <1>6, <1>7, CommitIs, SameRow
<1>9. claims' = claims \cup {Claim(r)} /\ UNCHANGED <<cardStatus, charges, billed, principalPayments>>
  BY <1>2, CommitIs
<1>10. PlanCommitted(r)
  BY <1>5, <1>8, <1>9 DEF PlanCommitted, rows
<1>11. I!CreateInstallmentPlan(r.key, ChargeOf(r), r.count, r.first)
  <2>1. /\ ChargeOf(r).id = r.purchase /\ ChargeOf(r).card = r.card /\ ChargeOf(r).amount = r.principal
    BY DEF ChargeOf
  <2>2. I!Schedulable(r.principal, r.count, r.first) /\ I!Unclaimed("create_installment_plan", r.key)
    BY <1>2, <1>3, SameTerms DEF I!Unclaimed
  <2> QED
    BY <1>2, <1>3, <1>5, <1>8, <1>9, <2>1, <2>2 DEF I!CreateInstallmentPlan, NewPlan, rows
<1>12. r.key \in Keys /\ r.count \in 1..MaxInstallments /\ r.first \in I!Months
  BY <1>1, RequestTypes, SameTerms
<1> QED
  BY <1>2, <1>10, <1>11, <1>12 DEF I!Next

StatementCommitted(r) ==
  /\ billed' = billed \cup {CycleOf(r)}
  /\ allocations' = I!TakenUp(CycleOf(r))
  /\ UNCHANGED <<cardStatus, charges, plans, principalPayments, claims>>

\* What the scan has looked at is what was pending.
LEMMA TakesUpWhatIsPending ==
  ASSUME SInv, NEW s \in Sessions, pc[s] = "commit", Bills(request[s])
  PROVE  writes[s].allocations = {Allocated(a) : a \in PendingOf(request[s])}
<1> DEFINE r == request[s]
           w == writes[s]
<1>1. StatementOK(r, "commit", w, scan[s])
  BY SessionIs
<1>2. \A a \in PendingOf(r) : Allocated(a) \in w.allocations
  <2>1. scan[s] = <<>>
    BY <1>1 DEF StatementOK
  <2>2. DOMAIN scan[s] = {}
    BY <2>1
  <2> QED
    BY <1>1, <2>2 DEF StatementOK
<1>3. \A b \in w.allocations : \E a \in PendingOf(r) : b = Allocated(a)
  BY <1>1 DEF StatementOK
<1> QED
  BY <1>2, <1>3

LEMMA StatementCommits ==
  ASSUME SInv, NEW s \in Sessions, Commit(s), Bills(request[s])
  PROVE  I!Next /\ StatementCommitted(request[s])
<1> DEFINE r == request[s]
           w == writes[s]
           cycle == CycleOf(r)
<1>1. /\ pc[s] = "commit" /\ RowsOK /\ r \in Request
      /\ LockOK(r, "commit", locks[s], w) /\ ClaimOK(r, "commit", w) /\ StatementOK(r, "commit", w, scan[s])
      /\ PcOK(r, "commit")
  BY CommitIs, SessionIs
<1>2. /\ cardStatus[r.card] = "active" /\ w.claims = {} /\ w.billed = {cycle} /\ w.plans = {} /\ w.payments = {}
  BY <1>1 DEF LockOK, HasAccount, ClaimOK, Claims, StatementOK, Bills, Plans, Pays
<1>3. w.allocations = {Allocated(a) : a \in PendingOf(r)}
  BY <1>1, TakesUpWhatIsPending
<1>4. /\ billed' = billed \cup {cycle} /\ UNCHANGED <<cardStatus, charges, plans, principalPayments, claims>>
  BY <1>2, CommitIs
<1>5. allocations' = I!TakenUp(cycle)
  <2>1. allocations' = {a \in allocations : \A b \in w.allocations : RowOf(b) # RowOf(a)} \cup w.allocations
    BY CommitIs
  <2>2. \A a, b \in allocations : RowOf(a) = RowOf(b) => a = b
    BY <1>1, CommittedFacts, SameRow DEF RowsOK
  <2>3. \A a \in PendingOf(r) : RowOf(Allocated(a)) = RowOf(a)
    BY <1>1, AllocationsAre DEF PendingOf
  <2>4. \A a \in allocations : a \in PendingOf(r) <=> a.cycle = cycle /\ a.status = "pending"
    BY DEF PendingOf
  <2>5. PendingOf(r) \subseteq allocations
    BY DEF PendingOf
  <2>6. {a \in allocations : \A b \in w.allocations : RowOf(b) # RowOf(a)} = {a \in allocations : a \notin PendingOf(r)}
    BY <1>3, <2>2, <2>3, <2>5
  <2> HIDE DEF r, w, cycle
  <2>7. I!TakenUp(cycle) = {a \in allocations : a \notin PendingOf(r)} \cup {Allocated(a) : a \in PendingOf(r)}
    BY <2>4, <2>5 DEF I!TakenUp, Allocated
  <2> QED
    BY <1>3, <2>1, <2>6, <2>7
<1>6. cycle \in I!MonthCycles /\ cycle[1] = r.card
  BY <1>1, RequestTypes, SameTerms
<1>7. I!RegisterStatement(cycle)
  BY <1>2, <1>4, <1>5, <1>6 DEF I!RegisterStatement
<1>8. StatementCommitted(r)
  BY <1>4, <1>5 DEF StatementCommitted
<1> QED
  BY <1>6, <1>7, <1>8 DEF I!Next

PaymentCommitted(r, a) ==
  /\ principalPayments' = principalPayments \cup {NewPayment(r)}
  /\ allocations' = IF r.amount = I!Unpaid(a)
                      THEN (allocations \ {a}) \cup {[a EXCEPT !.status = "paid"]}
                      ELSE allocations
  /\ plans' = IF I!CompletesPlan(a, r.amount)
                THEN (plans \ {I!PlanOf(a)}) \cup {[I!PlanOf(a) EXCEPT !.status = "completed"]}
                ELSE plans
  /\ claims' = claims \cup {Claim(r)}
  /\ UNCHANGED <<cardStatus, charges, billed>>

LEMMA PlanIs ==
  ASSUME RowsOK, NEW a \in allocations
  PROVE  /\ I!PlanOf(a) \in plans /\ I!PlanOf(a).id = a.plan
         /\ \A p \in plans : p.id = a.plan => p = I!PlanOf(a)
         /\ [I!PlanOf(a) EXCEPT !.status = "completed"].id = a.plan
         /\ [I!PlanOf(a) EXCEPT !.status = "completed"].purchase = I!PlanOf(a).purchase
<1>1. PICK p \in plans : p.id = a.plan
  BY CommittedFacts DEF RowsOK
<1>2. I!PlanOf(a) \in plans /\ I!PlanOf(a).id = a.plan
  BY <1>1 DEF I!PlanOf
<1>3. \A q \in plans : q \in IP!PlanRow
  BY DEF RowsOK, IP!IInv, IP!TypeOK
<1> QED
  BY <1>2, <1>3, CommittedFacts DEF RowsOK, IP!PlanRow

LEMMA PaymentCommits ==
  ASSUME SInv, NEW s \in Sessions, Commit(s), Pays(request[s])
  PROVE  I!Next /\ \E a \in TargetOf(request[s]) : PaymentCommitted(request[s], a)
<1> DEFINE r == request[s]
           w == writes[s]
<1>1. /\ pc[s] = "commit" /\ RowsOK /\ r \in Request
      /\ ClaimOK(r, "commit", w) /\ PaymentOK(r, "commit", w)
  BY CommitIs, SessionIs
<1>2. /\ Claim(r) \notin claims /\ w.claims = {Claim(r)} /\ w.billed = {}
  BY <1>1 DEF ClaimOK, Claims, PaymentOK
<1>3. PICK a \in TargetOf(r) : /\ Accepted(r, a) /\ w.payments = {NewPayment(r)}
                               /\ w.allocations = PaidAllocations(r, a) /\ w.plans = CompletedPlans(r, a)
  BY <1>1 DEF PaymentOK
<1>4. a \in allocations /\ a.plan = r.plan /\ a.number = r.number
  BY DEF TargetOf
<1>5. Claim(r) = <<"record_installment_principal_payment", r.key>>
  BY DEF Claim, Pays
<1>6. /\ principalPayments' = principalPayments \cup {NewPayment(r)}
      /\ claims' = claims \cup {Claim(r)} /\ UNCHANGED <<cardStatus, charges, billed>>
  BY <1>2, <1>3, CommitIs
<1>7. allocations' = IF r.amount = I!Unpaid(a)
                       THEN (allocations \ {a}) \cup {[a EXCEPT !.status = "paid"]} ELSE allocations
  <2>1. \A b \in allocations : RowOf(a) = RowOf(b) => a = b
    BY <1>1, <1>4, CommittedFacts, SameRow DEF RowsOK
  <2>2. RowOf([a EXCEPT !.status = "paid"]) = RowOf(a)
    BY <1>1, <1>4, SameRow DEF RowsOK, IP!IInv, IP!TypeOK, IP!AllocationRow
  <2>3. allocations' = {b \in allocations : \A c \in PaidAllocations(r, a) : RowOf(c) # RowOf(b)}
                         \cup PaidAllocations(r, a)
    BY <1>3, CommitIs
  <2>4. PICK b : b = [a EXCEPT !.status = "paid"]
    OBVIOUS
  <2>5. PaidAllocations(r, a) = IF r.amount = I!Unpaid(a) THEN {b} ELSE {}
    BY <2>4 DEF PaidAllocations
  <2> QED
    BY <1>4, <2>1, <2>2, <2>3, <2>4, <2>5
<1>8. plans' = IF I!CompletesPlan(a, r.amount)
                 THEN (plans \ {I!PlanOf(a)}) \cup {[I!PlanOf(a) EXCEPT !.status = "completed"]} ELSE plans
  <2>1. PICK p, q : p = I!PlanOf(a) /\ q = [I!PlanOf(a) EXCEPT !.status = "completed"]
    OBVIOUS
  <2>2. /\ p \in plans /\ p.id = a.plan /\ q.id = a.plan /\ \A o \in plans : o.id = a.plan => o = p
    BY <1>1, <1>4, <2>1, PlanIs
  <2>3. CompletedPlans(r, a) = IF I!CompletesPlan(a, r.amount) THEN {q} ELSE {}
    BY <2>1 DEF CompletedPlans
  <2>4. plans' = {o \in plans : \A c \in CompletedPlans(r, a) : c.id # o.id} \cup CompletedPlans(r, a)
    BY <1>3, CommitIs
  <2> QED
    BY <2>1, <2>2, <2>3, <2>4
<1>9. PaymentCommitted(r, a)
  BY <1>6, <1>7, <1>8 DEF PaymentCommitted
<1>10. I!RecordPrincipalPayment(r.key, a, r.amount)
  <2>1. I!Unclaimed("record_installment_principal_payment", r.key)
    BY <1>2, <1>5 DEF I!Unclaimed
  <2>2. NewPayment(r) = [id |-> r.key, plan |-> a.plan, number |-> a.number, amount |-> r.amount]
    BY <1>4 DEF NewPayment
  <2> QED
    BY <1>3, <1>5, <1>6, <1>7, <1>8, <2>1, <2>2 DEF I!RecordPrincipalPayment, Accepted
<1>11. r.key \in Keys /\ r.amount \in Amounts
  BY <1>1, RequestTypes
<1> QED
  BY <1>4, <1>9, <1>10, <1>11 DEF I!Next

-----------------------------------------------------------------------------
(* What commits leave of other sessions *)

LEMMA RowsAreSound == RowsOK /\ [I!Next]_I!vars => RowsOK'
<1> SUFFICES ASSUME RowsOK, [I!Next]_I!vars PROVE RowsOK'
  OBVIOUS
<1>1. IP!IInv' /\ IP!MoneyInv'
  BY CommittedRowsAreSound DEF RowsOK
<1>2. ChargesAreDistinct'
  <2>1. CASE UNCHANGED charges
    BY <2>1 DEF RowsOK, ChargesAreDistinct
  <2>2. ASSUME NEW purchase \in Purchases, NEW card \in Cards, NEW amount \in Principals,
               I!PostCharge(purchase, card, amount)
        PROVE  ChargesAreDistinct'
    BY <2>2 DEF I!PostCharge, RowsOK, ChargesAreDistinct
  <2> QED
    BY <2>1, <2>2 DEF I!Next, I!vars, I!ArchiveAccount, I!CreateInstallmentPlan, I!RegisterStatement,
                      I!RecordPrincipalPayment
<1> QED
  BY <1>1, <1>2 DEF RowsOK

LEMMA SameSchedule ==
  ASSUME UNCHANGED request, NEW o,
         \A cycle : cycle[1] = request[o].card => (cycle \in billed' <=> cycle \in billed)
  PROVE  I!Schedule(request[o].key, ChargeOf(request[o]), request[o].count, request[o].first)'
           = I!Schedule(request[o].key, ChargeOf(request[o]), request[o].count, request[o].first)
<1>1. PICK r : r = request[o]
  OBVIOUS
<1>2. request'[o] = r
  BY <1>1
<1>3. \A n : <<r.card, n>> \in billed' <=> <<r.card, n>> \in billed
  BY <1>1
<1>4. ChargeOf(r).card = r.card /\ ChargeOf(request[o])' = ChargeOf(r) /\ ChargeOf(request[o]) = ChargeOf(r)
  BY <1>1, <1>2 DEF ChargeOf
<1> DEFINE Row(n) == [plan |-> r.key, number |-> n, cycle |-> <<r.card, r.first + n - 1>>,
                      principal |-> I!InstallmentPrincipal(ChargeOf(r).amount, r.count, n),
                      status |-> I!InitialStatus(<<r.card, r.first + n - 1>>)]
<1>5. \A n : I!InitialStatus(<<r.card, r.first + n - 1>>)' = I!InitialStatus(<<r.card, r.first + n - 1>>)
  BY <1>3 DEF I!InitialStatus
<1>6. I!Schedule(request[o].key, ChargeOf(request[o]), request[o].count, request[o].first)
        = {Row(n) : n \in 1..r.count}
  BY <1>1, <1>4 DEF I!Schedule
<1>7. I!Schedule(request[o].key, ChargeOf(request[o]), request[o].count, request[o].first)'
        = {Row(n) : n \in 1..r.count}
  BY <1>2, <1>4, <1>5 DEF I!Schedule, I!InstallmentPrincipal, I!InitialStatus
<1> QED
  BY <1>6, <1>7

\* What a session may have depends on the rows it holds, on its card and on its plan.
LEMMA StaysFine ==
  ASSUME SInv, RowsOK', NEW o \in Sessions, UNCHANGED request,
         pc'[o] = pc[o], locks'[o] = locks[o], writes'[o] = writes[o], scan'[o] = scan[o],
         HasAccount(request[o], pc[o]) => cardStatus'[request[o].card] = "active",
         charges \subseteq charges',
         Claims(request[o], pc[o]) => Claim(request[o]) \notin claims',
         \A a \in allocations : RowOf(a) \in locks[o] => a \in allocations',
         HasPlan(request[o], pc[o]) =>
           /\ \A q : q.id = request[o].plan => (q \in plans' <=> q \in plans)
           /\ \A x : x.plan = request[o].plan => (x \in principalPayments' <=> x \in principalPayments),
         Plans(request[o]) /\ pc[o] = "commit" => \A q \in plans' : q.purchase # request[o].purchase,
         HasAccount(request[o], pc[o]) =>
           \A cycle : cycle[1] = request[o].card => (cycle \in billed' <=> cycle \in billed),
         HasAccount(request[o], pc[o]) /\ Bills(request[o]) =>
           \A a \in allocations' : a.cycle = CycleOf(request[o]) /\ a.status = "pending" => a \in allocations,
         \A a \in allocations : \E b \in allocations' : RowOf(b) = RowOf(a) /\ b.cycle = a.cycle
  PROVE  SessionOK(o)'
<1> DEFINE r == request[o]
           p == pc[o]
           w == writes[o]
<1>1. request' = request /\ request'[o] = r /\ pc'[o] = p /\ writes'[o] = w
  OBVIOUS
<1>2. /\ PcOK(r, p) /\ LockOK(r, p, locks[o], w) /\ ClaimOK(r, p, w) /\ PlanOK(r, p, w)
      /\ StatementOK(r, p, w, scan[o]) /\ PaymentOK(r, p, w) /\ SummaryOK(r, w) /\ RowsOK
  BY SessionIs
<1>3. PcOK(request[o], pc[o])' /\ SummaryOK(request[o], writes[o])'
  BY <1>1, <1>2 DEF PcOK, SummaryOK, Plans, Pays, Bills, Ended, NoWrites
<1>4. ClaimOK(request[o], pc[o], writes[o])'
  BY <1>1, <1>2 DEF ClaimOK, Claims, Claim, Plans, Pays
<1>5. LockOK(request[o], pc[o], locks[o], writes[o])'
  <2>1. ASSUME HasAllocation(r, p) PROVE \E a \in allocations' : a.plan = r.plan /\ a.number = r.number
    <3>1. PICK a \in TargetOf(r) : TRUE
      BY <1>2, <2>1 DEF LockOK
    <3>2. a \in allocations /\ a.plan = r.plan /\ a.number = r.number
      BY DEF TargetOf
    <3>3. RowOf(a) \in locks[o]
      BY <1>2, <2>1, <3>2 DEF LockOK, Held, RowOf
    <3> QED
      BY <3>2, <3>3
  <2> QED
    BY <1>1, <1>2, <2>1 DEF LockOK, Held, HasAccount, HasAllocation, HasPlan, Plans, Pays, Bills, TargetOf, RowOf,
                            AccountRow, PlanRow, AllocationRow
<1>6. PlanOK(request[o], pc[o], writes[o])'
  <2>1. CASE Plans(r) /\ p = "commit"
    <3>1. HasAccount(r, p)
      BY <2>1 DEF HasAccount
    <3>2. I!Schedule(request[o].key, ChargeOf(request[o]), request[o].count, request[o].first)'
            = I!Schedule(r.key, ChargeOf(r), r.count, r.first)
      BY <3>1, SameSchedule
    <3>3. /\ Schedulable(request[o].principal, request[o].count, request[o].first)'
          /\ I!Unplanned(request[o].purchase)' /\ NewPlan(request[o])' = NewPlan(r)
          /\ (ChargeOf(request[o]) \in charges)'
      BY <1>1, <1>2, <2>1 DEF PlanOK, Schedulable, I!Unplanned, NewPlan, ChargeOf
    <3> QED
      BY <1>1, <1>2, <2>1, <3>2, <3>3 DEF PlanOK
  <2>2. CASE Plans(r) /\ p # "commit"
    BY <1>1, <1>2, <2>2 DEF PlanOK, ChargeOf
  <2>3. CASE ~ Plans(r)
    BY <1>1, <2>3 DEF PlanOK, Plans
  <2> QED
    BY <2>1, <2>2, <2>3
<1>7. StatementOK(request[o], pc[o], writes[o], scan[o])'
  <2>1. CASE Bills(r) /\ p \in {"take_up", "commit"}
    <3>1. HasAccount(r, p)
      BY <2>1 DEF HasAccount
    <3>2. \A a \in allocations' : a.cycle = CycleOf(r) /\ a.status = "pending" => a \in PendingOf(r)
      BY <2>1, <3>1 DEF PendingOf
    <3>3. ASSUME NEW b \in w.allocations
          PROVE  \E a \in allocations' : a.cycle = CycleOf(r) /\ a.status = "pending" /\ b = Allocated(a)
      <4>1. PICK a \in PendingOf(r) : b = Allocated(a)
        BY <1>2, <2>1 DEF StatementOK
      <4>2. a \in allocations /\ a.cycle = CycleOf(r) /\ a.status = "pending"
        BY DEF PendingOf
      <4>3. RowOf(b) = RowOf(a)
        BY <1>2, <4>1, <4>2, AllocationsAre
      <4>4. RowOf(b) \in locks[o]
        BY <1>2, <2>1 DEF LockOK, Held
      <4> QED
        BY <4>1, <4>2, <4>3, <4>4
    <3>4. ASSUME NEW i \in DOMAIN scan[o]
          PROVE  /\ scan[o][i].cycle = CycleOf(r) /\ scan[o][i].status = "pending"
                 /\ \E b \in allocations' : RowOf(b) = RowOf(scan[o][i]) /\ b.cycle = scan[o][i].cycle
      BY <1>2, <2>1, <3>4 DEF StatementOK, ScanOK
    <3>5. ScanOK(request[o], scan[o])'
      BY <1>1, <3>4 DEF ScanOK, CycleOf, RowOf, AllocationRow
    <3>6. \A a \in allocations' :
            a.cycle = CycleOf(r) /\ a.status = "pending" =>
              Allocated(a) \in w.allocations \/ \E i \in DOMAIN scan[o] : scan[o][i] = a
      BY <1>2, <2>1, <3>2 DEF StatementOK
    <3>7. w.billed = {CycleOf(r)} /\ w.plans = {} /\ w.payments = {}
      BY <1>2, <2>1 DEF StatementOK
    <3>8. scan[o] # <<>> => p = "take_up"
      BY <1>2 DEF StatementOK
    <3> QED
      BY <1>1, <2>1, <3>3, <3>5, <3>6, <3>7, <3>8 DEF StatementOK, Bills, PendingOf, CycleOf, Allocated
  <2>2. CASE Bills(r) /\ p \notin {"take_up", "commit"}
    <3>1. w.allocations = {} /\ scan[o] = <<>>
      BY <1>2, <2>2 DEF StatementOK
    <3>2. DOMAIN scan[o] = {}
      BY <3>1
    <3> QED
      BY <1>1, <1>2, <2>2, <3>1, <3>2 DEF StatementOK, Bills, ScanOK, CycleOf
  <2>3. CASE ~ Bills(r)
    BY <1>1, <1>2, <2>3 DEF StatementOK, Bills
  <2> QED
    BY <2>1, <2>2, <2>3
<1>8. PaymentOK(request[o], pc[o], writes[o])'
  <2>1. CASE Pays(r) /\ p = "commit"
    <3>1. PICK a \in TargetOf(r) :
            /\ Accepted(r, a) /\ w.payments = {NewPayment(r)}
            /\ w.allocations = PaidAllocations(r, a) /\ w.plans = CompletedPlans(r, a) /\ w.billed = {}
      BY <1>2, <2>1 DEF PaymentOK
    <3>2. a \in allocations /\ a.plan = r.plan /\ a.number = r.number
      BY DEF TargetOf
    <3>3. HasAllocation(r, p) /\ HasPlan(r, p)
      BY <2>1 DEF HasAllocation, HasPlan
    <3>4. a \in allocations'
      BY <1>2, <3>2, <3>3 DEF LockOK, Held, RowOf
    <3>5. /\ \A q : q.id = a.plan => (q \in plans' <=> q \in plans)
          /\ \A x : x.plan = a.plan => (x \in principalPayments' <=> x \in principalPayments)
      BY <3>2, <3>3
    <3>6. PICK plan : plan = I!PlanOf(a)
      OBVIOUS
    <3>7. plan \in plans /\ plan.id = a.plan
      BY <1>2, <3>2, <3>6, PlanIs
    <3>8. (CHOOSE q \in plans' : q.id = a.plan) = plan
      <4>1. plan \in plans'
        BY <3>5, <3>7
      <4>2. \A q, q2 \in plans' : q.id = q2.id => q = q2
        BY DEF RowsOK, IP!IInv, IP!PlansAreDistinct
      <4> QED
        BY <3>7, <4>1, <4>2
    <3>9. /\ {x \in principalPayments' : x.plan = a.plan /\ x.number = a.number}
               = {x \in principalPayments : x.plan = a.plan /\ x.number = a.number}
          /\ {x \in principalPayments' : x.plan = plan.id} = {x \in principalPayments : x.plan = plan.id}
      BY <3>5, <3>7
    <3>10. I!PlanOf(a)' = I!PlanOf(a) /\ I!Unpaid(a)' = I!Unpaid(a) /\ I!Outstanding(plan)' = I!Outstanding(plan)
      <4>1. I!PlanOf(a)' = I!PlanOf(a)
        BY <3>6, <3>8 DEF I!PlanOf
      <4>2. I!Unpaid(a)' = I!Unpaid(a)
        BY <3>9 DEF I!Unpaid, I!Paid, I!PaymentsTo
      <4>3. I!Outstanding(plan)' = I!Outstanding(plan)
        BY <3>9 DEF I!Outstanding, I!PaidPrincipal, I!PaymentsOf
      <4> QED
        BY <4>1, <4>2, <4>3
    <3>11. /\ Accepted(request[o], a)' /\ NewPayment(request[o])' = NewPayment(r)
           /\ PaidAllocations(request[o], a)' = PaidAllocations(r, a)
           /\ CompletedPlans(request[o], a)' = CompletedPlans(r, a)
      <4>1. Accepted(request[o], a)'
        BY <1>1, <3>1, <3>6, <3>10 DEF Accepted, I!FitsUnpaid
      <4>2. NewPayment(request[o])' = NewPayment(r)
        BY <1>1 DEF NewPayment
      <4>3. PaidAllocations(request[o], a)' = PaidAllocations(r, a)
        BY <1>1, <3>10 DEF PaidAllocations
      <4>4. I!CompletesPlan(a, request[o].amount)' <=> I!CompletesPlan(a, r.amount)
        <5>1. I!CompletesPlan(a, r.amount) <=> r.amount = I!Outstanding(plan)
          BY <3>6 DEF I!CompletesPlan
        <5>2. I!Outstanding(I!PlanOf(a))' = I!Outstanding(plan)'
          BY <3>6, <3>10 DEF I!Outstanding, I!PaidPrincipal, I!PaymentsOf
        <5>3. I!CompletesPlan(a, request[o].amount)' <=> r.amount = I!Outstanding(I!PlanOf(a))'
          BY <1>1 DEF I!CompletesPlan
        <5> QED
          BY <3>10, <5>1, <5>2, <5>3
      <4>5. CompletedPlans(request[o], a)' = CompletedPlans(r, a)
        BY <3>10, <4>4 DEF CompletedPlans
      <4> QED
        BY <4>1, <4>2, <4>3, <4>5
    <3>12. a \in TargetOf(request[o])'
      BY <1>1, <3>2, <3>4 DEF TargetOf
    <3> QED
      BY <1>1, <2>1, <3>1, <3>11, <3>12 DEF PaymentOK
  <2>2. CASE Pays(r) /\ p # "commit"
    BY <1>1, <1>2, <2>2 DEF PaymentOK, Pays
  <2>3. CASE ~ Pays(r)
    BY <1>1, <2>3 DEF PaymentOK, Pays
  <2> QED
    BY <2>1, <2>2, <2>3
<1> QED
  BY <1>3, <1>4, <1>5, <1>6, <1>7, <1>8 DEF SessionOK, Fine

\* A session that has ended is fine whatever the rows are.
LEMMA EndedIsFine ==
  ASSUME NEW s \in Sessions, UNCHANGED request, request[s] \in Request, pc'[s] \in Ended,
         locks'[s] = {}, writes'[s] = NoWrites, scan'[s] = <<>>
  PROVE  SessionOK(s)'
<1> DEFINE r == request[s]
<1>1. /\ request'[s] = r /\ pc'[s] \notin {"purchase", "claim", "schedule", "commit", "bill", "find", "take_up", "plan", "pay"}
      /\ NoWrites' = NoWrites
  BY DEF Ended, NoWrites
<1>2. PcOK(request[s], pc[s])' /\ SummaryOK(request[s], writes[s])'
  BY <1>1 DEF PcOK, SummaryOK, Ended
<1>3. ClaimOK(request[s], pc[s], writes[s])'
  BY <1>1, NoWritesAre DEF ClaimOK, Claims
<1>4. LockOK(request[s], pc[s], locks[s], writes[s])'
  BY <1>1, NoWritesAre DEF LockOK, Held, HasAccount, HasAllocation, HasPlan
<1>5. PlanOK(request[s], pc[s], writes[s])' /\ PaymentOK(request[s], pc[s], writes[s])'
  BY <1>1, NoWritesAre DEF PlanOK, PaymentOK
<1>6. StatementOK(request[s], pc[s], writes[s], scan[s])'
  <2>1. DOMAIN scan'[s] = {}
    OBVIOUS
  <2> QED
    BY <1>1, <2>1, NoWritesAre DEF StatementOK, ScanOK
<1> QED
  BY <1>2, <1>3, <1>4, <1>5, <1>6 DEF SessionOK, Fine

LEMMA EndFacts ==
  ASSUME Shape, NEW s \in Sessions, End(s, "done")
  PROVE  /\ UNCHANGED request /\ pc'[s] = "done" /\ locks'[s] = {} /\ writes'[s] = NoWrites /\ scan'[s] = <<>>
         /\ \A o \in Sessions \ {s} : /\ pc'[o] = pc[o] /\ locks'[o] = locks[o]
                                      /\ writes'[o] = writes[o] /\ scan'[o] = scan[o]
         /\ Shape'
<1>1. /\ request' = request /\ pc' = [pc EXCEPT ![s] = "done"] /\ locks' = [locks EXCEPT ![s] = {}]
      /\ writes' = [writes EXCEPT ![s] = NoWrites] /\ scan' = [scan EXCEPT ![s] = <<>>]
  BY DEF End, Goto
<1>2. /\ pc'[s] = "done" /\ locks'[s] = {} /\ writes'[s] = NoWrites /\ scan'[s] = <<>>
      /\ \A o \in Sessions \ {s} : /\ pc'[o] = pc[o] /\ locks'[o] = locks[o]
                                   /\ writes'[o] = writes[o] /\ scan'[o] = scan[o]
  BY <1>1 DEF Shape
<1>3. IP!AllocationRow' = IP!AllocationRow
  BY DEF IP!AllocationRow, IP!MonthCycles, IP!Months
<1>4. ASSUME NEW o \in Sessions PROVE HasFields(writes[o])' /\ (scan[o] \in Seq(IP!AllocationRow))'
  <2>1. CASE o = s
    <3>1. <<>> \in Seq(IP!AllocationRow)
      OBVIOUS
    <3> QED
      BY <1>2, <1>3, <2>1, <3>1, NoWritesAre DEF HasFields
  <2>2. CASE o # s
    BY <1>2, <1>3, <2>2 DEF HasFields, Shape
  <2> QED
    BY <2>1, <2>2
<1>5. /\ request' \in [Sessions -> Request]
      /\ pc' = [o \in Sessions |-> pc'[o]] /\ locks' = [o \in Sessions |-> locks'[o]]
      /\ writes' = [o \in Sessions |-> writes'[o]] /\ scan' = [o \in Sessions |-> scan'[o]]
  BY <1>1 DEF Shape
<1>6. Shape'
  BY <1>4, <1>5 DEF Shape
<1> QED
  BY <1>1, <1>2, <1>6

LEMMA CommitEnds ==
  ASSUME SInv, NEW s \in Sessions, Commit(s), I!Next, \A o \in Sessions \ {s} : SessionOK(o)'
  PROVE  SInv'
<1>1. /\ UNCHANGED request /\ pc'[s] = "done" /\ locks'[s] = {} /\ writes'[s] = NoWrites /\ scan'[s] = <<>>
      /\ \A o \in Sessions \ {s} : /\ pc'[o] = pc[o] /\ locks'[o] = locks[o]
                                   /\ writes'[o] = writes[o] /\ scan'[o] = scan[o]
      /\ Shape'
  BY CommitIs, EndFacts, SessionIs
<1>2. RowsOK'
  BY RowsAreSound DEF SInv
<1>3. SessionOK(s)'
  BY <1>1, EndedIsFine, SessionIs DEF Ended
<1>4. ASSUME NEW o \in Sessions, NEW u \in Sessions, o # u PROVE Apart(o, u)'
  <2>1. CASE o # s /\ u # s
    <3>1. Apart(o, u)
      BY <1>4 DEF SInv
    <3> QED
      BY <1>1, <2>1, <3>1 DEF Apart, Claims, Claim, Plans, Pays
  <2>2. CASE o = s \/ u = s
    BY <1>1, <2>2 DEF Apart, Claims
  <2> QED
    BY <2>1, <2>2
<1>5. \A o \in Sessions : SessionOK(o)'
  BY <1>3
<1> QED
  BY <1>1, <1>2, <1>4, <1>5 DEF SInv

LEMMA PlanCommitKeepsSInv ==
  ASSUME SInv, NEW s \in Sessions, Commit(s), Plans(request[s])
  PROVE  SInv' /\ I!Next
<1> DEFINE r == request[s]
           rows == I!Schedule(r.key, ChargeOf(r), r.count, r.first)
<1>1. I!Next /\ PlanCommitted(r)
  BY PlanCommits
<1>2. /\ plans' = plans \cup {NewPlan(r)} /\ allocations' = allocations \cup rows
      /\ claims' = claims \cup {Claim(r)} /\ UNCHANGED <<cardStatus, charges, billed, principalPayments>>
  BY <1>1 DEF PlanCommitted
<1>3. /\ UNCHANGED request
      /\ \A o \in Sessions \ {s} : /\ pc'[o] = pc[o] /\ locks'[o] = locks[o]
                                   /\ writes'[o] = writes[o] /\ scan'[o] = scan[o]
  BY CommitIs, EndFacts, SessionIs
<1>4. /\ pc[s] = "commit" /\ LockOK(r, "commit", locks[s], writes[s]) /\ ClaimOK(r, "commit", writes[s])
      /\ PlanOK(r, "commit", writes[s])
  BY CommitIs, SessionIs
<1>5. HasAccount(r, "commit") /\ Claims(r, "commit") /\ Claim(r) \notin claims /\ AccountRow(r.card) \in locks[s]
      /\ ChargeOf(r) \in charges
  BY <1>4 DEF HasAccount, Claims, LockOK, Held, ClaimOK, PlanOK
<1>6. RowsOK'
  BY <1>1, RowsAreSound DEF SInv
<1>7. NewPlan(r).id = r.key /\ NewPlan(r).purchase = r.purchase
  BY DEF NewPlan
<1>8. \A a \in rows : a.plan = r.key /\ a.cycle[1] = r.card
  BY ScheduledRows DEF ChargeOf
<1> HIDE DEF rows
<1>9. ASSUME NEW o \in Sessions \ {s} PROVE SessionOK(o)'
  <2> DEFINE q == request[o]
             p == pc[o]
  <2>1. /\ LockOK(q, p, locks[o], writes[o]) /\ ClaimOK(q, p, writes[o]) /\ PlanOK(q, p, writes[o])
        /\ q \in Request /\ Apart(s, o)
    BY SessionIs DEF SInv
  <2>2. HasAccount(q, p) => q.card # r.card
    BY <1>5, <2>1 DEF LockOK, Held, Apart
  <2>3. HasAccount(q, p) => cardStatus'[q.card] = "active"
    BY <1>2, <2>1 DEF LockOK
  <2>4. Claims(q, p) => Claim(q) \notin claims'
    BY <1>2, <1>4, <1>5, <2>1 DEF ClaimOK, Apart
  <2>5. ASSUME HasPlan(q, p)
        PROVE  \A x : x.id = q.plan => (x \in plans' <=> x \in plans)
    <3>1. PICK a \in TargetOf(q) : TRUE
      BY <2>1, <2>5 DEF LockOK, HasAllocation, HasPlan
    <3>2. PICK x \in plans : x.id = q.plan
      BY CommittedFacts, SessionIs DEF TargetOf, RowsOK
    <3>3. q.plan # r.key
      BY <1>5, <3>2, CommittedFacts, SessionIs DEF RowsOK, Claim, Plans
    <3> QED
      BY <1>2, <1>7, <3>3
  <2>6. ASSUME Plans(q), p = "commit" PROVE \A x \in plans' : x.purchase # q.purchase
    <3>1. q.purchase # r.purchase
      <4>1. ChargeOf(q) \in charges
        BY <2>1, <2>6 DEF PlanOK
      <4>2. ChargesAreDistinct
        BY SessionIs DEF RowsOK
      <4>3. HasAccount(q, p)
        BY <2>6 DEF HasAccount
      <4> QED
        BY <1>5, <2>2, <4>1, <4>2, <4>3 DEF ChargesAreDistinct, ChargeOf
    <3>2. I!Unplanned(q.purchase)
      BY <2>1, <2>6 DEF PlanOK
    <3> QED
      BY <1>2, <1>7, <3>1, <3>2 DEF I!Unplanned
  <2>7. ASSUME HasAccount(q, p), Bills(q), NEW a \in allocations', a.cycle = CycleOf(q)
        PROVE  a \in allocations
    <3>1. a.cycle[1] = q.card
      BY <2>7 DEF CycleOf
    <3> QED
      BY <1>2, <1>8, <2>2, <2>7, <3>1
  <2> QED
    BY <1>2, <1>3, <1>6, <2>3, <2>4, <2>5, <2>6, <2>7, StaysFine
<1> QED
  BY <1>1, <1>9, CommitEnds

LEMMA StatementCommitKeepsSInv ==
  ASSUME SInv, NEW s \in Sessions, Commit(s), Bills(request[s])
  PROVE  SInv' /\ I!Next
<1> DEFINE r == request[s]
           w == writes[s]
           cycle == CycleOf(r)
<1>1. I!Next /\ StatementCommitted(r)
  BY StatementCommits
<1>2. /\ billed' = billed \cup {cycle} /\ allocations' = I!TakenUp(cycle)
      /\ UNCHANGED <<cardStatus, charges, plans, principalPayments, claims>>
  BY <1>1 DEF StatementCommitted
<1>3. /\ UNCHANGED request
      /\ \A o \in Sessions \ {s} : /\ pc'[o] = pc[o] /\ locks'[o] = locks[o]
                                   /\ writes'[o] = writes[o] /\ scan'[o] = scan[o]
  BY CommitIs, EndFacts, SessionIs
<1>4. pc[s] = "commit" /\ LockOK(r, "commit", locks[s], w) /\ r \in Request /\ RowsOK
  BY CommitIs, SessionIs
<1>5. /\ AccountRow(r.card) \in locks[s] /\ \A b \in w.allocations : RowOf(b) \in locks[s]
      /\ cycle[1] = r.card
  BY <1>4, RequestTypes DEF HasAccount, LockOK, Held
<1>6. RowsOK'
  BY <1>1, RowsAreSound DEF SInv
<1>7. w.allocations = {Allocated(a) : a \in PendingOf(r)}
  BY <1>4, TakesUpWhatIsPending
<1>8. \A a \in allocations : a \in PendingOf(r) <=> a.cycle = cycle /\ a.status = "pending"
  BY DEF PendingOf
<1>9. \A a \in allocations : /\ a \notin PendingOf(r) => a \in allocations'
                             /\ a \in PendingOf(r) => Allocated(a) \in allocations'
  BY <1>2, <1>8 DEF I!TakenUp, Allocated
<1>10. \A b \in allocations' : b \in allocations \/ \E a \in PendingOf(r) : b = Allocated(a)
  BY <1>2, <1>8 DEF I!TakenUp, Allocated
<1>11. \A a \in allocations : /\ RowOf(Allocated(a)) = RowOf(a) /\ Allocated(a).cycle = a.cycle
                              /\ Allocated(a).status = "statement_allocated"
  BY <1>4, AllocationsAre
<1>12. PendingOf(r) \subseteq allocations
  BY DEF PendingOf
<1>13. \A a \in allocations : \E b \in allocations' : RowOf(b) = RowOf(a) /\ b.cycle = a.cycle
  BY <1>9, <1>11
<1>14. \A a \in allocations' : a.status = "pending" => a \in allocations
  BY <1>10, <1>11, <1>12
<1> HIDE DEF cycle
<1>15. ASSUME NEW o \in Sessions \ {s} PROVE SessionOK(o)'
  <2> DEFINE q == request[o]
             p == pc[o]
  <2>1. LockOK(q, p, locks[o], writes[o]) /\ ClaimOK(q, p, writes[o]) /\ PlanOK(q, p, writes[o]) /\ Apart(s, o)
    BY SessionIs DEF SInv
  <2>2. HasAccount(q, p) => q.card # r.card
    BY <1>5, <2>1 DEF LockOK, Held, Apart
  <2>3. HasAccount(q, p) => cardStatus'[q.card] = "active"
    BY <1>2, <2>1 DEF LockOK
  <2>4. Claims(q, p) => Claim(q) \notin claims'
    BY <1>2, <2>1 DEF ClaimOK
  <2>5. \A a \in allocations : RowOf(a) \in locks[o] => a \in allocations'
    <3> SUFFICES ASSUME NEW a \in PendingOf(r), RowOf(a) \in locks[o] PROVE FALSE
      BY <1>9
    <3>1. Allocated(a) \in w.allocations
      BY <1>7
    <3>2. RowOf(a) \in locks[s]
      BY <1>5, <1>11, <1>12, <3>1
    <3> QED
      BY <2>1, <3>2 DEF Apart
  <2>6. Plans(q) /\ p = "commit" => \A x \in plans' : x.purchase # q.purchase
    BY <1>2, <2>1 DEF PlanOK, I!Unplanned
  <2>7. HasAccount(q, p) => \A c : c[1] = q.card => (c \in billed' <=> c \in billed)
    BY <1>2, <1>5, <2>2
  <2> QED
    BY <1>2, <1>3, <1>6, <1>13, <1>14, <2>3, <2>4, <2>5, <2>6, <2>7, StaysFine
<1> QED
  BY <1>1, <1>15, CommitEnds

LEMMA PaymentCommitKeepsSInv ==
  ASSUME SInv, NEW s \in Sessions, Commit(s), Pays(request[s])
  PROVE  SInv' /\ I!Next
<1> DEFINE r == request[s]
<1>1. I!Next /\ \E a \in TargetOf(r) : PaymentCommitted(r, a)
  BY PaymentCommits
<1>2. PICK a \in TargetOf(r) : PaymentCommitted(r, a)
  BY <1>1
<1>3. PICK b, plan, new : /\ b = [a EXCEPT !.status = "paid"] /\ plan = I!PlanOf(a)
                          /\ new = [I!PlanOf(a) EXCEPT !.status = "completed"]
  OBVIOUS
<1>4. /\ principalPayments' = principalPayments \cup {NewPayment(r)}
      /\ allocations' = allocations \/ allocations' = (allocations \ {a}) \cup {b}
      /\ plans' = plans \/ plans' = (plans \ {plan}) \cup {new}
      /\ claims' = claims \cup {Claim(r)}
      /\ UNCHANGED <<cardStatus, charges, billed>>
  BY <1>2, <1>3 DEF PaymentCommitted
<1>5. /\ UNCHANGED request
      /\ \A o \in Sessions \ {s} : /\ pc'[o] = pc[o] /\ locks'[o] = locks[o]
                                   /\ writes'[o] = writes[o] /\ scan'[o] = scan[o]
  BY CommitIs, EndFacts, SessionIs
<1>6. pc[s] = "commit" /\ LockOK(r, "commit", locks[s], writes[s]) /\ ClaimOK(r, "commit", writes[s]) /\ RowsOK
  BY CommitIs, SessionIs
<1>7. a \in allocations /\ a.plan = r.plan /\ a.number = r.number
  BY DEF TargetOf
<1>8. RowOf(a) \in locks[s] /\ PlanRow(r.plan) \in locks[s] /\ Claims(r, "commit")
  BY <1>6, <1>7 DEF LockOK, Held, HasAllocation, HasPlan, Claims, RowOf
<1>9. RowsOK'
  BY <1>1, RowsAreSound DEF SInv
<1>10. RowOf(b) = RowOf(a) /\ b.cycle = a.cycle /\ b.status = "paid"
  BY <1>3, <1>6, <1>7, SameRow DEF RowsOK, IP!IInv, IP!TypeOK, IP!AllocationRow
<1>11. plan \in plans /\ plan.id = r.plan /\ new.id = r.plan /\ new.purchase = plan.purchase
  BY <1>3, <1>6, <1>7, PlanIs
<1>12. NewPayment(r).plan = r.plan
  BY DEF NewPayment
<1>13. \A c \in allocations : \E d \in allocations' : RowOf(d) = RowOf(c) /\ d.cycle = c.cycle
  BY <1>4, <1>10
<1>14. \A c \in allocations' : c.status = "pending" => c \in allocations
  BY <1>4, <1>10
<1>15. ASSUME NEW o \in Sessions \ {s} PROVE SessionOK(o)'
  <2> DEFINE q == request[o]
             p == pc[o]
  <2>1. LockOK(q, p, locks[o], writes[o]) /\ ClaimOK(q, p, writes[o]) /\ PlanOK(q, p, writes[o]) /\ Apart(s, o)
    BY SessionIs DEF SInv
  <2>2. HasAccount(q, p) => cardStatus'[q.card] = "active"
    BY <1>4, <2>1 DEF LockOK
  <2>3. Claims(q, p) => Claim(q) \notin claims'
    BY <1>4, <1>6, <1>8, <2>1 DEF ClaimOK, Apart
  <2>4. \A c \in allocations : RowOf(c) \in locks[o] => c \in allocations'
    BY <1>4, <1>8, <2>1 DEF Apart
  <2>5. HasPlan(q, p) => q.plan # r.plan
    BY <1>8, <2>1 DEF LockOK, Held, Apart
  <2>6. HasPlan(q, p) => /\ \A x : x.id = q.plan => (x \in plans' <=> x \in plans)
                         /\ \A x : x.plan = q.plan => (x \in principalPayments' <=> x \in principalPayments)
    BY <1>4, <1>11, <1>12, <2>5
  <2>7. Plans(q) /\ p = "commit" => \A x \in plans' : x.purchase # q.purchase
    BY <1>4, <1>11, <2>1 DEF PlanOK, I!Unplanned
  <2> QED
    BY <1>4, <1>5, <1>9, <1>13, <1>14, <2>2, <2>3, <2>4, <2>6, <2>7, StaysFine
<1> QED
  BY <1>1, <1>15, CommitEnds

\* The ledger posts and archives beside the sessions.
LEMMA LedgerKeepsSInv ==
  ASSUME SInv, PostCharge \/ ArchiveAccount
  PROVE  SInv' /\ I!Next
<1>1. UNCHANGED <<locks, pc, request, scan, writes>>
  BY DEF PostCharge, ArchiveAccount
<1>2. /\ UNCHANGED <<billed, plans, allocations, principalPayments, claims>>
      /\ charges \subseteq charges'
      /\ I!Next
  BY DEF PostCharge, ArchiveAccount, I!PostCharge, I!ArchiveAccount, I!Next
<1>3. RowsOK'
  BY <1>2, RowsAreSound DEF SInv
<1>4. ASSUME NEW o \in Sessions, HasAccount(request[o], pc[o])
      PROVE  cardStatus'[request[o].card] = "active"
  <2>1. cardStatus[request[o].card] = "active" /\ AccountRow(request[o].card) \in locks[o]
    BY <1>4, SessionIs DEF LockOK, Held
  <2>2. CASE UNCHANGED cardStatus
    BY <2>1, <2>2
  <2>3. CASE ArchiveAccount
    <3>1. PICK card \in Cards : AccountFree(card) /\ cardStatus' = [cardStatus EXCEPT ![card] = "archived"]
      BY <2>3 DEF ArchiveAccount, I!ArchiveAccount
    <3>2. card # request[o].card
      BY <2>1, <3>1 DEF AccountFree
    <3>3. cardStatus \in [Cards -> {"active", "archived"}]
      BY CommittedFacts DEF SInv, RowsOK
    <3> QED
      BY <2>1, <3>1, <3>2, <3>3
  <2> QED
    BY <2>2, <2>3 DEF PostCharge, I!PostCharge
<1>5. ASSUME NEW o \in Sessions PROVE SessionOK(o)'
  <2>1. /\ ClaimOK(request[o], pc[o], writes[o]) /\ PlanOK(request[o], pc[o], writes[o])
    BY SessionIs
  <2>2. Claims(request[o], pc[o]) => Claim(request[o]) \notin claims'
    BY <1>2, <2>1 DEF ClaimOK
  <2>3. Plans(request[o]) /\ pc[o] = "commit" => \A x \in plans' : x.purchase # request[o].purchase
    BY <1>2, <2>1 DEF PlanOK, I!Unplanned
  <2> QED
    BY <1>1, <1>2, <1>3, <1>4, <2>2, <2>3, StaysFine
<1>6. \A s, o \in Sessions : s # o => Apart(s, o)'
  BY <1>1 DEF SInv, Apart, Claims, Claim, Plans, Pays
<1>7. Shape'
  <2>1. IP!AllocationRow' = IP!AllocationRow
    BY DEF IP!AllocationRow, IP!MonthCycles, IP!Months
  <2> QED
    BY <1>1, <2>1 DEF SInv, Shape, HasFields
<1> QED
  BY <1>2, <1>3, <1>5, <1>6, <1>7 DEF SInv

-----------------------------------------------------------------------------
(* Every step *)

LEMMA InitSInv == Init => SInv
<1> SUFFICES ASSUME Init PROVE SInv
  OBVIOUS
<1>1. /\ locks = [s \in Sessions |-> {}] /\ pc = [s \in Sessions |-> "idle"] /\ request \in Workloads
      /\ scan = [s \in Sessions |-> <<>>] /\ writes = [s \in Sessions |-> NoWrites] /\ I!Init
  BY DEF Init
<1>2. RowsOK
  BY <1>1, CommittedRowsAreSound DEF RowsOK, ChargesAreDistinct, I!Init
<1>3. request \in [Sessions -> Request]
  BY <1>1, WorkloadAssumption DEF Request
<1>4. <<>> \in Seq(IP!AllocationRow)
  OBVIOUS
<1>5. Shape
  BY <1>1, <1>3, <1>4, NoWritesAre DEF Shape
<1>6. ASSUME NEW s \in Sessions PROVE SessionOK(s)
  BY <1>1, <1>3, BareIsFine DEF SessionOK, Bare, PcOK
<1>7. \A s, o \in Sessions : Apart(s, o)
  BY <1>1 DEF Apart, Claims
<1> QED
  BY <1>2, <1>5, <1>6, <1>7 DEF SInv

\* Every step keeps the invariant, and is an operation of Installments or changes no committed row.
LEMMA NextPreservesSInv == SInv /\ [Next]_vars => SInv' /\ [I!Next]_I!vars
<1> SUFFICES ASSUME SInv, [Next]_vars PROVE SInv' /\ [I!Next]_I!vars
  OBVIOUS
<1>1. CASE UNCHANGED vars
  <2>1. UNCHANGED <<committed, request>> /\ UNCHANGED <<pc, locks, writes, scan, request>>
    BY <1>1 DEF vars
  <2>2. RowsOK' /\ UNCHANGED I!vars
    BY <2>1, RowsStay DEF SInv
  <2>3. ASSUME NEW s \in Sessions PROVE SessionOK(s)'
    <3>1. SessionOK(s)' <=> Fine(request[s], pc[s], locks[s], writes[s], scan[s])
      BY <2>1, Moved
    <3> QED
      BY <3>1 DEF SInv, SessionOK
  <2>4. Shape'
    <3>1. IP!AllocationRow' = IP!AllocationRow
      BY DEF IP!AllocationRow, IP!MonthCycles, IP!Months
    <3> QED
      BY <2>1, <3>1 DEF SInv, Shape, HasFields
  <2>5. \A s, o \in Sessions : s # o => Apart(s, o)'
    BY <2>1 DEF SInv, Apart, Claims, Claim, Plans, Pays
  <2> QED
    BY <2>2, <2>3, <2>4, <2>5 DEF SInv
<1>2. ASSUME NEW s \in Sessions, Begin(s) PROVE SInv' /\ [I!Next]_I!vars
  BY <1>2, Begun
<1>3. ASSUME NEW s \in Sessions, LockAccount(s) \/ ClaimMutation(s) \/ ValidatePurchase(s) \/ InsertPlan(s)
      PROVE  SInv' /\ [I!Next]_I!vars
  BY <1>3, AccountLocked, KeyClaimed, PurchaseValidated, PlanInserted
<1>4. ASSUME NEW s \in Sessions, InsertStatement(s) \/ FindAllocations(s) \/ TakeUp(s)
      PROVE  SInv' /\ [I!Next]_I!vars
  BY <1>4, StatementInserted, AllocationsFound, ScanEnded, TakenUp
<1>5. ASSUME NEW s \in Sessions, LockAllocation(s) \/ LockPlan(s) \/ Pay(s)
      PROVE  SInv' /\ [I!Next]_I!vars
  BY <1>5, AllocationLocked, PlanLocked, PaymentInserted
<1>6. ASSUME NEW s \in Sessions, ReadSummaryPlan(s) \/ ReadSummaryPayments(s)
      PROVE  SInv' /\ [I!Next]_I!vars
  BY <1>6, SummaryRead
<1>7. ASSUME NEW s \in Sessions, Commit(s) PROVE SInv' /\ [I!Next]_I!vars
  <2>1. Plans(request[s]) \/ Bills(request[s]) \/ Pays(request[s])
    BY <1>7, CommitIs, SessionIs DEF PcOK, Ended
  <2> QED
    BY <1>7, <2>1, PlanCommitKeepsSInv, StatementCommitKeepsSInv, PaymentCommitKeepsSInv
<1>8. ASSUME NEW s \in Sessions, Fail(s) PROVE SInv' /\ [I!Next]_I!vars
  BY <1>8, EndPreservesSInv DEF Fail, Ended
<1>9. CASE PostCharge \/ ArchiveAccount
  BY <1>9, LedgerKeepsSInv
<1> QED
  BY <1>1, <1>2, <1>3, <1>4, <1>5, <1>6, <1>7, <1>8, <1>9 DEF Next, Progress, AllServed

-----------------------------------------------------------------------------
(* Theorems *)

\* Plans, statements and principal payments of a card at once, whatever their
\* statements interleave and whichever fail, change the rows as the atomic
\* operations of Installments do (the transactions of installment_repository.go
\* and the UPDATE of RegisterStatement at READ COMMITTED).
THEOREM SessionsImplementInstallments == Spec => ImplementsInstallments
<1>1. Init => I!Init
  BY DEF Init
<1> QED
  BY <1>1, InitSInv, NextPreservesSInv, PTL DEF Spec, ImplementsInstallments

\* The statements at which sessions wait, in the order of the locks: a session waits
\* only for sessions that are further.
WaitRank(p) ==
  CASE p = "account" -> 1 [] p = "allocation" -> 2 [] p = "take_up" -> 3
    [] p = "plan" -> 4 [] p = "claim" -> 5 [] OTHER -> 6

\* Two statements of one cycle would hold one account.
LEMMA ScanMeetsNoStatement ==
  ASSUME SInv, NEW s \in Sessions, NEW o \in Sessions \ {s}, pc[s] = "take_up", scan[s] # <<>>,
         Bills(request[o]), RowOf(Head(scan[s])) \in {RowOf(b) : b \in writes[o].allocations}
  PROVE  FALSE
<1> DEFINE r == request[s]
           q == request[o]
<1>1. /\ LockOK(r, "take_up", locks[s], writes[s]) /\ StatementOK(r, "take_up", writes[s], scan[s])
      /\ LockOK(q, pc[o], locks[o], writes[o]) /\ StatementOK(q, pc[o], writes[o], scan[o])
      /\ RowsOK /\ scan[s] \in Seq(IP!AllocationRow) /\ Apart(s, o)
  BY SessionIs DEF SInv
<1>2. Bills(r)
  BY <1>1 DEF StatementOK
<1>3. 1 \in DOMAIN scan[s] /\ Head(scan[s]) = scan[s][1]
  <2>1. PICK c \in Seq(IP!AllocationRow) : c = scan[s]
    BY <1>1
  <2>2. 1 \in DOMAIN c /\ Head(c) = c[1]
    BY <2>1
  <2> QED
    BY <2>1, <2>2
<1>4. PICK a \in allocations : RowOf(a) = RowOf(Head(scan[s])) /\ a.cycle = CycleOf(r)
  BY <1>1, <1>2, <1>3 DEF StatementOK, ScanOK
<1>5. PICK b \in writes[o].allocations : RowOf(b) = RowOf(Head(scan[s]))
  OBVIOUS
<1>6. PICK d \in PendingOf(q) : b = Allocated(d)
  BY <1>1, <1>5 DEF StatementOK
<1>7. d \in allocations /\ d.cycle = CycleOf(q)
  BY DEF PendingOf
<1>8. a = d
  BY <1>1, <1>4, <1>5, <1>6, <1>7, AllocationsAre, CommittedFacts, SameRow DEF RowsOK
<1>9. r.card = q.card
  BY <1>4, <1>7, <1>8 DEF CycleOf
<1>10. HasAccount(r, "take_up") /\ HasAccount(q, pc[o])
  BY <1>1, <1>2, <1>5 DEF StatementOK, HasAccount
<1> QED
  BY <1>1, <1>9, <1>10 DEF LockOK, Held, Apart

LEMMA WaitsAreOrdered ==
  ASSUME SInv, NEW s \in Sessions, NEW o \in WaitsFor(s)
  PROVE  o \in Sessions /\ WaitRank(pc[s]) < WaitRank(pc[o])
<1> DEFINE q == request[o]
           p == pc[o]
<1>1. o \in Sessions \ {s}
  BY DEF WaitsFor, Holders, KeyBlockers
<1>2. /\ LockOK(q, p, locks[o], writes[o]) /\ ClaimOK(q, p, writes[o]) /\ StatementOK(q, p, writes[o], scan[o])
  BY <1>1, SessionIs
<1>3. \A row \in locks[o] :
        \/ row[1] = "account" /\ HasAccount(q, p)
        \/ row[1] = "allocation" /\ HasAllocation(q, p)
        \/ row[1] = "plan" /\ HasPlan(q, p)
        \/ row[1] = "allocation" /\ Bills(q) /\ p \in {"take_up", "commit"}
             /\ row \in {RowOf(b) : b \in writes[o].allocations}
  <2>1. \A b : RowOf(b)[1] = "allocation"
    BY DEF RowOf, AllocationRow
  <2>2. Bills(q) /\ writes[o].allocations # {} => p \in {"take_up", "commit"}
    BY <1>2 DEF StatementOK
  <2> QED
    BY <1>2, <2>1, <2>2 DEF LockOK, Held, AccountRow, AllocationRow, PlanRow
<1>4. CASE pc[s] = "account"
  <2>1. PICK row \in locks[o] : row[1] = "account"
    BY <1>4 DEF WaitsFor, Holders, AccountRow
  <2>2. HasAccount(q, p)
    BY <1>3, <2>1
  <2> QED
    BY <1>1, <1>4, <2>2 DEF HasAccount, WaitRank
<1>5. CASE pc[s] = "allocation"
  <2>1. PICK row \in locks[o] : row[1] = "allocation"
    BY <1>5 DEF WaitsFor, Holders, RowOf, AllocationRow
  <2>2. HasAllocation(q, p) \/ p \in {"take_up", "commit"}
    BY <1>3, <2>1
  <2> QED
    BY <1>1, <1>5, <2>2 DEF HasAllocation, WaitRank
<1>6. CASE pc[s] = "take_up"
  <2>1. scan[s] # <<>> /\ RowOf(Head(scan[s])) \in locks[o]
    BY <1>6 DEF WaitsFor, Holders
  <2>2. RowOf(Head(scan[s]))[1] = "allocation"
    BY DEF RowOf, AllocationRow
  <2>3. HasAllocation(q, p)
    BY <1>1, <1>3, <1>6, <2>1, <2>2, ScanMeetsNoStatement
  <2> QED
    BY <1>1, <1>6, <2>3 DEF HasAllocation, WaitRank
<1>7. CASE pc[s] = "plan"
  <2>1. PICK row \in locks[o] : row[1] = "plan"
    BY <1>7 DEF WaitsFor, Holders, PlanRows, PlanRow
  <2>2. HasPlan(q, p)
    BY <1>3, <2>1
  <2> QED
    BY <1>1, <1>7, <2>2 DEF HasPlan, WaitRank
<1>8. CASE pc[s] = "claim"
  <2>1. writes[o].claims # {}
    BY <1>8 DEF WaitsFor, KeyBlockers
  <2>2. Claims(q, p)
    BY <1>2, <2>1 DEF ClaimOK
  <2> QED
    BY <1>1, <1>8, <2>2 DEF Claims, WaitRank
<1> QED
  BY <1>4, <1>5, <1>6, <1>7, <1>8 DEF WaitsFor

\* Plans, statements and payments never wait for each other in a circle: accounts
\* are locked before allocations, these before plans, these before keys, and two
\* statements that would meet at allocations meet at their account first.
THEOREM InstallmentSessionsNeverDeadlock == Spec => []NoWaitCycle
<1>1. SInv => NoWaitCycle
  <2> SUFFICES ASSUME SInv, NEW waiting \in SUBSET Sessions, waiting # {}
               PROVE  \E s \in waiting : WaitsFor(s) \cap waiting = {}
    BY DEF NoWaitCycle
  <2>1. \A s \in waiting : WaitRank(pc[s]) \in 1..6
    BY DEF WaitRank
  <2>2. PICK s \in waiting : \A o \in waiting : WaitRank(pc[o]) <= WaitRank(pc[s])
    <3> DEFINE Has(n) == \E s \in waiting : WaitRank(pc[s]) = n
    <3>1. Has(1) \/ Has(2) \/ Has(3) \/ Has(4) \/ Has(5) \/ Has(6)
      BY <2>1
    <3>2. PICK n \in 1..6 : Has(n) /\ \A m \in 1..6 : m > n => ~ Has(m)
      <4> HIDE DEF Has
      <4> QED
        BY <3>1
    <3> QED
      BY <2>1, <3>2
  <2>3. \A o \in WaitsFor(s) : WaitRank(pc[s]) < WaitRank(pc[o])
    BY WaitsAreOrdered
  <2> QED
    BY <2>1, <2>2, <2>3
<1> QED
  BY <1>1, InitSInv, NextPreservesSInv, PTL DEF Spec

\* Payments of one plan at once, statements and plans of one cycle at once leave
\* committed rows in which schedules sum to their principals, plans owe what their
\* unpaid allocations owe, and allocations of billed cycles are taken up.
THEOREM InstallmentSessionsReconcile ==
  Spec => [](/\ IP!SchedulesConservePrincipal
             /\ IP!OutstandingIsUnpaidAllocations
             /\ IP!StatementsTakeUpAllocations)
<1>1. SInv => /\ IP!SchedulesConservePrincipal
              /\ IP!OutstandingIsUnpaidAllocations
              /\ IP!StatementsTakeUpAllocations
  BY DEF SInv, RowsOK, IP!IInv, IP!MoneyInv
<1> QED
  BY <1>1, InitSInv, NextPreservesSInv, PTL DEF Spec

=============================================================================
