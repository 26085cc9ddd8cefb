-------------------------- MODULE InstallmentsProofs --------------------------
(***************************************************************************)
(* Theorems of Installments for every set of cards, keys and amounts, any  *)
(* number of installments and any last month.  IInv says which row belongs *)
(* to which and needs no arithmetic.  MoneyInv says what the rows add up   *)
(* to: that the parts of a schedule are its principal is proved by the     *)
(* smallest counterexample over the number of parts, and what is owed by   *)
(* following how each operation changes one term of a sum (SumTheorems).   *)
(***************************************************************************)
EXTENDS Installments, SumTheorems

\* A key that is free names no plan.
PlansAreClaimed == \A p \in plans : <<"create_installment_plan", p.id>> \in claims

PlansAreDistinct == \A p, q \in plans : p.id = q.id \/ p.purchase = q.purchase => p = q

PlansArePosted ==
  \A p \in plans : [id |-> p.purchase, card |-> p.card, amount |-> p.principal] \in charges

AllocationsArePlanned == \A a \in allocations : \E p \in plans : p.id = a.plan

NumbersAreDistinct == \A a, b \in allocations : a.plan = b.plan /\ a.number = b.number => a = b

IInv ==
  /\ TypeOK
  /\ PlansAreClaimed
  /\ PlansAreDistinct
  /\ PlansArePosted
  /\ AllocationsArePlanned
  /\ NumbersAreDistinct
  /\ StatementsTakeUpAllocations

-----------------------------------------------------------------------------
(* Terms *)

LEMMA TermsArePositive ==
  /\ \A n \in Principals : n \in Nat /\ n > 0
  /\ \A n \in Amounts : n \in Nat /\ n > 0
  /\ LastMonth \in Nat /\ MaxInstallments \in Nat
BY PrincipalAssumption, BoundAssumption

\* A principal of at least one minor unit per installment leaves none empty.
LEMMA InstallmentsArePositive ==
  ASSUME NEW principal \in Nat, NEW count \in Nat \ {0}, NEW n \in Nat, count <= principal
  PROVE  InstallmentPrincipal(principal, count, n) \in Nat \ {0}
<1>1. principal \div count \in Nat
  OBVIOUS
<1>2. principal \div count >= 1
  OBVIOUS
<1> QED
  BY <1>1, <1>2 DEF InstallmentPrincipal

\* The rows of a schedule: one to a number, in cycles of the card that have
\* supported dates, taken up where the cycle has a statement already.
LEMMA RowsOfSchedule ==
  ASSUME TypeOK, NEW key \in Keys, NEW charge \in charges, NEW count \in 1..MaxInstallments,
         NEW first \in Months, Schedulable(charge.amount, count, first)
  PROVE  /\ Schedule(key, charge, count, first) \subseteq AllocationRow
         /\ \A a \in Schedule(key, charge, count, first) :
              /\ a.plan = key
              /\ a.status = IF a.cycle \in billed THEN "statement_allocated" ELSE "pending"
         /\ \A a, b \in Schedule(key, charge, count, first) : a.number = b.number => a = b
<1> DEFINE Row(n) ==
             [plan |-> key, number |-> n, cycle |-> <<charge.card, first + n - 1>>,
              principal |-> InstallmentPrincipal(charge.amount, count, n),
              status |-> InitialStatus(<<charge.card, first + n - 1>>)]
<1>1. charge.card \in Cards /\ charge.amount \in Nat
  <2>1. charge \in ChargeRow
    BY DEF TypeOK
  <2> QED
    BY <2>1, TermsArePositive DEF ChargeRow
<1>2. ASSUME NEW n \in 1..count
      PROVE  /\ n \in 1..MaxInstallments
             /\ first + n - 1 \in Months
             /\ InstallmentPrincipal(charge.amount, count, n) \in Nat \ {0}
  <2>1. count <= charge.amount /\ first + count - 1 <= LastMonth
    BY DEF Schedulable
  <2>2. n \in 1..MaxInstallments /\ first + n - 1 \in Months
    BY <2>1, TermsArePositive DEF Months
  <2>3. count \in Nat \ {0} /\ n \in Nat
    BY TermsArePositive
  <2> QED
    BY <1>1, <2>1, <2>2, <2>3, InstallmentsArePositive
<1>3. \A cycle : InitialStatus(cycle) = IF cycle \in billed THEN "statement_allocated" ELSE "pending"
  BY DEF InitialStatus
<1>4. \A n \in 1..count :
        /\ Row(n) \in AllocationRow
        /\ Row(n).plan = key
        /\ Row(n).number = n
        /\ Row(n).status = IF Row(n).cycle \in billed THEN "statement_allocated" ELSE "pending"
  BY <1>1, <1>2, <1>3 DEF AllocationRow, MonthCycles
<1>5. Schedule(key, charge, count, first) = {Row(n) : n \in 1..count}
  BY DEF Schedule
<1> HIDE DEF Row
<1> QED
  BY <1>4, <1>5

\* A status is all that changes of an allocation.
LEMMA AdvancedAllocation ==
  ASSUME NEW a \in AllocationRow, NEW status \in {"statement_allocated", "paid"}
  PROVE  LET b == [a EXCEPT !.status = status] IN
         /\ b \in AllocationRow
         /\ b.plan = a.plan /\ b.number = a.number /\ b.cycle = a.cycle /\ b.status = status
         /\ [a EXCEPT !.status = b.status] = b
BY DEF AllocationRow

LEMMA SameAllocation ==
  ASSUME NEW a \in AllocationRow
  PROVE  [a EXCEPT !.status = a.status] = a
BY DEF AllocationRow

LEMMA CompletedPlan ==
  ASSUME NEW p \in PlanRow
  PROVE  LET q == [p EXCEPT !.status = "completed"] IN
         /\ q \in PlanRow
         /\ q.id = p.id /\ q.purchase = p.purchase /\ q.card = p.card /\ q.principal = p.principal
BY DEF PlanRow

\* The plan an allocation belongs to.
LEMMA PlanOfAllocation ==
  ASSUME IInv, NEW a \in allocations
  PROVE  PlanOf(a) \in plans /\ PlanOf(a).id = a.plan
BY DEF IInv, AllocationsArePlanned, PlanOf

-----------------------------------------------------------------------------
(* Each operation preserves the invariant *)

LEMMA LedgerPreservesIInv ==
  ASSUME IInv,
         UNCHANGED <<billed, plans, allocations, principalPayments, claims>>,
         charges \subseteq charges', charges' \subseteq ChargeRow,
         cardStatus' \in [Cards -> {"active", "archived"}]
  PROVE  IInv'
BY DEF IInv, TypeOK, PlansAreClaimed, PlansAreDistinct, PlansArePosted, AllocationsArePlanned,
       NumbersAreDistinct, StatementsTakeUpAllocations

LEMMA CreatePreservesIInv ==
  ASSUME IInv, NEW key \in Keys, NEW charge \in charges, NEW count \in 1..MaxInstallments,
         NEW first \in Months, CreateInstallmentPlan(key, charge, count, first)
  PROVE  IInv'
<1> DEFINE new == [id |-> key, card |-> charge.card, purchase |-> charge.id,
                   principal |-> charge.amount, count |-> count, status |-> "active"]
           rows == Schedule(key, charge, count, first)
<1>1. /\ plans' = plans \cup {new}
      /\ allocations' = allocations \cup rows
      /\ claims' = claims \cup {<<"create_installment_plan", key>>}
      /\ UNCHANGED <<cardStatus, charges, billed, principalPayments>>
      /\ Schedulable(charge.amount, count, first)
      /\ \A p \in plans : p.purchase # charge.id
      /\ <<"create_installment_plan", key>> \notin claims
  BY DEF CreateInstallmentPlan, Unplanned, Unclaimed
<1>2. /\ rows \subseteq AllocationRow
      /\ \A a \in rows : /\ a.plan = key
                         /\ a.status = IF a.cycle \in billed THEN "statement_allocated" ELSE "pending"
      /\ \A a, b \in rows : a.number = b.number => a = b
  BY <1>1, RowsOfSchedule DEF IInv
<1>3. charge \in ChargeRow
  BY DEF IInv, TypeOK
<1>4. /\ new \in PlanRow /\ new.id = key /\ new.purchase = charge.id
      /\ [id |-> new.purchase, card |-> new.card, amount |-> new.principal] = charge
  BY <1>3 DEF PlanRow, ChargeRow
<1>5. \A p \in plans : p.id # key
  BY <1>1 DEF IInv, PlansAreClaimed
<1>6. \A a \in allocations : a.plan # key
  BY <1>5 DEF IInv, AllocationsArePlanned
<1> HIDE DEF new, rows
<1>7. TypeOK'
  BY <1>1, <1>2, <1>4 DEF IInv, TypeOK, Operations
<1>8. PlansAreClaimed' /\ PlansAreDistinct'
  BY <1>1, <1>4, <1>5 DEF IInv, PlansAreClaimed, PlansAreDistinct
<1>9. PlansArePosted'
  BY <1>1, <1>4 DEF IInv, PlansArePosted
<1>10. AllocationsArePlanned'
  BY <1>1, <1>2, <1>4 DEF IInv, AllocationsArePlanned
<1>11. NumbersAreDistinct'
  BY <1>1, <1>2, <1>6 DEF IInv, NumbersAreDistinct
<1>12. StatementsTakeUpAllocations'
  BY <1>1, <1>2 DEF IInv, StatementsTakeUpAllocations
<1> QED
  BY <1>7, <1>8, <1>9, <1>10, <1>11, <1>12 DEF IInv

\* What a statement makes of an allocation.
LEMMA TakenUpAllocation ==
  ASSUME IInv, NEW cycle, NEW b \in TakenUp(cycle)
  PROVE  \E a \in allocations :
           /\ b = a \/ (a.cycle = cycle /\ a.status = "pending" /\ b.status = "statement_allocated")
           /\ (a.cycle = cycle /\ a.status = "pending") => b.status = "statement_allocated"
           /\ b \in AllocationRow
           /\ b.plan = a.plan /\ b.number = a.number /\ b.cycle = a.cycle
           /\ [a EXCEPT !.status = b.status] = b
<1>1. PICK a \in allocations :
        b = IF a.cycle = cycle /\ a.status = "pending" THEN [a EXCEPT !.status = "statement_allocated"] ELSE a
  BY DEF TakenUp
<1>2. a \in AllocationRow
  BY DEF IInv, TypeOK
<1>3. CASE a.cycle = cycle /\ a.status = "pending"
  BY <1>1, <1>2, <1>3, AdvancedAllocation
<1>4. CASE ~ (a.cycle = cycle /\ a.status = "pending")
  BY <1>1, <1>2, <1>4, SameAllocation
<1> QED
  BY <1>3, <1>4

LEMMA RegisterPreservesIInv ==
  ASSUME IInv, NEW cycle \in MonthCycles, RegisterStatement(cycle)
  PROVE  IInv'
<1>1. /\ billed' = billed \cup {cycle}
      /\ allocations' = TakenUp(cycle)
      /\ UNCHANGED <<cardStatus, charges, plans, principalPayments, claims>>
  BY DEF RegisterStatement
<1>2. \A b \in allocations' : \E a \in allocations :
        /\ b = a \/ (a.cycle = cycle /\ a.status = "pending" /\ b.status = "statement_allocated")
        /\ (a.cycle = cycle /\ a.status = "pending") => b.status = "statement_allocated"
        /\ b \in AllocationRow
        /\ b.plan = a.plan /\ b.number = a.number /\ b.cycle = a.cycle
  BY <1>1, TakenUpAllocation
<1>3. TypeOK'
  BY <1>1, <1>2 DEF IInv, TypeOK
<1>4. PlansAreClaimed' /\ PlansAreDistinct' /\ PlansArePosted'
  BY <1>1 DEF IInv, PlansAreClaimed, PlansAreDistinct, PlansArePosted
<1>5. AllocationsArePlanned'
  BY <1>1, <1>2 DEF IInv, AllocationsArePlanned
<1>6. NumbersAreDistinct'
  <2> SUFFICES ASSUME NEW b \in allocations', NEW d \in allocations', b.plan = d.plan, b.number = d.number
               PROVE  b = d
    BY DEF NumbersAreDistinct
  <2>1. PICK a \in allocations :
          b = IF a.cycle = cycle /\ a.status = "pending" THEN [a EXCEPT !.status = "statement_allocated"] ELSE a
    BY <1>1 DEF TakenUp
  <2>2. PICK c \in allocations :
          d = IF c.cycle = cycle /\ c.status = "pending" THEN [c EXCEPT !.status = "statement_allocated"] ELSE c
    BY <1>1 DEF TakenUp
  <2>3. a \in AllocationRow /\ c \in AllocationRow
    BY DEF IInv, TypeOK
  <2>4. b.plan = a.plan /\ b.number = a.number /\ d.plan = c.plan /\ d.number = c.number
    BY <2>1, <2>2, <2>3 DEF AllocationRow
  <2>5. a = c
    BY <2>4 DEF IInv, NumbersAreDistinct
  <2> QED
    BY <2>1, <2>2, <2>5
<1>7. StatementsTakeUpAllocations'
  <2> SUFFICES ASSUME NEW b \in allocations', b.status # "paid"
               PROVE  b.status = IF b.cycle \in billed' THEN "statement_allocated" ELSE "pending"
    BY DEF StatementsTakeUpAllocations
  <2>1. PICK a \in allocations :
          /\ b = a \/ (a.cycle = cycle /\ a.status = "pending" /\ b.status = "statement_allocated")
          /\ (a.cycle = cycle /\ a.status = "pending") => b.status = "statement_allocated"
          /\ b.cycle = a.cycle
    BY <1>2
  <2>2. a.status # "paid" => a.status = IF a.cycle \in billed THEN "statement_allocated" ELSE "pending"
    BY DEF IInv, StatementsTakeUpAllocations
  <2>3. CASE a.cycle = cycle /\ a.status = "pending"
    BY <1>1, <2>1, <2>3
  <2>4. CASE ~ (a.cycle = cycle /\ a.status = "pending")
    BY <1>1, <2>1, <2>2, <2>4
  <2> QED
    BY <2>3, <2>4
<1> QED
  BY <1>3, <1>4, <1>5, <1>6, <1>7 DEF IInv

LEMMA RecordPreservesIInv ==
  ASSUME IInv, NEW key \in Keys, NEW a \in allocations, NEW amount \in Amounts,
         RecordPrincipalPayment(key, a, amount)
  PROVE  IInv'
<1> DEFINE payment == [id |-> key, plan |-> a.plan, number |-> a.number, amount |-> amount]
           paid == [a EXCEPT !.status = "paid"]
           plan == PlanOf(a)
           completed == [plan EXCEPT !.status = "completed"]
<1>1. /\ principalPayments' = principalPayments \cup {payment}
      /\ allocations' = (allocations \ {a}) \cup {paid} \/ UNCHANGED allocations
      /\ plans' = (plans \ {plan}) \cup {completed} \/ UNCHANGED plans
      /\ claims' = claims \cup {<<"record_installment_principal_payment", key>>}
      /\ UNCHANGED <<cardStatus, charges, billed>>
  BY DEF RecordPrincipalPayment
<1>2. plan \in plans /\ plan \in PlanRow /\ a \in AllocationRow
  BY PlanOfAllocation DEF IInv, TypeOK
<1>3. /\ paid \in AllocationRow /\ paid.plan = a.plan /\ paid.number = a.number
      /\ paid.status = "paid"
  BY <1>2, AdvancedAllocation
<1>4. /\ completed \in PlanRow /\ completed.id = plan.id /\ completed.purchase = plan.purchase
      /\ completed.card = plan.card /\ completed.principal = plan.principal
  BY <1>2, CompletedPlan
<1>5. payment \in PaymentRow
  BY <1>2 DEF AllocationRow, PaymentRow
<1> HIDE DEF payment, paid, plan, completed
<1>6. TypeOK'
  BY <1>1, <1>3, <1>4, <1>5 DEF IInv, TypeOK, Operations
<1>7. PlansAreClaimed' /\ PlansAreDistinct' /\ PlansArePosted'
  BY <1>1, <1>2, <1>4 DEF IInv, PlansAreClaimed, PlansAreDistinct, PlansArePosted
<1>8. \A p \in plans : \E q \in plans' : q.id = p.id
  BY <1>1, <1>4
<1>9. \A b \in allocations' : \E c \in allocations : b.plan = c.plan
  BY <1>1, <1>3
<1>10. AllocationsArePlanned'
  BY <1>8, <1>9 DEF IInv, AllocationsArePlanned
<1>11. NumbersAreDistinct'
  BY <1>1, <1>3 DEF IInv, NumbersAreDistinct
<1>12. StatementsTakeUpAllocations'
  BY <1>1, <1>3 DEF IInv, StatementsTakeUpAllocations
<1> QED
  BY <1>6, <1>7, <1>10, <1>11, <1>12 DEF IInv

-----------------------------------------------------------------------------
(* A schedule and its principal *)

\* The parts of a principal add up to it: the quotient for each, and the
\* remainder among the first.
LEMMA PartsAddUp ==
  ASSUME NEW principal \in Nat, NEW count \in Nat \ {0}
  PROVE  SumFunction([n \in 1..count |-> InstallmentPrincipal(principal, count, n)]) = principal
<1> DEFINE q == principal \div count
           r == principal % count
           first(k) == [n \in 1..k |-> InstallmentPrincipal(principal, count, n)]
           upTo(k) == k * q + (IF k <= r THEN k ELSE r)
           Refuted == {k \in 0..count : SumFunction(first(k)) # upTo(k)}
<1>1. q \in Nat /\ r \in Nat /\ r < count /\ principal = count * q + r
  OBVIOUS
<1>2. \A k \in Nat : first(k) \in [1..k -> Int] /\ IsFiniteSet(1..k)
  <2>1. \A n \in Nat : InstallmentPrincipal(principal, count, n) \in Int
    BY <1>1 DEF InstallmentPrincipal
  <2> QED
    BY <2>1, FS_Interval
<1>3. Refuted = {}
  <2>1. SUFFICES ASSUME Refuted # {}
                 PROVE  FALSE
    OBVIOUS
  <2>2. PICK k \in Refuted : \A m \in Refuted : k <= m
    <3>1. Refuted \in SUBSET Nat
      OBVIOUS
    <3> HIDE DEF Refuted
    <3> QED
      BY <2>1, <3>1, LeastNumber
  <2>3. k # 0
    <3>1. 1..0 = {}
      OBVIOUS
    <3>2. SumFunction(first(0)) = 0
      <4>1. first(0) \in [1..0 -> Int] /\ IsFiniteSet(1..0)
        BY <1>2
      <4> HIDE DEF first
      <4> QED
        BY <4>1, <3>1, SumType
    <3>3. upTo(0) = 0
      BY <1>1
    <3> QED
      BY <3>2, <3>3
  <2>4. k - 1 \in 0..count /\ k \in Nat /\ k - 1 \in Nat
    BY <2>3
  <2>5. SumFunction(first(k - 1)) = upTo(k - 1)
    <3>1. k - 1 \notin Refuted
      <4> HIDE DEF Refuted
      <4> QED
        BY <2>2, <2>4
    <3> HIDE DEF first, upTo
    <3> QED
      BY <2>4, <3>1
  <2>6. SumFunction(first(k)) = SumFunction(first(k - 1)) + first(k)[k]
    <3>1. 1..k = (1..(k - 1)) \cup {k} /\ k \notin 1..(k - 1)
      BY <2>3, <2>4
    <3>2. \A n \in 1..(k - 1) : first(k)[n] = first(k - 1)[n]
      BY <3>1
    <3>3. /\ first(k) \in [(1..(k - 1)) \cup {k} -> Int]
          /\ first(k - 1) \in [1..(k - 1) -> Int] /\ IsFiniteSet(1..(k - 1))
      BY <1>2, <2>4, <3>1
    <3> DEFINE f == first(k - 1)
               g == first(k)
               earlier == 1..(k - 1)
    <3>4. /\ g \in [(1..(k - 1)) \cup {k} -> Int] /\ f \in [1..(k - 1) -> Int]
          /\ \A n \in 1..(k - 1) : g[n] = f[n]
      BY <3>2, <3>3
    <3>5. /\ IsFiniteSet(earlier) /\ k \notin earlier
          /\ g \in [earlier \cup {k} -> Int] /\ f \in [earlier -> Int]
          /\ \A n \in earlier : g[n] = f[n]
      BY <3>1, <3>3, <3>4
    <3> HIDE DEF f, g, earlier, Refuted
    <3>6. SumFunction(g) = SumFunction(f) + g[k]
      BY <3>5, SumWith
    <3> QED
      BY <3>6 DEF f, g
  <2>7. first(k)[k] = q + (IF k <= r THEN 1 ELSE 0)
    BY <2>3, <2>4 DEF InstallmentPrincipal
  <2>8. upTo(k) = upTo(k - 1) + q + (IF k <= r THEN 1 ELSE 0)
    <3>1. k * q = (k - 1) * q + q
      BY <1>1, <2>4
    <3> HIDE DEF q, r
    <3> QED
      BY <1>1, <2>4, <3>1
  <2>9. upTo(k - 1) \in Int
    BY <1>1, <2>4
  <2>10. SumFunction(first(k)) = upTo(k)
    <3> HIDE DEF first, upTo, q, r
    <3> QED
      BY <1>1, <2>5, <2>6, <2>7, <2>8, <2>9
  <2> QED
    BY <2>10
<1>4. SumFunction(first(count)) = upTo(count)
  <2>1. count \in 0..count
    OBVIOUS
  <2> HIDE DEF first, upTo
  <2> QED
    BY <1>3, <2>1
<1>5. upTo(count) = principal
  BY <1>1
<1> QED
  BY <1>4, <1>5

\* Parts of a principal differ by one minor unit at most, and the larger come first.
LEMMA PartsAreEven ==
  ASSUME NEW principal \in Nat, NEW count \in Nat \ {0}, NEW m \in Nat, NEW n \in Nat, m < n
  PROVE  InstallmentPrincipal(principal, count, m) - InstallmentPrincipal(principal, count, n) \in {0, 1}
<1>1. principal \div count \in Nat /\ principal % count \in Nat
  OBVIOUS
<1> QED
  BY <1>1 DEF InstallmentPrincipal

\* The rows of a schedule are the principal of its plan, one to an installment.
LEMMA ScheduleDividesPrincipal ==
  ASSUME TypeOK, NEW key \in Keys, NEW charge \in charges, NEW count \in 1..MaxInstallments,
         NEW first \in Months, Schedulable(charge.amount, count, first),
         NEW plan, plan.count = count, plan.principal = charge.amount
  PROVE  /\ IsFiniteSet(Schedule(key, charge, count, first))
         /\ SpreadOver(plan, Schedule(key, charge, count, first))
<1> DEFINE Row(n) ==
             [plan |-> key, number |-> n, cycle |-> <<charge.card, first + n - 1>>,
              principal |-> InstallmentPrincipal(charge.amount, count, n),
              status |-> InitialStatus(<<charge.card, first + n - 1>>)]
           rows == Schedule(key, charge, count, first)
           numbers == 1..count
           row == [n \in numbers |-> Row(n)]
           part == [n \in numbers |-> InstallmentPrincipal(charge.amount, count, n)]
           principal == [a \in rows |-> a.principal]
<1>1. charge.amount \in Nat /\ count \in Nat \ {0} /\ first \in Nat
  <2>1. charge \in ChargeRow
    BY DEF TypeOK
  <2> QED
    BY <2>1, TermsArePositive DEF ChargeRow, Months
<1>2. rows = {row[n] : n \in numbers}
  BY DEF Schedule
<1>3. \A n \in numbers : /\ row[n].number = n /\ row[n].cycle = <<charge.card, first + n - 1>>
                         /\ row[n].principal = part[n]
  OBVIOUS
<1>4. \A n \in numbers : n \in Nat
  BY <1>1
<1>5. part \in [numbers -> Int]
  <2>1. charge.amount \div count \in Int
    BY <1>1
  <2> QED
    BY <2>1 DEF InstallmentPrincipal
<1>6. SumFunction(part) = charge.amount
  BY <1>1, PartsAddUp
<1>7. \A m, n \in numbers : m < n => part[m] - part[n] \in {0, 1}
  BY <1>1, <1>4, PartsAreEven
<1>8. IsFiniteSet(numbers) /\ Cardinality(numbers) = count
  BY <1>1, FS_Interval
<1>9. /\ row = [n \in numbers |-> row[n]]
      /\ principal = [a \in rows |-> principal[a]] /\ \A a \in rows : principal[a] = a.principal
  OBVIOUS
<1>10. \A m, n \in numbers : <<charge.card, first + m - 1>> = <<charge.card, first + n - 1>> => m = n
  BY <1>1, <1>4
<1> HIDE DEF row, part, numbers, Row, rows
<1>11. \A m, n \in numbers : row[m] = row[n] => m = n
  BY <1>3
<1>12. row \in Bijection(numbers, rows)
  <2>1. row \in [numbers -> rows]
    BY <1>2, <1>9
  <2> QED
    BY <1>2, <1>11, <2>1 DEF Bijection, Injection, Surjection, IsInjective
<1>13. IsFiniteSet(rows) /\ Cardinality(rows) = count
  <2>1. ExistsBijection(numbers, rows)
    BY <1>12 DEF ExistsBijection
  <2> QED
    BY <1>8, <2>1, FS_Bijection
<1>14. \A n \in numbers : row[n] \in rows /\ principal[row[n]] = part[n]
  BY <1>2, <1>3
<1>15. SumFunction(principal) = charge.amount
  <2>1. principal \in [{row[n] : n \in numbers} -> Int]
    <3> HIDE DEF principal
    <3>1. \A a \in rows : principal[a] \in Int
      BY <1>2, <1>5, <1>14
    <3> QED
      BY <1>2, <1>9, <3>1
  <2> HIDE DEF principal
  <2>2. SumFunction(principal) = SumFunction(part)
    BY <1>5, <1>8, <1>11, <1>14, <2>1, SumRewritten
  <2> QED
    BY <1>6, <2>2
<1>16. ASSUME NEW a \in rows, NEW b \in rows
       PROVE  /\ a.number < b.number => a.principal - b.principal \in {0, 1}
              /\ a.cycle = b.cycle \/ a.number = b.number => a = b
  <2>1. PICK m \in numbers : a = row[m]
    BY <1>2
  <2>2. PICK n \in numbers : b = row[n]
    BY <1>2
  <2> QED
    BY <1>3, <1>7, <1>10, <2>1, <2>2
<1> QED
  BY <1>13, <1>15, <1>16 DEF rows, SpreadOver

\* Allocations that keep their number, cycle and principal are spread as they were.
LEMMA RestatedSchedule ==
  ASSUME NEW S, IsFiniteSet(S), S \subseteq AllocationRow, NEW h,
         \A a \in S : h[a].number = a.number /\ h[a].cycle = a.cycle /\ h[a].principal = a.principal,
         NEW p, SpreadOver(p, S), NEW q, q.count = p.count, q.principal = p.principal
  PROVE  SpreadOver(q, {h[a] : a \in S})
<1> DEFINE T == {h[a] : a \in S}
           f == [a \in S |-> a.principal]
           g == [b \in T |-> b.principal]
           move == [a \in S |-> h[a]]
<1>1. /\ Cardinality(S) = p.count /\ SumFunction(f) = p.principal
      /\ \A a, b \in S : a.number < b.number => a.principal - b.principal \in {0, 1}
      /\ \A a, b \in S : a.cycle = b.cycle \/ a.number = b.number => a = b
  BY DEF SpreadOver
<1>2. \A a, b \in S : h[a] = h[b] => a = b
  BY <1>1
<1>3. Cardinality(T) = Cardinality(S)
  <2>1. move \in Bijection(S, T)
    BY <1>2 DEF Bijection, Injection, Surjection, IsInjective
  <2>2. ExistsBijection(S, T)
    BY <2>1 DEF ExistsBijection
  <2> QED
    BY <2>2, FS_Bijection
<1>4. \A a \in S : a.principal \in Int
  BY DEF AllocationRow
<1>5. f \in [S -> Int] /\ g \in [{h[a] : a \in S} -> Int] /\ \A a \in S : g[h[a]] = f[a]
  BY <1>4
<1>6. SumFunction(g) = SumFunction(f)
  <2> HIDE DEF f, g, T
  <2> QED
    BY <1>2, <1>5, SumRewritten, SMTT(30)
<1>7. ASSUME NEW b \in T, NEW d \in T
      PROVE  /\ b.number < d.number => b.principal - d.principal \in {0, 1}
             /\ b.cycle = d.cycle \/ b.number = d.number => b = d
  <2>1. PICK a \in S : b = h[a]
    OBVIOUS
  <2>2. PICK c \in S : d = h[c]
    OBVIOUS
  <2> QED
    BY <1>1, <2>1, <2>2
<1> QED
  BY <1>1, <1>3, <1>6, <1>7 DEF SpreadOver

-----------------------------------------------------------------------------
(* What is paid and what is owed *)

\* A key that is free names no payment.
PaymentsAreClaimed ==
  \A x \in principalPayments : <<"record_installment_principal_payment", x.id>> \in claims

PaymentsArePlanned == \A x \in principalPayments : \E p \in plans : p.id = x.plan

\* What is paid of a plan and of its allocations agrees with the payments.
MoneyInv ==
  /\ IsFiniteSet(charges) /\ IsFiniteSet(plans) /\ IsFiniteSet(allocations) /\ IsFiniteSet(principalPayments)
  /\ PaymentsAreClaimed
  /\ PaymentsArePlanned
  /\ SchedulesConservePrincipal
  /\ OutstandingIsUnpaidAllocations

\* What some payments add up to, and what one more adds to it.
LEMMA PaymentsAddUp ==
  ASSUME NEW S, S \subseteq PaymentRow, IsFiniteSet(S)
  PROVE  /\ SumFunction([x \in S |-> x.amount]) \in Nat
         /\ S = {} => SumFunction([x \in S |-> x.amount]) = 0
         /\ \A new \in PaymentRow \ S :
              SumFunction([x \in S \cup {new} |-> x.amount]) = SumFunction([x \in S |-> x.amount]) + new.amount
<1> DEFINE f == [x \in S |-> x.amount]
<1>1. \A x \in PaymentRow : x.amount \in Nat
  BY TermsArePositive DEF PaymentRow
<1>2. f \in [S -> Nat]
  BY <1>1
<1>3. f \in [S -> Int]
  BY <1>2
<1>4. SumFunction(f) \in Nat /\ (S = {} => SumFunction(f) = 0)
  <2> HIDE DEF f
  <2> QED
    BY <1>2, <1>3, SumType
<1>5. ASSUME NEW new \in PaymentRow \ S
      PROVE  SumFunction([x \in S \cup {new} |-> x.amount]) = SumFunction(f) + new.amount
  <2> DEFINE g == [x \in S \cup {new} |-> x.amount]
  <2>1. /\ new \notin S
        /\ g \in [S \cup {new} -> Int] /\ g[new] = new.amount /\ \A x \in S : g[x] = f[x]
    BY <1>1
  <2> HIDE DEF f, g
  <2>2. SumFunction(g) = SumFunction(f) + g[new]
    BY <1>3, <2>1, SumWith
  <2> QED
    BY <2>1, <2>2 DEF g
<1> QED
  BY <1>4, <1>5

\* A payment lowers what is unpaid of its allocation and outstanding of its plan, and of no other.
LEMMA PaymentLowers ==
  ASSUME principalPayments \subseteq PaymentRow, IsFiniteSet(principalPayments),
         NEW new \in PaymentRow, new \notin principalPayments,
         principalPayments' = principalPayments \cup {new}
  PROVE  /\ \A b : Paid(b) \in Nat /\ PaidPrincipal(b) \in Nat
         /\ \A b : Paid(b)' = IF b.plan = new.plan /\ b.number = new.number
                                THEN Paid(b) + new.amount ELSE Paid(b)
         /\ \A p : PaidPrincipal(p)' = IF p.id = new.plan
                                         THEN PaidPrincipal(p) + new.amount ELSE PaidPrincipal(p)
<1>1. ASSUME NEW S, S \subseteq principalPayments
      PROVE  /\ SumFunction([x \in S |-> x.amount]) \in Nat
             /\ SumFunction([x \in S \cup {new} |-> x.amount]) = SumFunction([x \in S |-> x.amount]) + new.amount
  <2>1. S \subseteq PaymentRow /\ IsFiniteSet(S) /\ new \in PaymentRow \ S
    BY <1>1, FS_Subset
  <2> QED
    BY <2>1, PaymentsAddUp
<1>2. ASSUME NEW b
      PROVE  /\ Paid(b) \in Nat
             /\ Paid(b)' = IF b.plan = new.plan /\ b.number = new.number
                             THEN Paid(b) + new.amount ELSE Paid(b)
  <2>1. PaymentsTo(b) \subseteq principalPayments
    BY DEF PaymentsTo
  <2>2. CASE b.plan = new.plan /\ b.number = new.number
    <3>1. PaymentsTo(b)' = PaymentsTo(b) \cup {new}
      BY <2>2 DEF PaymentsTo
    <3> QED
      BY <1>1, <2>1, <2>2, <3>1 DEF Paid
  <2>3. CASE ~ (b.plan = new.plan /\ b.number = new.number)
    <3>1. PaymentsTo(b)' = PaymentsTo(b)
      BY <2>3 DEF PaymentsTo
    <3> QED
      BY <1>1, <2>1, <2>3, <3>1 DEF Paid
  <2> QED
    BY <2>2, <2>3
<1>3. ASSUME NEW p
      PROVE  /\ PaidPrincipal(p) \in Nat
             /\ PaidPrincipal(p)' = IF p.id = new.plan THEN PaidPrincipal(p) + new.amount ELSE PaidPrincipal(p)
  <2>1. PaymentsOf(p) \subseteq principalPayments
    BY DEF PaymentsOf
  <2>2. CASE p.id = new.plan
    <3>1. PaymentsOf(p)' = PaymentsOf(p) \cup {new}
      BY <2>2 DEF PaymentsOf
    <3> QED
      BY <1>1, <2>1, <2>2, <3>1 DEF PaidPrincipal
  <2>3. CASE p.id # new.plan
    <3>1. PaymentsOf(p)' = PaymentsOf(p)
      BY <2>3 DEF PaymentsOf
    <3> QED
      BY <1>1, <2>1, <2>3, <3>1 DEF PaidPrincipal
  <2> QED
    BY <2>2, <2>3
<1> QED
  BY <1>2, <1>3

\* Without a payment, what is paid stays.
LEMMA PaidStays ==
  ASSUME UNCHANGED principalPayments
  PROVE  \A b : Paid(b)' = Paid(b) /\ PaidPrincipal(b)' = PaidPrincipal(b)
BY DEF Paid, PaidPrincipal, PaymentsTo, PaymentsOf

\* Nothing is paid before the first payment.
LEMMA NothingPaid ==
  /\ \A a : PaymentsTo(a) = {} => Paid(a) = 0
  /\ \A p : PaymentsOf(p) = {} => PaidPrincipal(p) = 0
<1>1. {} \subseteq PaymentRow /\ IsFiniteSet({})
  BY FS_EmptySet
<1>2. SumFunction([x \in {} |-> x.amount]) = 0
  BY <1>1, PaymentsAddUp
<1> QED
  BY <1>2 DEF Paid, PaidPrincipal

\* Steps that advance allocations and leave the terms of plans keep every schedule.
LEMMA AdvancingKeepsSchedules ==
  ASSUME allocations \subseteq AllocationRow, IsFiniteSet(allocations), SchedulesConservePrincipal, NEW h,
         allocations' = {h[a] : a \in allocations},
         \A a \in allocations : /\ h[a].plan = a.plan /\ h[a].number = a.number
                                /\ h[a].cycle = a.cycle /\ h[a].principal = a.principal,
         \A q \in plans' : \E p \in plans : q.id = p.id /\ q.count = p.count /\ q.principal = p.principal
  PROVE  IsFiniteSet(allocations') /\ SchedulesConservePrincipal'
<1>1. IsFiniteSet({h[a] : a \in allocations})
  <2> DEFINE move == [a \in allocations |-> h[a]]
  <2>1. move \in Surjection(allocations, {h[a] : a \in allocations})
    BY DEF Surjection
  <2> QED
    BY <2>1, FS_Surjection
<1>2. ASSUME NEW q \in plans'
      PROVE  SpreadOver(q, AllocationsOf(q)')
  <2>1. PICK p \in plans : q.id = p.id /\ q.count = p.count /\ q.principal = p.principal
    OBVIOUS
  <2> DEFINE S == AllocationsOf(p)
  <2>2. AllocationsOf(q)' = {h[a] : a \in S}
    BY <2>1 DEF AllocationsOf
  <2>3. SpreadOver(p, S) /\ S \subseteq AllocationRow /\ IsFiniteSet(S)
    BY FS_Subset DEF SchedulesConservePrincipal, AllocationsOf
  <2>4. \A a \in S : h[a].number = a.number /\ h[a].cycle = a.cycle /\ h[a].principal = a.principal
    BY DEF AllocationsOf
  <2> HIDE DEF S
  <2>5. SpreadOver(q, {h[a] : a \in S})
    BY <2>1, <2>3, <2>4, RestatedSchedule
  <2> QED
    BY <2>2, <2>5
<1> QED
  BY <1>1, <1>2 DEF SchedulesConservePrincipal, SpreadOver

\* The parts of OutstandingIsUnpaidAllocations.
PlanOwes(p) ==
  /\ Outstanding(p) = SumFunction([a \in UnpaidAllocationsOf(p) |-> Unpaid(a)])
  /\ p.status = "completed" <=> Outstanding(p) = 0

AllocationOwes(a) == Unpaid(a) >= 0 /\ (a.status = "paid" <=> Unpaid(a) = 0)

LEMMA OwedInParts ==
  OutstandingIsUnpaidAllocations <=>
    (\A p \in plans : PlanOwes(p)) /\ (\A a \in allocations : AllocationOwes(a))
BY DEF OutstandingIsUnpaidAllocations, PlanOwes, AllocationOwes

\* What is unpaid and outstanding are integers, principals are positive.
LEMMA UnpaidIsInteger ==
  ASSUME IInv, MoneyInv
  PROVE  /\ \A a \in allocations : Unpaid(a) \in Int /\ a.principal \in Nat \ {0}
         /\ \A p \in plans : Outstanding(p) \in Int /\ p.principal \in Nat \ {0}
<1>1. \A b : Paid(b) \in Nat /\ PaidPrincipal(b) \in Nat
  <2>1. \A S : S \subseteq principalPayments => SumFunction([x \in S |-> x.amount]) \in Nat
    <3> SUFFICES ASSUME NEW S, S \subseteq principalPayments
                 PROVE  SumFunction([x \in S |-> x.amount]) \in Nat
      OBVIOUS
    <3>1. S \subseteq PaymentRow /\ IsFiniteSet(S)
      BY FS_Subset DEF IInv, TypeOK, MoneyInv
    <3> QED
      BY <3>1, PaymentsAddUp
  <2>2. \A b : PaymentsTo(b) \subseteq principalPayments /\ PaymentsOf(b) \subseteq principalPayments
    BY DEF PaymentsTo, PaymentsOf
  <2> QED
    BY <2>1, <2>2 DEF Paid, PaidPrincipal
<1>2. \A a \in allocations : a.principal \in Nat \ {0}
  BY DEF IInv, TypeOK, AllocationRow
<1>3. \A p \in plans : p.principal \in Nat \ {0}
  BY TermsArePositive DEF IInv, TypeOK, PlanRow
<1> QED
  BY <1>1, <1>2, <1>3 DEF Unpaid, Outstanding

-----------------------------------------------------------------------------
(* Each operation preserves what is owed *)

\* Steps that touch neither plans nor payments leave what is owed.
LEMMA LedgerPreservesMoney ==
  ASSUME MoneyInv, UNCHANGED <<plans, allocations, principalPayments, claims>>, IsFiniteSet(charges')
  PROVE  MoneyInv'
<1>1. PaymentsAreClaimed' /\ PaymentsArePlanned'
  BY DEF MoneyInv, PaymentsAreClaimed, PaymentsArePlanned
<1>2. SchedulesConservePrincipal'
  BY DEF MoneyInv, SchedulesConservePrincipal, SpreadOver, AllocationsOf
<1>3. OutstandingIsUnpaidAllocations'
  BY DEF MoneyInv, OutstandingIsUnpaidAllocations, Outstanding, PaidPrincipal, PaymentsOf, Unpaid, Paid,
         PaymentsTo, UnpaidAllocationsOf, AllocationsOf
<1> QED
  BY <1>1, <1>2, <1>3 DEF MoneyInv

\* A statement changes no amount.
LEMMA RegisterPreservesMoney ==
  ASSUME IInv, MoneyInv, NEW cycle \in MonthCycles, RegisterStatement(cycle)
  PROVE  MoneyInv'
<1> DEFINE Takes(a) == a.cycle = cycle /\ a.status = "pending"
<1>0. PICK h : h = [a \in allocations |->
                     IF Takes(a) THEN [a EXCEPT !.status = "statement_allocated"] ELSE a]
  OBVIOUS
<1>1. /\ allocations' = {h[a] : a \in allocations}
      /\ UNCHANGED <<cardStatus, charges, plans, principalPayments, claims>>
  BY <1>0 DEF RegisterStatement, TakenUp
<1>2. ASSUME NEW a \in allocations
      PROVE  /\ h[a].plan = a.plan /\ h[a].number = a.number
             /\ h[a].cycle = a.cycle /\ h[a].principal = a.principal
             /\ h[a].status = "paid" <=> a.status = "paid"
  <2>1. a \in AllocationRow
    BY DEF IInv, TypeOK
  <2>2. CASE Takes(a)
    <3>1. h[a] = [a EXCEPT !.status = "statement_allocated"]
      BY <1>0, <2>2
    <3>2. h[a].status = "statement_allocated" /\ a.status = "pending"
      BY <2>1, <2>2, <3>1 DEF AllocationRow
    <3> QED
      BY <2>1, <3>1, <3>2 DEF AllocationRow
  <2>3. CASE ~ Takes(a)
    BY <1>0, <2>3
  <2> QED
    BY <2>2, <2>3
<1> HIDE DEF Takes
<1>3. allocations \subseteq AllocationRow
  BY DEF IInv, TypeOK
<1>4. IsFiniteSet(allocations') /\ SchedulesConservePrincipal'
  BY <1>1, <1>2, <1>3, AdvancingKeepsSchedules DEF MoneyInv
<1>5. ASSUME NEW a \in allocations
      PROVE  Unpaid(h[a])' = Unpaid(a) /\ AllocationOwes(h[a])'
  <2>1. Paid(h[a])' = Paid(a)
    BY <1>1, <1>2 DEF Paid, PaymentsTo
  <2>2. Unpaid(h[a])' = Unpaid(a)
    BY <1>2, <2>1 DEF Unpaid
  <2>3. AllocationOwes(a)
    BY OwedInParts DEF MoneyInv
  <2> QED
    BY <1>2, <2>2, <2>3 DEF AllocationOwes
<1>6. ASSUME NEW p \in plans
      PROVE  PlanOwes(p)'
  <2>1. PlanOwes(p)
    BY OwedInParts DEF MoneyInv
  <2>2. Outstanding(p)' = Outstanding(p)
    BY <1>1, PaidStays DEF Outstanding
  <2> DEFINE S == UnpaidAllocationsOf(p)
             f == [a \in S |-> Unpaid(a)]
             T == {h[a] : a \in S}
             g == [b \in T |-> Unpaid(b)']
  <2>3. UnpaidAllocationsOf(p)' = T
    <3>1. \A b : b \in UnpaidAllocationsOf(p)' <=> b \in allocations' /\ b.plan = p.id /\ b.status # "paid"
      BY DEF UnpaidAllocationsOf, AllocationsOf
    <3>2. \A a : a \in S <=> a \in allocations /\ a.plan = p.id /\ a.status # "paid"
      BY DEF UnpaidAllocationsOf, AllocationsOf
    <3> HIDE DEF S
    <3>3. \A b : b \in UnpaidAllocationsOf(p)' <=> b \in T
      BY <1>1, <1>2, <3>1, <3>2
    <3> QED
      BY <3>3
  <2>4. \A a \in S : g[h[a]] = f[a]
    BY <1>5 DEF UnpaidAllocationsOf, AllocationsOf
  <2>5. \A a, b \in S : h[a] = h[b] => a = b
    <3>1. SpreadOver(p, AllocationsOf(p))
      BY DEF MoneyInv, SchedulesConservePrincipal
    <3>2. \A a, b \in AllocationsOf(p) : a.number = b.number => a = b
      BY <3>1 DEF SpreadOver
    <3>3. \A a \in S : a \in AllocationsOf(p) /\ h[a].number = a.number
      BY <1>2 DEF UnpaidAllocationsOf, AllocationsOf
    <3> QED
      BY <3>2, <3>3
  <2>6. IsFiniteSet(S) /\ f \in [S -> Int]
    <3>1. S \subseteq allocations /\ IsFiniteSet(S)
      BY FS_Subset DEF MoneyInv, UnpaidAllocationsOf, AllocationsOf
    <3>2. \A a \in allocations : Unpaid(a) \in Int
      BY UnpaidIsInteger
    <3> QED
      BY <3>1, <3>2
  <2>7. g \in [{h[a] : a \in S} -> Int]
    BY <2>4, <2>6
  <2>8. SumFunction(g) = SumFunction(f)
    <3> HIDE DEF f, g, T, S
    <3> QED
      BY <2>4, <2>5, <2>6, <2>7, SumRewritten
  <2>9. PlanOwes(p)' <=> Outstanding(p)' = SumFunction(g) /\ (p.status = "completed" <=> Outstanding(p)' = 0)
    BY <2>3 DEF PlanOwes
  <2>10. PlanOwes(p) <=> Outstanding(p) = SumFunction(f) /\ (p.status = "completed" <=> Outstanding(p) = 0)
    BY DEF PlanOwes
  <2> HIDE DEF f, g
  <2> QED
    BY <2>1, <2>2, <2>8, <2>9, <2>10
<1>7. OutstandingIsUnpaidAllocations'
  <2>1. (\A p \in plans' : PlanOwes(p)') /\ \A a \in allocations' : AllocationOwes(a)'
    BY <1>1, <1>5, <1>6
  <2> QED
    BY <2>1 DEF OutstandingIsUnpaidAllocations, PlanOwes, AllocationOwes
<1> QED
  BY <1>1, <1>4, <1>7 DEF MoneyInv, PaymentsAreClaimed, PaymentsArePlanned

\* A new plan owes its whole schedule, and nothing was paid of it before.
LEMMA CreatePreservesMoney ==
  ASSUME IInv, MoneyInv, NEW key \in Keys, NEW charge \in charges, NEW count \in 1..MaxInstallments,
         NEW first \in Months, CreateInstallmentPlan(key, charge, count, first)
  PROVE  MoneyInv'
<1>0. PICK new : new = [id |-> key, card |-> charge.card, purchase |-> charge.id,
                        principal |-> charge.amount, count |-> count, status |-> "active"]
  OBVIOUS
<1> PICK rows : rows = Schedule(key, charge, count, first)
  OBVIOUS
<1>1. /\ plans' = plans \cup {new}
      /\ allocations' = allocations \cup rows
      /\ claims' = claims \cup {<<"create_installment_plan", key>>}
      /\ UNCHANGED <<cardStatus, charges, billed, principalPayments>>
      /\ Schedulable(charge.amount, count, first)
      /\ <<"create_installment_plan", key>> \notin claims
  BY <1>0 DEF CreateInstallmentPlan, Unclaimed
<1>2. /\ rows \subseteq AllocationRow
      /\ \A a \in rows : a.plan = key /\ a.status # "paid"
  <2>1. /\ rows \subseteq AllocationRow
        /\ \A a \in rows : /\ a.plan = key
                           /\ a.status = IF a.cycle \in billed THEN "statement_allocated" ELSE "pending"
    BY <1>1, RowsOfSchedule DEF IInv
  <2> QED
    BY <2>1
<1>3. new.id = key /\ new.count = count /\ new.principal = charge.amount /\ new.status = "active"
  BY <1>0
<1>4. IsFiniteSet(rows) /\ SpreadOver(new, rows)
  BY <1>1, <1>3, ScheduleDividesPrincipal DEF IInv
<1>5. charge.amount \in Nat \ {0}
  BY TermsArePositive DEF IInv, TypeOK, ChargeRow
<1>6. \A p \in plans : p.id # key
  BY <1>1 DEF IInv, PlansAreClaimed
<1>7. (\A a \in allocations : a.plan # key) /\ \A x \in principalPayments : x.plan # key
  BY <1>6 DEF IInv, AllocationsArePlanned, MoneyInv, PaymentsArePlanned
<1>8. \A p \in plans : AllocationsOf(p)' = AllocationsOf(p)
  BY <1>1, <1>2, <1>6 DEF AllocationsOf
<1>9. AllocationsOf(new)' = rows
  BY <1>1, <1>2, <1>3, <1>7 DEF AllocationsOf
<1>10. SchedulesConservePrincipal'
  BY <1>1, <1>4, <1>8, <1>9 DEF MoneyInv, SchedulesConservePrincipal, SpreadOver
<1>11. \A b : Unpaid(b)' = Unpaid(b) /\ Outstanding(b)' = Outstanding(b)
  BY <1>1, PaidStays DEF Unpaid, Outstanding
<1>12. \A a \in rows : Unpaid(a) = a.principal /\ a.principal \in Nat \ {0}
  <2> SUFFICES ASSUME NEW a \in rows PROVE Unpaid(a) = a.principal /\ a.principal \in Nat \ {0}
    OBVIOUS
  <2>1. PaymentsTo(a) = {}
    BY <1>2, <1>7 DEF PaymentsTo
  <2>2. Paid(a) = 0
    BY <2>1, NothingPaid
  <2>3. a.principal \in Nat \ {0}
    BY <1>2 DEF AllocationRow
  <2> QED
    BY <2>2, <2>3 DEF Unpaid
<1>13. \A a \in allocations' : AllocationOwes(a)'
  <2>1. \A a \in allocations : AllocationOwes(a)
    BY OwedInParts DEF MoneyInv
  <2>2. \A a \in allocations : AllocationOwes(a)'
    BY <1>11, <2>1 DEF AllocationOwes
  <2>3. \A a \in rows : AllocationOwes(a)'
    BY <1>2, <1>11, <1>12 DEF AllocationOwes
  <2> QED
    BY <1>1, <2>2, <2>3
<1>14. ASSUME NEW p \in plans
       PROVE  PlanOwes(p)'
  <2>1. PlanOwes(p)
    BY OwedInParts DEF MoneyInv
  <2>2. UnpaidAllocationsOf(p)' = UnpaidAllocationsOf(p)
    BY <1>8 DEF UnpaidAllocationsOf
  <2> QED
    BY <1>11, <2>1, <2>2 DEF PlanOwes
<1>15. PlanOwes(new)'
  <2>1. UnpaidAllocationsOf(new)' = rows
    BY <1>2, <1>9 DEF UnpaidAllocationsOf
  <2>2. [a \in rows |-> Unpaid(a)'] = [a \in rows |-> a.principal]
    BY <1>11, <1>12
  <2>3. SumFunction([a \in UnpaidAllocationsOf(new) |-> Unpaid(a)])' = charge.amount
    BY <1>3, <1>4, <2>1, <2>2 DEF SpreadOver
  <2>4. Outstanding(new) = charge.amount
    <3>1. PaymentsOf(new) = {}
      BY <1>3, <1>7 DEF PaymentsOf
    <3>2. PaidPrincipal(new) = 0
      BY <3>1, NothingPaid
    <3> QED
      BY <1>3, <1>5, <3>2 DEF Outstanding
  <2> QED
    BY <1>3, <1>5, <1>11, <2>3, <2>4 DEF PlanOwes
<1>16. OutstandingIsUnpaidAllocations'
  BY <1>1, <1>13, <1>14, <1>15 DEF OutstandingIsUnpaidAllocations, PlanOwes, AllocationOwes
<1>17. IsFiniteSet(plans') /\ IsFiniteSet(allocations')
  BY <1>1, <1>4, FS_AddElement, FS_Union DEF MoneyInv
<1>18. PaymentsAreClaimed' /\ PaymentsArePlanned'
  BY <1>1 DEF MoneyInv, PaymentsAreClaimed, PaymentsArePlanned
<1> QED
  BY <1>1, <1>10, <1>16, <1>17, <1>18 DEF MoneyInv

\* A payment lowers one allocation, or closes it, and its plan by the same amount.
LEMMA RecordPreservesMoney ==
  ASSUME IInv, MoneyInv, NEW key \in Keys, NEW a \in allocations, NEW amount \in Amounts,
         RecordPrincipalPayment(key, a, amount)
  PROVE  MoneyInv'
<1>1. PICK payment : payment = [id |-> key, plan |-> a.plan, number |-> a.number, amount |-> amount]
  OBVIOUS
<1>2. PICK plan : plan = PlanOf(a)
  OBVIOUS
<1>3. PICK completed : completed = [plan EXCEPT !.status = "completed"]
  OBVIOUS
<1>4. PICK paid : paid = [a EXCEPT !.status = "paid"]
  OBVIOUS
<1>5. PICK whole \in BOOLEAN : whole <=> amount = Unpaid(a)
  OBVIOUS
<1>6. PICK last \in BOOLEAN : last <=> amount = Outstanding(plan)
  OBVIOUS
<1>7. PICK h : h = [b \in allocations |-> IF b = a /\ whole THEN paid ELSE b]
  OBVIOUS
<1>8. /\ <<"record_installment_principal_payment", key>> \notin claims
      /\ claims' = claims \cup {<<"record_installment_principal_payment", key>>}
      /\ principalPayments' = principalPayments \cup {payment}
      /\ plan.status = "active" /\ a.status # "paid" /\ amount <= Unpaid(a)
      /\ UNCHANGED <<cardStatus, charges, billed>>
      /\ allocations' = IF whole THEN (allocations \ {a}) \cup {paid} ELSE allocations
      /\ plans' = IF last THEN (plans \ {plan}) \cup {completed} ELSE plans
  BY <1>1, <1>2, <1>3, <1>4, <1>5, <1>6
     DEF RecordPrincipalPayment, Unclaimed, FitsUnpaid, CompletesPlan
<1>9. allocations' = {h[b] : b \in allocations}
  BY <1>7, <1>8
<1>10. /\ plan \in plans /\ plan.id = a.plan
       /\ a \in AllocationRow /\ plan \in PlanRow /\ payment \in PaymentRow
       /\ payment.plan = a.plan /\ payment.number = a.number /\ payment.amount = amount /\ payment.id = key
  <2>1. plan \in plans /\ plan.id = a.plan
    BY <1>2, PlanOfAllocation
  <2>2. a \in AllocationRow /\ plan \in PlanRow
    BY <2>1 DEF IInv, TypeOK
  <2> QED
    BY <1>1, <2>1, <2>2 DEF AllocationRow, PaymentRow
<1>11. payment \notin principalPayments
  BY <1>8, <1>10 DEF MoneyInv, PaymentsAreClaimed
<1>12. /\ \A b : Paid(b) \in Nat /\ PaidPrincipal(b) \in Nat
       /\ \A b : Paid(b)' = IF b.plan = a.plan /\ b.number = a.number THEN Paid(b) + amount ELSE Paid(b)
       /\ \A p : PaidPrincipal(p)' = IF p.id = a.plan THEN PaidPrincipal(p) + amount ELSE PaidPrincipal(p)
  BY <1>8, <1>10, <1>11, PaymentLowers DEF IInv, TypeOK, MoneyInv
<1>13. amount \in Nat /\ amount > 0
  BY TermsArePositive
<1>14. ASSUME NEW b \in allocations
       PROVE  /\ h[b].plan = b.plan /\ h[b].number = b.number
              /\ h[b].cycle = b.cycle /\ h[b].principal = b.principal
              /\ h[b].status = IF b = a /\ whole THEN "paid" ELSE b.status
  <2>1. b \in AllocationRow
    BY DEF IInv, TypeOK
  <2>2. CASE b = a /\ whole
    <3>1. h[b] = [b EXCEPT !.status = "paid"]
      BY <1>4, <1>7, <2>2
    <3> QED
      BY <2>1, <2>2, <3>1 DEF AllocationRow
  <2>3. CASE ~ (b = a /\ whole)
    BY <1>7, <2>3
  <2> QED
    BY <2>2, <2>3
<1>15. ASSUME NEW b \in allocations
       PROVE  Unpaid(h[b])' = IF b = a THEN Unpaid(a) - amount ELSE Unpaid(b)
  <2>1. b.plan = a.plan /\ b.number = a.number <=> b = a
    BY DEF IInv, NumbersAreDistinct
  <2>2. Paid(h[b])' = Paid(b)'
    BY <1>14 DEF Paid, PaymentsTo
  <2>3. b.principal \in Nat
    BY UnpaidIsInteger
  <2> QED
    BY <1>12, <1>13, <1>14, <2>1, <2>2, <2>3 DEF Unpaid
<1>16. ASSUME NEW b \in allocations
       PROVE  Unpaid(b) \in Int /\ AllocationOwes(b)
  BY UnpaidIsInteger, OwedInParts DEF MoneyInv
<1>17. ASSUME NEW b \in allocations
       PROVE  AllocationOwes(h[b])'
  <2>1. CASE b = a
    <3>1. Unpaid(h[b])' = Unpaid(a) - amount /\ Unpaid(a) \in Int /\ amount <= Unpaid(a)
      BY <1>8, <1>15, <1>16, <2>1
    <3>2. h[b].status = "paid" <=> whole
      BY <1>8, <1>14, <2>1
    <3> QED
      BY <1>5, <1>13, <3>1, <3>2 DEF AllocationOwes
  <2>2. CASE b # a
    BY <1>14, <1>15, <1>16, <2>2 DEF AllocationOwes
  <2> QED
    BY <2>1, <2>2
<1>18. /\ completed.id = plan.id /\ completed.count = plan.count /\ completed.principal = plan.principal
       /\ completed.status = "completed"
  BY <1>3, <1>10 DEF PlanRow
<1>19. IsFiniteSet(allocations') /\ SchedulesConservePrincipal'
  <2>1. \A q \in plans' : \E p \in plans : q.id = p.id /\ q.count = p.count /\ q.principal = p.principal
    BY <1>8, <1>10, <1>18
  <2>2. allocations \subseteq AllocationRow
    BY DEF IInv, TypeOK
  <2> QED
    BY <1>9, <1>14, <2>1, <2>2, AdvancingKeepsSchedules DEF MoneyInv
<1>20. ASSUME NEW q \in plans', q.id # a.plan
       PROVE  PlanOwes(q)'
  <2>1. q \in plans
    BY <1>8, <1>10, <1>18, <1>20
  <2>2. PlanOwes(q)
    BY <2>1, OwedInParts DEF MoneyInv
  <2>3. AllocationsOf(q)' = AllocationsOf(q)
    BY <1>4, <1>8, <1>10, <1>20 DEF AllocationsOf, AllocationRow
  <2>4. UnpaidAllocationsOf(q)' = UnpaidAllocationsOf(q)
    BY <2>3 DEF UnpaidAllocationsOf
  <2>5. \A b \in UnpaidAllocationsOf(q) : Unpaid(b)' = Unpaid(b)
    BY <1>12, <1>20 DEF UnpaidAllocationsOf, AllocationsOf, Unpaid
  <2>6. Outstanding(q)' = Outstanding(q)
    BY <1>12, <1>20 DEF Outstanding
  <2> QED
    BY <2>2, <2>4, <2>5, <2>6 DEF PlanOwes
<1>21. ASSUME NEW q \in plans', q.id = a.plan
       PROVE  PlanOwes(q)'
  <2>1. PlanOwes(plan)
    BY <1>10, OwedInParts DEF MoneyInv
  <2>2. q.principal = plan.principal /\ q.id = plan.id /\ q.status = IF last THEN "completed" ELSE "active"
    <3>1. \A p \in plans : p.id = a.plan => p = plan
      BY <1>10 DEF IInv, PlansAreDistinct
    <3> QED
      BY <1>8, <1>10, <1>18, <1>21, <3>1
  <2> DEFINE S == UnpaidAllocationsOf(plan)
             T == UnpaidAllocationsOf(q)'
             f == [b \in S |-> Unpaid(b)]
             g == [b \in T |-> Unpaid(b)']
  <2>3. a \in S /\ IsFiniteSet(S) /\ S \subseteq allocations
    <3>1. S \subseteq allocations
      BY DEF UnpaidAllocationsOf, AllocationsOf
    <3>2. IsFiniteSet(S)
      BY <3>1, FS_Subset DEF MoneyInv
    <3> QED
      BY <1>8, <1>10, <3>1, <3>2 DEF UnpaidAllocationsOf, AllocationsOf
  <2>4. f \in [S -> Int] /\ \A b \in S : f[b] = Unpaid(b)
    BY <1>16, <2>3
  <2>5. Outstanding(plan) = SumFunction(f) /\ Outstanding(plan) \in Int
    BY <1>10, <2>1, UnpaidIsInteger DEF PlanOwes
  <2>6. Outstanding(q)' = Outstanding(plan) - amount
    <3>1. PaidPrincipal(q)' = PaidPrincipal(plan) + amount
      <4>1. PaidPrincipal(q) = PaidPrincipal(plan)
        BY <2>2 DEF PaidPrincipal, PaymentsOf
      <4> QED
        BY <1>12, <1>21, <4>1
    <3>2. plan.principal \in Nat
      BY <1>10, UnpaidIsInteger
    <3> QED
      BY <1>12, <1>13, <2>2, <3>1, <3>2 DEF Outstanding
  <2>7. SumFunction(g) = SumFunction(f) - amount
    <3>1. \A b \in allocations : b # a => Unpaid(b)' = Unpaid(b)
      <4>1. \A b \in allocations : b # a => ~ (b.plan = a.plan /\ b.number = a.number)
        BY DEF IInv, NumbersAreDistinct
      <4> QED
        BY <1>12, <4>1 DEF Unpaid
    <3>2. CASE whole
      <4>1. T = S \ {a}
        <5>1. \A b : b \in T <=> b \in allocations' /\ b.plan = plan.id /\ b.status # "paid"
          BY <2>2 DEF UnpaidAllocationsOf, AllocationsOf
        <5>2. \A b : b \in S <=> b \in allocations /\ b.plan = plan.id /\ b.status # "paid"
          BY DEF UnpaidAllocationsOf, AllocationsOf
        <5>3. paid.status = "paid"
          BY <1>4, <1>10 DEF AllocationRow
        <5> HIDE DEF S, T
        <5>4. \A b : b \in T <=> b \in S \ {a}
          BY <1>8, <3>2, <5>1, <5>2, <5>3
        <5> QED
          BY <5>4
      <4>2. g \in [S \ {a} -> Int] /\ \A b \in S \ {a} : g[b] = f[b]
        <5>1. \A b \in S \ {a} : Unpaid(b)' = Unpaid(b) /\ Unpaid(b) \in Int
          BY <1>16, <2>3, <3>1
        <5> HIDE DEF S, T
        <5> QED
          BY <2>4, <4>1, <5>1
      <4> HIDE DEF S, T, f, g
      <4>3. SumFunction(g) = SumFunction(f) - f[a]
        BY <2>3, <2>4, <4>2, SumWithout
      <4> QED
        BY <1>5, <2>3, <2>4, <3>2, <4>3
    <3>3. CASE ~ whole
      <4>1. T = S
        BY <1>8, <2>2, <3>3 DEF UnpaidAllocationsOf, AllocationsOf
      <4>2. Unpaid(a)' = Unpaid(a) - amount
        <5>1. h[a] = a
          BY <1>7, <3>3
        <5> QED
          BY <1>15, <5>1
      <4>3. g \in [S -> Int] /\ g[a] = f[a] - amount /\ \A b \in S \ {a} : g[b] = f[b]
        <5>1. \A b \in S \ {a} : Unpaid(b)' = Unpaid(b) /\ Unpaid(b) \in Int
          BY <1>16, <2>3, <3>1
        <5>2. Unpaid(a)' \in Int
          BY <1>13, <1>16, <4>2
        <5> HIDE DEF S, T
        <5> QED
          BY <2>3, <2>4, <4>1, <4>2, <5>1, <5>2
      <4> HIDE DEF S, T, f, g
      <4>4. SumFunction(g) = SumFunction(f) - f[a] + g[a]
        BY <2>3, <2>4, <4>3, SumChanged
      <4>5. SumFunction(f) \in Int /\ f[a] \in Int
        BY <2>3, <2>4, <2>5
      <4> QED
        BY <1>13, <4>3, <4>4, <4>5
    <3> QED
      BY <3>2, <3>3
  <2>8. PlanOwes(q)' <=> Outstanding(q)' = SumFunction(g) /\ (q.status = "completed" <=> Outstanding(q)' = 0)
    BY DEF PlanOwes
  <2>9. Outstanding(q)' = 0 <=> last
    BY <1>6, <1>13, <2>5, <2>6
  <2> HIDE DEF f, g
  <2> QED
    BY <2>2, <2>5, <2>6, <2>7, <2>8, <2>9
<1>22. OutstandingIsUnpaidAllocations'
  <2>1. (\A q \in plans' : PlanOwes(q)') /\ \A b \in allocations' : AllocationOwes(b)'
    BY <1>9, <1>17, <1>20, <1>21
  <2> QED
    BY <2>1 DEF OutstandingIsUnpaidAllocations, PlanOwes, AllocationOwes
<1>23. PaymentsAreClaimed' /\ PaymentsArePlanned'
  <2>1. \A p \in plans : \E q \in plans' : q.id = p.id
    BY <1>8, <1>18
  <2> QED
    BY <1>8, <1>10, <2>1 DEF MoneyInv, PaymentsAreClaimed, PaymentsArePlanned
<1>24. IsFiniteSet(plans') /\ IsFiniteSet(principalPayments')
  <2>1. IsFiniteSet(plans \ {plan})
    BY FS_RemoveElement DEF MoneyInv
  <2> QED
    BY <1>8, <2>1, FS_AddElement DEF MoneyInv
<1> QED
  BY <1>8, <1>19, <1>22, <1>23, <1>24 DEF MoneyInv

-----------------------------------------------------------------------------
(* What plans divide *)

\* What is outstanding on a card never exceeds what was charged: each plan is
\* found among the charges, as a charge of its own.
LEMMA PlansAreCharged == IInv /\ MoneyInv => PlansDividePurchases
<1> SUFFICES ASSUME IInv, MoneyInv PROVE PlansDividePurchases
  OBVIOUS
<1>1. ASSUME NEW c \in Cards
      PROVE  SumFunction([p \in PlansOn(c) |-> p.principal]) <= SumFunction([x \in ChargesOn(c) |-> x.amount])
  <2> DEFINE S == PlansOn(c)
             T == ChargesOn(c)
             f == [p \in S |-> p.principal]
             g == [x \in T |-> x.amount]
             h == [p \in S |-> [id |-> p.purchase, card |-> p.card, amount |-> p.principal]]
  <2>1. IsFiniteSet(S) /\ IsFiniteSet(T)
    BY FS_Subset DEF MoneyInv, PlansOn, ChargesOn
  <2>2. f \in [S -> Nat]
    BY UnpaidIsInteger DEF PlansOn
  <2>3. g \in [T -> Nat]
    BY TermsArePositive DEF IInv, TypeOK, ChargeRow, ChargesOn
  <2>4. h \in [S -> T] /\ \A p \in S : g[h[p]] = f[p]
    <3>1. \A p \in S : h[p] \in T /\ h[p].amount = p.principal
      BY DEF IInv, PlansArePosted, PlansOn, ChargesOn
    <3> QED
      BY <3>1
  <2>5. \A p, q \in S : h[p] = h[q] => p = q
    <3>1. \A p \in S : p \in plans /\ h[p].id = p.purchase
      BY DEF PlansOn
    <3> HIDE DEF h, S
    <3> QED
      BY <3>1 DEF IInv, PlansAreDistinct
  <2> HIDE DEF S, T, f, g, h
  <2>6. SumFunction(f) <= SumFunction(g)
    BY <2>1, <2>2, <2>3, <2>4, <2>5, SumEmbedded
  <2> QED
    BY <2>6 DEF S, T, f, g
<1> QED
  BY <1>1 DEF IInv, PlansArePosted, PlansDividePurchases

-----------------------------------------------------------------------------
(* Theorems *)

LEMMA InitIInv == Init => IInv
BY DEF Init, IInv, TypeOK, PlansAreClaimed, PlansAreDistinct, PlansArePosted, AllocationsArePlanned,
       NumbersAreDistinct, StatementsTakeUpAllocations

LEMMA NextPreservesIInv == IInv /\ [Next]_vars => IInv'
<1> SUFFICES ASSUME IInv, [Next]_vars PROVE IInv'
  OBVIOUS
<1> USE DEF IInv
<1>1. cardStatus \in [Cards -> {"active", "archived"}] /\ charges \subseteq ChargeRow
  BY DEF TypeOK
<1>2. CASE UNCHANGED vars
  BY <1>1, <1>2, LedgerPreservesIInv DEF vars
<1>3. ASSUME NEW purchase \in Purchases, NEW card \in Cards, NEW amount \in Principals,
             PostCharge(purchase, card, amount)
      PROVE  IInv'
  BY <1>1, <1>3, LedgerPreservesIInv DEF PostCharge, ChargeRow
<1>4. ASSUME NEW card \in Cards, ArchiveAccount(card) PROVE IInv'
  BY <1>1, <1>4, LedgerPreservesIInv DEF ArchiveAccount
<1>5. CASE \E key \in Keys, charge \in charges, count \in 1..MaxInstallments, first \in Months :
             CreateInstallmentPlan(key, charge, count, first)
  BY <1>5, CreatePreservesIInv
<1>6. CASE \E cycle \in MonthCycles : RegisterStatement(cycle)
  BY <1>6, RegisterPreservesIInv
<1>7. CASE \E key \in Keys, a \in allocations, amount \in Amounts : RecordPrincipalPayment(key, a, amount)
  BY <1>7, RecordPreservesIInv
<1> QED
  BY <1>2, <1>3, <1>4, <1>5, <1>6, <1>7 DEF Next

LEMMA InitMoney == Init => MoneyInv
BY FS_EmptySet DEF Init, MoneyInv, PaymentsAreClaimed, PaymentsArePlanned, SchedulesConservePrincipal,
                   OutstandingIsUnpaidAllocations

LEMMA NextPreservesMoney == IInv /\ MoneyInv /\ [Next]_vars => MoneyInv'
<1> SUFFICES ASSUME IInv, MoneyInv, [Next]_vars PROVE MoneyInv'
  OBVIOUS
<1>1. IsFiniteSet(charges)
  BY DEF MoneyInv
<1>2. CASE UNCHANGED vars
  BY <1>1, <1>2, LedgerPreservesMoney DEF vars
<1>3. ASSUME NEW purchase \in Purchases, NEW card \in Cards, NEW amount \in Principals,
             PostCharge(purchase, card, amount)
      PROVE  MoneyInv'
  <2>1. IsFiniteSet(charges')
    BY <1>1, <1>3, FS_AddElement DEF PostCharge
  <2> QED
    BY <1>3, <2>1, LedgerPreservesMoney DEF PostCharge
<1>4. ASSUME NEW card \in Cards, ArchiveAccount(card) PROVE MoneyInv'
  BY <1>1, <1>4, LedgerPreservesMoney DEF ArchiveAccount
<1>5. CASE \E key \in Keys, charge \in charges, count \in 1..MaxInstallments, first \in Months :
             CreateInstallmentPlan(key, charge, count, first)
  BY <1>5, CreatePreservesMoney
<1>6. CASE \E cycle \in MonthCycles : RegisterStatement(cycle)
  BY <1>6, RegisterPreservesMoney
<1>7. CASE \E key \in Keys, a \in allocations, amount \in Amounts : RecordPrincipalPayment(key, a, amount)
  BY <1>7, RecordPreservesMoney
<1> QED
  BY <1>2, <1>3, <1>4, <1>5, <1>6, <1>7 DEF Next

LEMMA SpecKeepsInvariants == Spec => [](IInv /\ MoneyInv)
<1>1. Init => IInv /\ MoneyInv
  BY InitIInv, InitMoney
<1>2. (IInv /\ MoneyInv) /\ [Next]_vars => (IInv /\ MoneyInv)'
  BY NextPreservesIInv, NextPreservesMoney
<1> QED
  BY <1>1, <1>2, PTL DEF Spec

\* Rows keep their types: no installment is empty, none falls beyond the
\* supported dates (BuildInstallmentSchedule of installment.go).
THEOREM InstallmentTypes == Spec => []TypeOK
<1>1. IInv => TypeOK
  BY DEF IInv
<1> QED
  BY <1>1, InitIInv, NextPreservesIInv, PTL DEF Spec

\* An unpaid allocation is pending while its cycle has no statement and taken up
\* when it has one, whichever of plan, statement and payment came first
\* (CreateInstallmentPlan, and the UPDATE of RegisterStatement).
THEOREM InstallmentsAreTakenUp == Spec => []StatementsTakeUpAllocations
<1>1. IInv => StatementsTakeUpAllocations
  BY DEF IInv
<1> QED
  BY <1>1, InitIInv, NextPreservesIInv, PTL DEF Spec

\* The allocations of a plan are its principal, divided as evenly as whole
\* minor units allow with the larger parts first, one to a cycle
\* (BuildInstallmentSchedule of installment.go, the rows of CreateInstallmentPlan).
THEOREM InstallmentsConservePrincipal == Spec => []SchedulesConservePrincipal
<1>1. MoneyInv => SchedulesConservePrincipal
  BY DEF MoneyInv
<1> QED
  BY <1>1, SpecKeepsInvariants, PTL

\* Whichever of plan, statement and payment comes first, what is unpaid of the
\* allocations is what is outstanding of their plan, an allocation is paid when
\* nothing of it is left and a plan completed when nothing of it is
\* (RecordPrincipalPayment of installment_repository.go).
THEOREM InstallmentsReconcile == Spec => []OutstandingIsUnpaidAllocations
<1>1. MoneyInv => OutstandingIsUnpaidAllocations
  BY DEF MoneyInv
<1> QED
  BY <1>1, SpecKeepsInvariants, PTL

\* Plans divide purchases posted to their card, one plan to a purchase: planning
\* creates no liability (CreateInstallmentPlan, UNIQUE of migration 0011).
THEOREM InstallmentsDividePurchases == Spec => [](PlansDividePurchases /\ PlansAreDistinct)
<1>1. IInv /\ MoneyInv => PlansDividePurchases /\ PlansAreDistinct
  BY PlansAreCharged DEF IInv
<1> QED
  BY <1>1, SpecKeepsInvariants, PTL

\* A schedule is written once: allocations only advance, plans only complete,
\* payments stay, and a paid allocation never becomes owing again.
THEOREM InstallmentHistory == Spec => SchedulesAreHistory
<1> DEFINE Advances(a) == \E b \in allocations' :
                            [a EXCEPT !.status = b.status] = b /\ Rank(a.status) <= Rank(b.status)
           Stems(b) == \E a \in allocations : [a EXCEPT !.status = b.status] = b
           Kept ==
             /\ principalPayments \subseteq principalPayments'
             /\ \A a \in allocations : Advances(a)
             /\ \A b \in allocations' : (\E p \in plans : p.id = b.plan) => Stems(b)
             /\ \A p \in plans : p \in plans' \/ [p EXCEPT !.status = "completed"] \in plans'
<1>1. IInv /\ [Next]_vars => [Kept]_vars
  <2> SUFFICES ASSUME IInv, [Next]_vars PROVE [Kept]_vars
    OBVIOUS
  <2>1. ASSUME NEW a \in allocations
        PROVE  /\ a \in AllocationRow
               /\ [a EXCEPT !.status = a.status] = a
               /\ Rank(a.status) \in 1..3
    <3>1. a \in AllocationRow
      BY DEF IInv, TypeOK
    <3>2. a.status \in {"pending", "statement_allocated", "paid"}
      BY <3>1 DEF AllocationRow
    <3> QED
      BY <3>1, <3>2, SameAllocation DEF Rank
  <2>2. \A a \in allocations : a \in allocations' => Advances(a)
    BY <2>1
  <2>3. \A b \in allocations : Stems(b)
    BY <2>1
  <2> HIDE DEF Advances, Stems
  <2>4. ASSUME NEW key \in Keys, NEW charge \in charges, NEW count \in 1..MaxInstallments,
               NEW first \in Months, CreateInstallmentPlan(key, charge, count, first)
        PROVE  Kept
    <3>1. \A b \in Schedule(key, charge, count, first) : b.plan = key
      BY <2>4, RowsOfSchedule DEF IInv, CreateInstallmentPlan
    <3>2. \A p \in plans : p.id # key
      BY <2>4 DEF IInv, PlansAreClaimed, CreateInstallmentPlan, Unclaimed
    <3> QED
      BY <2>2, <2>3, <2>4, <3>1, <3>2 DEF CreateInstallmentPlan
  <2>5. ASSUME NEW cycle \in MonthCycles, RegisterStatement(cycle)
        PROVE  Kept
    <3>1. ASSUME NEW a \in allocations PROVE Advances(a)
      <4>1. CASE a.cycle = cycle /\ a.status = "pending"
        <5> DEFINE b == [a EXCEPT !.status = "statement_allocated"]
        <5>1. b \in allocations'
          BY <2>5, <4>1 DEF RegisterStatement, TakenUp
        <5>2. [a EXCEPT !.status = b.status] = b /\ b.status = "statement_allocated"
          BY <2>1, AdvancedAllocation
        <5>3. Rank(a.status) = 1 /\ Rank("statement_allocated") = 2
          BY <4>1 DEF Rank
        <5> HIDE DEF b
        <5>4. Rank(a.status) <= Rank(b.status)
          BY <5>2, <5>3
        <5> QED
          BY <5>1, <5>2, <5>4 DEF Advances
      <4>2. CASE ~ (a.cycle = cycle /\ a.status = "pending")
        BY <2>2, <2>5, <4>2 DEF RegisterStatement, TakenUp
      <4> QED
        BY <4>1, <4>2
    <3>2. \A b \in allocations' : Stems(b)
      BY <2>5, TakenUpAllocation DEF RegisterStatement, Stems
    <3> QED
      BY <2>5, <3>1, <3>2 DEF RegisterStatement
  <2>6. ASSUME NEW key \in Keys, NEW a \in allocations, NEW amount \in Amounts,
               RecordPrincipalPayment(key, a, amount)
        PROVE  Kept
    <3> DEFINE paid == [a EXCEPT !.status = "paid"]
    <3>1. /\ [a EXCEPT !.status = paid.status] = paid /\ paid.status = "paid"
          /\ Rank(a.status) <= Rank(paid.status)
      <4>1. [a EXCEPT !.status = paid.status] = paid /\ paid.status = "paid"
        BY <2>1, AdvancedAllocation
      <4>2. Rank("paid") = 3
        BY DEF Rank
      <4> QED
        BY <2>1, <4>1, <4>2
    <3>2. /\ allocations' = (allocations \ {a}) \cup {paid} \/ UNCHANGED allocations
          /\ principalPayments \subseteq principalPayments'
          /\ \/ plans' = (plans \ {PlanOf(a)}) \cup {[PlanOf(a) EXCEPT !.status = "completed"]}
             \/ UNCHANGED plans
      BY <2>6 DEF RecordPrincipalPayment
    <3> HIDE DEF paid
    <3>3. \A b \in allocations : Advances(b)
      BY <2>2, <3>1, <3>2 DEF Advances
    <3>4. \A b \in allocations' : Stems(b)
      BY <2>3, <3>1, <3>2 DEF Stems
    <3>5. \A p \in plans : p \in plans' \/ [p EXCEPT !.status = "completed"] \in plans'
      BY <3>2
    <3> QED
      BY <3>2, <3>3, <3>4, <3>5
  <2>7. ASSUME UNCHANGED <<plans, allocations, principalPayments>>
        PROVE  Kept
    BY <2>2, <2>3, <2>7
  <2>8. CASE UNCHANGED vars
    BY <2>8
  <2> HIDE DEF Kept
  <2> QED
    BY <2>4, <2>5, <2>6, <2>7, <2>8 DEF Next, PostCharge, ArchiveAccount
<1> QED
  BY <1>1, InitIInv, NextPreservesIInv, PTL DEF Spec, SchedulesAreHistory

=============================================================================
