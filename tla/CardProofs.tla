------------------------------ MODULE CardProofs ------------------------------
(***************************************************************************)
(* Theorems of CardPayments, of what CardProjection makes of its rows, of  *)
(* CardCycle, and of CardSessions, for every set of cards, cycles, keys,   *)
(* amounts, dates, horizons and sessions.                                  *)
(*                                                                         *)
(* That the statements of a cycle form a chain needs that the one in force *)
(* has the highest revision, and that a new key names no row; that a plan  *)
(* fits the statement in force needs the chain (IInv).  That what is       *)
(* planned and paid add up needs besides that flows belong to plans, that  *)
(* what settles a flow is a settlement of its own, and that the            *)
(* settlements are finitely many, so that they have a sum (MoneyInv).      *)
(*                                                                         *)
(* The card as a whole implements both of its halves, and so keeps what    *)
(* each of them keeps.  Only RegisterStatement changes both; that a        *)
(* correction takes nothing away from what is billed needs IInv.           *)
(*                                                                         *)
(* From statement to statement a session of CardSessions knows what it     *)
(* holds, what it has claimed and what it will write (SInv).  What others  *)
(* commit leaves that alone, since whoever holds a cycle keeps its         *)
(* statements and whoever holds a plan keeps the plan (Undisturbed); and   *)
(* what a session then commits is one action of CardPayments.              *)
(***************************************************************************)
EXTENDS CardCycle, CardProjection, CardSessions, SumTheorems

RowTypes ==
  /\ payments \subseteq PaymentRow
  /\ statements \subseteq StatementRow
  /\ intents \in [Cycles -> IntentRow \cup {NoIntent}]
  /\ settlements \subseteq SettlementRow

\* A key that is free names no row.
RowsAreClaimed ==
  /\ \A s \in statements : <<"register_credit_card_statement", s.id>> \in mutations
  /\ \A s \in settlements : <<"settle_credit_card_payment_intent", s.id>> \in mutations

PaymentsAreDistinct == \A p, q \in payments : p.id = q.id => p = q

\* What may still be replaced, cancelled or settled has a version to spare.
OpenPlansMayChange ==
  \A c \in Cycles : HasIntent(c) /\ Cancellable(c) => intents[c].version <= MaxVersion

\* A cycle with statements has one in force, the latest.
LatestIsInForce(c) ==
  (\E s \in statements : s.cycle = c) =>
    \E u \in statements :
      /\ ActiveStatements(c) = {u}
      /\ \A v \in statements : v.cycle = c => v.revision <= u.revision

RevisionsAreDistinct == \A s, u \in statements : s.cycle = u.cycle /\ s.revision = u.revision => s = u

SupersededAreReplaced ==
  \A s \in statements : s.supersededBy # NoKey => \E u \in statements : Replaces(u, s)

PlanFits(c) ==
  HasIntent(c) /\ intents[c].status = "active" => Plannable(c, intents[c].amount, intents[c].planned)

StatementInv ==
  /\ \A c \in Cycles : LatestIsInForce(c)
  /\ RevisionsAreDistinct
  /\ SupersededAreReplaced

IInv ==
  /\ RowTypes
  /\ RowsAreClaimed
  /\ PaymentsAreDistinct
  /\ OpenPlansMayChange
  /\ StatementInv
  /\ \A c \in Cycles : PlanFits(c)
  /\ SettlementsArePosted

-----------------------------------------------------------------------------
(* A new statement *)

\* A revision that is superseded keeps everything but its end.
LEMMA SupersededStatement ==
  ASSUME NEW s \in StatementRow, NEW key \in Keys
  PROVE  LET t == [s EXCEPT !.supersededBy = key] IN
         /\ t \in StatementRow
         /\ t.id = s.id /\ t.cycle = s.cycle /\ t.revision = s.revision /\ t.authority = s.authority
         /\ t.supersededBy = key
BY DEF StatementRow

\* The revision that comes next is higher than all that the cycle has.
LEMMA NextRevisionIsHigher ==
  ASSUME RowTypes, NEW cycle \in Cycles, LatestIsInForce(cycle)
  PROVE  /\ NextRevision(cycle) \in Nat
         /\ \A s \in statements : s.cycle = cycle => s.revision < NextRevision(cycle)
         /\ \A s \in ActiveStatements(cycle) : NextRevision(cycle) = s.revision + 1
<1>1. CASE \E s \in statements : s.cycle = cycle
  <2>1. PICK u \in statements : /\ ActiveStatements(cycle) = {u}
                                /\ \A v \in statements : v.cycle = cycle => v.revision <= u.revision
    BY <1>1 DEF LatestIsInForce
  <2>2. NextRevision(cycle) = u.revision + 1
    BY <2>1 DEF NextRevision
  <2>3. \A v \in statements : v.revision \in Nat
    BY DEF RowTypes, StatementRow
  <2> QED
    BY <2>1, <2>2, <2>3
<1>2. CASE ~ \E s \in statements : s.cycle = cycle
  BY <1>2 DEF NextRevision, ActiveStatements
<1> QED
  BY <1>1, <1>2

LEMMA RegisterPreservesStatements ==
  ASSUME IInv, NEW key \in Keys, NEW cycle \in Cycles, NEW authority \in {"estimated", "issued"},
         NEW balance \in Balances, NEW due \in Dates,
         RegisterStatement(key, cycle, authority, balance, due)
  PROVE  /\ statements' \subseteq StatementRow
         /\ \A s \in statements' : <<"register_credit_card_statement", s.id>> \in mutations'
         /\ StatementInv'
         /\ \A c \in Cycles \ {cycle} : ActiveStatements(c)' = ActiveStatements(c)
         /\ \E s \in ActiveStatements(cycle)' : s.balance = balance /\ s.due = due
<1> DEFINE new == [id |-> key, cycle |-> cycle, revision |-> NextRevision(cycle), authority |-> authority,
                   balance |-> balance, due |-> due, supersededBy |-> NoKey]
           Superseded(s) == IF s \in ActiveStatements(cycle) THEN [s EXCEPT !.supersededBy = key] ELSE s
<1>1. statements' = {Superseded(s) : s \in statements} \cup {new}
  BY DEF RegisterStatement
<1>2. mutations' = mutations \cup {<<"register_credit_card_statement", key>>}
  BY DEF RegisterStatement
<1>3. /\ NextRevision(cycle) \in Nat
      /\ \A s \in statements : s.cycle = cycle => s.revision < NextRevision(cycle)
      /\ \A s \in ActiveStatements(cycle) : NextRevision(cycle) = s.revision + 1
  BY NextRevisionIsHigher DEF IInv, StatementInv
<1>4. new \in StatementRow
  BY <1>3 DEF StatementRow
<1>5. \A s \in statements : s \in StatementRow
  BY DEF IInv, RowTypes
<1>6. ASSUME NEW s \in statements
      PROVE  /\ Superseded(s) \in StatementRow
             /\ Superseded(s).id = s.id /\ Superseded(s).cycle = s.cycle
             /\ Superseded(s).revision = s.revision /\ Superseded(s).authority = s.authority
  BY <1>5, SupersededStatement
<1>7. \A s \in statements : s \in ActiveStatements(cycle) => Superseded(s).supersededBy = key
  BY <1>5, SupersededStatement
<1>8. \A s \in statements : s \notin ActiveStatements(cycle) => Superseded(s) = s
  OBVIOUS
<1>9. key # NoKey
  BY NullAssumption
<1> HIDE DEF Superseded
<1>10. ActiveStatements(cycle)' = {new}
  <2>1. \A s \in statements : ~ (Superseded(s).cycle = cycle /\ Superseded(s).supersededBy = NoKey)
    BY <1>6, <1>7, <1>8, <1>9 DEF ActiveStatements
  <2> QED
    BY <1>1, <2>1 DEF ActiveStatements
<1>11. ASSUME NEW c \in Cycles \ {cycle}
       PROVE  ActiveStatements(c)' = ActiveStatements(c)
  <2>1. \A s \in statements : s.cycle = c => Superseded(s) = s
    BY <1>8 DEF ActiveStatements
  <2>2. \A s \in statements : Superseded(s).cycle = c => s.cycle = c
    BY <1>6
  <2> QED
    BY <1>1, <2>1, <2>2 DEF ActiveStatements
<1>12. statements' \subseteq StatementRow
  BY <1>1, <1>4, <1>6
<1>13. \A s \in statements' : <<"register_credit_card_statement", s.id>> \in mutations'
  <2>1. \A s \in statements : <<"register_credit_card_statement", s.id>> \in mutations
    BY DEF IInv, RowsAreClaimed
  <2>2. \A s \in statements' : s = new \/ \E u \in statements : s.id = u.id
    BY <1>1, <1>6
  <2>3. new.id = key
    OBVIOUS
  <2> HIDE DEF new
  <2> QED
    BY <1>2, <2>1, <2>2, <2>3
<1>14. ASSUME NEW c \in Cycles
       PROVE  LatestIsInForce(c)'
  <2>1. CASE c = cycle
    <3>1. \A v \in statements' : v.cycle = cycle => v.revision <= new.revision
      BY <1>1, <1>3, <1>5, <1>6 DEF StatementRow
    <3> QED
      BY <1>1, <1>10, <2>1, <3>1 DEF LatestIsInForce
  <2>2. CASE c # cycle
    <3>1. \A s \in statements : s.cycle = c => Superseded(s) = s
      BY <1>8, <2>2 DEF ActiveStatements
    <3>2. \A v \in statements' : v.cycle = c => v \in statements
      BY <1>1, <1>6, <2>2, <3>1
    <3>3. SUFFICES ASSUME \E s \in statements' : s.cycle = c
                   PROVE  \E u \in statements' : /\ ActiveStatements(c)' = {u}
                                                 /\ \A v \in statements' : v.cycle = c => v.revision <= u.revision
      BY DEF LatestIsInForce
    <3>4. PICK u \in statements : /\ ActiveStatements(c) = {u}
                                  /\ \A v \in statements : v.cycle = c => v.revision <= u.revision
      BY <3>2, <3>3 DEF IInv, StatementInv, LatestIsInForce
    <3>5. u \in statements'
      BY <1>1, <3>1, <3>4 DEF ActiveStatements
    <3> QED
      BY <1>11, <2>2, <3>2, <3>4, <3>5
  <2> QED
    BY <2>1, <2>2
<1>15. RevisionsAreDistinct'
  <2> SUFFICES ASSUME NEW s \in statements', NEW u \in statements', s.cycle = u.cycle, s.revision = u.revision
               PROVE  s = u
    BY DEF RevisionsAreDistinct
  <2>1. CASE s = new \/ u = new
    BY <1>1, <1>3, <1>5, <1>6, <2>1 DEF StatementRow
  <2>2. CASE s # new /\ u # new
    <3>1. PICK s0 \in statements : s = Superseded(s0)
      BY <1>1, <2>2
    <3>2. PICK u0 \in statements : u = Superseded(u0)
      BY <1>1, <2>2
    <3> QED
      BY <1>6, <3>1, <3>2 DEF IInv, StatementInv, RevisionsAreDistinct
  <2> QED
    BY <2>1, <2>2
<1>16. SupersededAreReplaced'
  <2> SUFFICES ASSUME NEW s \in statements', s.supersededBy # NoKey
               PROVE  \E u \in statements' : Replaces(u, s)
    BY DEF SupersededAreReplaced, Replaces
  <2>1. PICK old \in statements : s = Superseded(old)
    BY <1>1
  <2>2. CASE old \in ActiveStatements(cycle)
    <3>1. s.supersededBy = key /\ s.cycle = cycle /\ s.authority = old.authority
      BY <1>6, <1>7, <2>1, <2>2 DEF ActiveStatements
    <3>2. new.revision = s.revision + 1
      BY <1>3, <1>6, <2>1, <2>2
    <3>3. old.authority = "issued" => authority = "issued"
      BY <2>2 DEF RegisterStatement, MayReplace
    <3> QED
      BY <1>1, <3>1, <3>2, <3>3 DEF Replaces
  <2>3. CASE old \notin ActiveStatements(cycle)
    <3>1. s = old
      BY <1>8, <2>1, <2>3
    <3>2. PICK u \in statements : Replaces(u, old)
      BY <3>1 DEF IInv, StatementInv, SupersededAreReplaced
    <3>3. Superseded(u) \in statements' /\ Replaces(Superseded(u), s)
      BY <1>1, <1>6, <3>1, <3>2 DEF Replaces
    <3> QED
      BY <3>3
  <2> QED
    BY <2>2, <2>3
<1> QED
  BY <1>10, <1>11, <1>12, <1>13, <1>14, <1>15, <1>16 DEF StatementInv

-----------------------------------------------------------------------------
(* Plans *)

\* Without a new statement, statements and what depends on them alone stay.
LEMMA StatementsUnchanged ==
  ASSUME IInv, UNCHANGED statements
  PROVE  /\ StatementInv'
         /\ \A c : ActiveStatements(c)' = ActiveStatements(c)
BY DEF IInv, StatementInv, LatestIsInForce, RevisionsAreDistinct, SupersededAreReplaced, Replaces, ActiveStatements

\* A plan that is not active needs to fit nothing; one that is unchanged still fits.
LEMMA PlanStillFits ==
  ASSUME IInv, NEW c \in Cycles, ActiveStatements(c)' = ActiveStatements(c),
         intents[c]' = intents[c] \/ intents[c]'.status # "active"
  PROVE  PlanFits(c)'
BY DEF IInv, PlanFits, HasIntent, Plannable

\* A row that is a plan is not the absence of one.
LEMMA PlansAreRows ==
  ASSUME IInv, NEW c \in Cycles, HasIntent(c)
  PROVE  /\ intents[c] \in IntentRow
         /\ intents[c].amount \in Nat /\ intents[c].planned \in Nat /\ intents[c].version \in Nat
<1>1. intents[c] \in IntentRow
  BY DEF IInv, RowTypes, HasIntent
<1>2. /\ intents[c].amount \in Amounts
      /\ intents[c].planned \in Dates
      /\ intents[c].version \in 1..(MaxVersion + 1)
  BY <1>1 DEF IntentRow
<1>3. /\ Amounts \subseteq Nat
      /\ Dates \subseteq Nat
      /\ MaxVersion \in Nat
  BY MoneyAssumption, DateAssumption
<1>4. intents[c].amount \in Nat /\ intents[c].planned \in Nat
  BY <1>2, <1>3
<1>5. intents[c].version \in Nat
  BY <1>2, <1>3
<1> QED
  BY <1>1, <1>4, <1>5

-----------------------------------------------------------------------------
(* Each operation preserves the invariant *)

LEMMA RegisterPreservesIInv ==
  ASSUME IInv, NEW key \in Keys, NEW cycle \in Cycles, NEW authority \in {"estimated", "issued"},
         NEW balance \in Balances, NEW due \in Dates,
         RegisterStatement(key, cycle, authority, balance, due)
  PROVE  IInv'
<1>1. /\ statements' \subseteq StatementRow
      /\ \A s \in statements' : <<"register_credit_card_statement", s.id>> \in mutations'
      /\ StatementInv'
      /\ \A c \in Cycles \ {cycle} : ActiveStatements(c)' = ActiveStatements(c)
      /\ \E s \in ActiveStatements(cycle)' : s.balance = balance /\ s.due = due
  BY RegisterPreservesStatements
<1>2. UNCHANGED <<payments, settlements>> /\ mutations \subseteq mutations'
  BY DEF RegisterStatement
<1>3. \/ UNCHANGED intents /\ ~ Outgrown(cycle, balance, due)
      \/ /\ HasIntent(cycle) /\ intents[cycle].status = "active"
         /\ intents' = [intents EXCEPT ![cycle].status = "needs_review"]
  BY DEF RegisterStatement, Outgrown
<1>4. /\ intents' \in [Cycles -> IntentRow \cup {NoIntent}]
      /\ \A c \in Cycles : (HasIntent(c)' <=> HasIntent(c)) /\ intents'[c].version = intents[c].version
      /\ \A c \in Cycles :
                         \/ intents'[c] = intents[c]
                         \/ Cancellable(c) /\ (intents'[c].status = "needs_review")
  <2>1. CASE UNCHANGED intents
    BY <2>1 DEF IInv, RowTypes, HasIntent
  <2>2. CASE /\ HasIntent(cycle) /\ intents[cycle].status = "active"
             /\ intents' = [intents EXCEPT ![cycle].status = "needs_review"]
    <3> DEFINE row == [intents[cycle] EXCEPT !.status = "needs_review"]
    <3>1. row \in IntentRow /\ row.version = intents[cycle].version /\ row.status = "needs_review"
      BY <2>2, PlansAreRows DEF IntentRow
    <3>2. row # NoIntent
      BY <3>1, IntentAssumption
    <3>3. intents' = [intents EXCEPT ![cycle] = row]
      BY <2>2
    <3> HIDE DEF row
    <3> QED
      BY <2>2, <3>1, <3>2, <3>3 DEF IInv, RowTypes, HasIntent, Cancellable
  <2> QED
    BY <1>3, <2>1, <2>2
<1>5. RowTypes' /\ RowsAreClaimed' /\ PaymentsAreDistinct'
  BY <1>1, <1>2, <1>4 DEF IInv, RowTypes, RowsAreClaimed, PaymentsAreDistinct
<1>6. OpenPlansMayChange'
  BY <1>4 DEF IInv, OpenPlansMayChange, Cancellable
<1>7. SettlementsArePosted'
  BY <1>2, <1>4 DEF IInv, RowTypes, SettlementRow, SettlementsArePosted
<1>8. ASSUME NEW c \in Cycles
      PROVE  PlanFits(c)'
  <2>1. CASE c # cycle
    BY <1>1, <1>4, <2>1, PlanStillFits
  <2>2. CASE c = cycle
    <3>1. SUFFICES ASSUME HasIntent(cycle)', intents'[cycle].status = "active"
                   PROVE  Plannable(cycle, intents[cycle].amount, intents[cycle].planned)'
      BY <2>2 DEF PlanFits
    <3>2. UNCHANGED intents /\ ~ Outgrown(cycle, balance, due)
      BY <1>3, <1>4, <3>1, PlansAreRows DEF IInv, RowTypes, IntentRow
    <3>3. intents[cycle].amount <= balance /\ intents[cycle].planned <= due
      BY <3>1, <3>2, PlansAreRows, MoneyAssumption, DateAssumption DEF HasIntent, Outgrown
    <3> QED
      BY <1>1, <3>2, <3>3 DEF Plannable
  <2> QED
    BY <2>1, <2>2
<1> QED
  BY <1>1, <1>5, <1>6, <1>7, <1>8 DEF IInv

LEMMA ReplacePreservesIInv ==
  ASSUME IInv, NEW cycle \in Cycles, NEW amount \in Amounts, NEW planned \in Dates,
         ReplaceIntent(cycle, amount, planned)
  PROVE  IInv'
<1> DEFINE row == [amount |-> amount, planned |-> planned, version |-> NextVersion(cycle), status |-> "active"]
<1>1. /\ intents' = [intents EXCEPT ![cycle] = row]
      /\ Plannable(cycle, amount, planned)
      /\ HasIntent(cycle) => Cancellable(cycle) /\ intents[cycle].version < MaxVersion
      /\ UNCHANGED <<payments, statements, settlements, mutations>>
  BY DEF ReplaceIntent, Cancellable
<1>2. row \in IntentRow /\ row # NoIntent /\ row.version <= MaxVersion
  <2>1. NextVersion(cycle) \in 1..MaxVersion
    BY <1>1, PlansAreRows, DateAssumption DEF NextVersion, IntentRow
  <2> QED
    BY <2>1, DateAssumption, IntentAssumption DEF IntentRow
<1>3. /\ row.status = "active"
      /\ Plannable(cycle, row.amount, row.planned)
  BY <1>1
<1> HIDE DEF row
<1>4. /\ intents' \in [Cycles -> IntentRow \cup {NoIntent}]
      /\ \A c \in Cycles : HasIntent(c) => HasIntent(c)'
      /\ intents'[cycle] = row
      /\ \A c \in Cycles \ {cycle} : intents'[c] = intents[c]
  BY <1>1, <1>2 DEF IInv, RowTypes, HasIntent
<1>5. RowTypes' /\ RowsAreClaimed' /\ PaymentsAreDistinct'
  BY <1>1, <1>4 DEF IInv, RowTypes, RowsAreClaimed, PaymentsAreDistinct
<1>6. OpenPlansMayChange'
  BY <1>2, <1>4 DEF IInv, OpenPlansMayChange, HasIntent, Cancellable
<1>7. SettlementsArePosted'
  BY <1>1, <1>4 DEF IInv, RowTypes, SettlementRow, SettlementsArePosted
<1>8. StatementInv' /\ \A c : ActiveStatements(c)' = ActiveStatements(c)
  BY <1>1, StatementsUnchanged
<1>9. ASSUME NEW c \in Cycles
      PROVE  PlanFits(c)'
  <2>1. CASE c # cycle
    BY <1>4, <1>8, <2>1, PlanStillFits
  <2>2. CASE c = cycle
    BY <1>3, <1>4, <1>8, <2>2 DEF PlanFits, Plannable
  <2> QED
    BY <2>1, <2>2
<1> QED
  BY <1>5, <1>6, <1>7, <1>8, <1>9 DEF IInv

\* A plan that ends is at a version that it could still change from.
LEMMA EndedPlan ==
  ASSUME IInv, NEW cycle \in Cycles, HasIntent(cycle), Cancellable(cycle),
         NEW outcome \in {"cancelled", "settled"},
         intents' = [intents EXCEPT ![cycle].status = outcome, ![cycle].version = @ + 1]
  PROVE  /\ intents' \in [Cycles -> IntentRow \cup {NoIntent}]
         /\ \A c \in Cycles : HasIntent(c)' <=> HasIntent(c)
         /\ intents'[cycle].status = outcome
         /\ intents'[cycle].amount = intents[cycle].amount
         /\ intents'[cycle].planned = intents[cycle].planned
         /\ intents'[cycle].version = intents[cycle].version + 1
         /\ \A c \in Cycles \ {cycle} : intents'[c] = intents[c]
<1> DEFINE row == [intents[cycle] EXCEPT !.status = outcome, !.version = @ + 1]
<1>1. intents' = [intents EXCEPT ![cycle] = row]
  OBVIOUS
<1>2. intents[cycle].version \in 1..MaxVersion /\ intents[cycle] \in IntentRow
  BY PlansAreRows, DateAssumption DEF IInv, OpenPlansMayChange, IntentRow
<1>3. /\ row \in IntentRow
      /\ row.status = outcome /\ row.version = intents[cycle].version + 1
      /\ row.amount = intents[cycle].amount /\ row.planned = intents[cycle].planned
  <2>1. intents[cycle].version + 1 \in 1..(MaxVersion + 1)
    BY <1>2, DateAssumption
  <2> QED
    BY <1>2, <2>1 DEF IntentRow
<1>4. row # NoIntent
  BY <1>3, IntentAssumption
<1> HIDE DEF row
<1> QED
  BY <1>1, <1>3, <1>4 DEF IInv, RowTypes, HasIntent

LEMMA CancelPreservesIInv ==
  ASSUME IInv, NEW cycle \in Cycles, CancelIntent(cycle)
  PROVE  IInv'
<1>1. /\ HasIntent(cycle) /\ Cancellable(cycle)
      /\ intents' = [intents EXCEPT ![cycle].status = "cancelled", ![cycle].version = @ + 1]
      /\ UNCHANGED <<payments, statements, settlements, mutations>>
  BY DEF CancelIntent
<1>2. /\ intents' \in [Cycles -> IntentRow \cup {NoIntent}]
      /\ \A c \in Cycles : HasIntent(c)' <=> HasIntent(c)
      /\ intents'[cycle].status = "cancelled"
      /\ \A c \in Cycles \ {cycle} : intents'[c] = intents[c]
  BY <1>1, EndedPlan
<1>3. StatementInv' /\ \A c : ActiveStatements(c)' = ActiveStatements(c)
  BY <1>1, StatementsUnchanged
<1>4. RowTypes' /\ RowsAreClaimed' /\ PaymentsAreDistinct'
  BY <1>1, <1>2 DEF IInv, RowTypes, RowsAreClaimed, PaymentsAreDistinct
<1>5. OpenPlansMayChange'
  BY <1>2 DEF IInv, OpenPlansMayChange, HasIntent, Cancellable
<1>6. SettlementsArePosted'
  BY <1>1, <1>2 DEF IInv, RowTypes, SettlementRow, SettlementsArePosted
<1>7. \A c \in Cycles : PlanFits(c)'
  BY <1>2, <1>3, PlanStillFits
<1> QED
  BY <1>3, <1>4, <1>5, <1>6, <1>7 DEF IInv

LEMMA SettlePreservesIInv ==
  ASSUME IInv, NEW key \in Keys, NEW cycle \in Cycles, NEW payment \in payments,
         SettleIntent(key, cycle, payment)
  PROVE  IInv'
<1> DEFINE new == [id |-> key, cycle |-> cycle, transfer |-> payment.id, amount |-> payment.amount]
<1>1. /\ HasIntent(cycle) /\ intents[cycle].status = "active" /\ Cancellable(cycle)
      /\ settlements' = settlements \cup {new}
      /\ mutations' = mutations \cup {<<"settle_credit_card_payment_intent", key>>}
      /\ UNCHANGED <<payments, statements>>
      /\ \/ intents' = [intents EXCEPT ![cycle].status = "settled", ![cycle].version = @ + 1]
         \/ UNCHANGED intents
  BY DEF SettleIntent, Cancellable, SettleInFull, SettleInPart
<1>2. /\ intents' \in [Cycles -> IntentRow \cup {NoIntent}]
      /\ \A c \in Cycles : HasIntent(c)' <=> HasIntent(c)
      /\ \A c \in Cycles : intents'[c] = intents[c] \/ intents'[c].status = "settled"
  <2>1. CASE UNCHANGED intents
    BY <2>1 DEF IInv, RowTypes, HasIntent
  <2>2. CASE intents' = [intents EXCEPT ![cycle].status = "settled", ![cycle].version = @ + 1]
    BY <1>1, <2>2, EndedPlan
  <2> QED
    BY <1>1, <2>1, <2>2
<1>3. StatementInv' /\ \A c : ActiveStatements(c)' = ActiveStatements(c)
  BY <1>1, StatementsUnchanged
<1>4. payment \in PaymentRow /\ new \in SettlementRow
  BY DEF IInv, RowTypes, PaymentRow, SettlementRow
<1>5. RowTypes' /\ PaymentsAreDistinct'
  BY <1>1, <1>2, <1>4 DEF IInv, RowTypes, PaymentsAreDistinct
<1>6. RowsAreClaimed'
  BY <1>1 DEF IInv, RowsAreClaimed
<1>7. OpenPlansMayChange'
  BY <1>2 DEF IInv, OpenPlansMayChange, HasIntent, Cancellable
<1>8. SettlementsArePosted'
  <2>1. payment = [id |-> payment.id, destination |-> CardOf[cycle], amount |-> payment.amount]
    BY <1>4 DEF PaymentRow, SettleIntent, Linked
  <2>2. \A s \in settlements : s.transfer # payment.id /\ s.id # key
    BY DEF IInv, RowsAreClaimed, SettleIntent, Linked, Unclaimed
  <2>3. \A s \in settlements' : s = new \/ s \in settlements
    BY <1>1
  <2>4. \A s, u \in settlements' : s.transfer = u.transfer \/ s.id = u.id => s = u
    BY <2>2, <2>3 DEF IInv, SettlementsArePosted
  <2>5. \A s \in settlements : s.cycle \in Cycles
    BY DEF IInv, RowTypes, SettlementRow
  <2>6. ASSUME NEW s \in settlements'
        PROVE  /\ [id |-> s.transfer, destination |-> CardOf[s.cycle], amount |-> s.amount] \in payments'
               /\ HasIntent(s.cycle)'
    <3>1. CASE s = new
      BY <1>1, <1>2, <2>1, <3>1
    <3>2. CASE s \in settlements
      BY <1>1, <1>2, <2>5, <3>2 DEF IInv, SettlementsArePosted
    <3> QED
      BY <2>3, <3>1, <3>2
  <2> QED
    BY <2>4, <2>6 DEF SettlementsArePosted
<1>9. \A c \in Cycles : PlanFits(c)'
  BY <1>2, <1>3, PlanStillFits
<1> QED
  BY <1>3, <1>5, <1>6, <1>7, <1>8, <1>9 DEF IInv

\* The ledger's steps, archival among them, and steps of others.
LEMMA LedgerPreservesIInv ==
  ASSUME IInv,
         UNCHANGED <<statements, intents, settlements, mutations>>,
         \/ UNCHANGED payments
         \/ \E transfer \in Transfers, card \in Cards, amount \in Amounts : PostTransfer(transfer, card, amount)
  PROVE  IInv'
<1>1. /\ payments \subseteq payments'
      /\ payments' \subseteq PaymentRow
      /\ PaymentsAreDistinct'
  <2>1. CASE UNCHANGED payments
    BY <2>1 DEF IInv, RowTypes, PaymentsAreDistinct
  <2>2. CASE \E transfer \in Transfers, card \in Cards, amount \in Amounts : PostTransfer(transfer, card, amount)
    BY <2>2 DEF IInv, RowTypes, PaymentsAreDistinct, PostTransfer, PaymentRow
  <2> QED
    BY <2>1, <2>2
<1>2. StatementInv' /\ \A c : ActiveStatements(c)' = ActiveStatements(c)
  BY StatementsUnchanged
<1>3. RowTypes' /\ RowsAreClaimed' /\ OpenPlansMayChange'
  BY <1>1 DEF IInv, RowTypes, RowsAreClaimed, OpenPlansMayChange, HasIntent, Cancellable
<1>4. SettlementsArePosted'
  BY <1>1 DEF IInv, SettlementsArePosted, HasIntent
<1>5. \A c \in Cycles : PlanFits(c)'
  BY <1>2, PlanStillFits
<1> QED
  BY <1>1, <1>2, <1>3, <1>4, <1>5 DEF IInv

-----------------------------------------------------------------------------
(* Theorems *)

LEMMA InitIInv == Init => IInv
<1> SUFFICES ASSUME Init PROVE IInv
  OBVIOUS
<1>1. \A c \in Cycles : ~ HasIntent(c)
  BY DEF Init, HasIntent
<1>2. RowTypes /\ RowsAreClaimed /\ PaymentsAreDistinct /\ SettlementsArePosted
  BY DEF Init, RowTypes, RowsAreClaimed, PaymentsAreDistinct, SettlementsArePosted
<1>3. StatementInv
  BY DEF Init, StatementInv, LatestIsInForce, RevisionsAreDistinct, SupersededAreReplaced
<1> QED
  BY <1>1, <1>2, <1>3 DEF IInv, OpenPlansMayChange, PlanFits

LEMMA NextPreservesIInv == IInv /\ [Next]_vars => IInv'
<1> SUFFICES ASSUME IInv, [Next]_vars PROVE IInv'
  OBVIOUS
<1>1. CASE UNCHANGED vars
  BY <1>1, LedgerPreservesIInv DEF vars
<1>2. CASE \E transfer \in Transfers, card \in Cards, amount \in Amounts : PostTransfer(transfer, card, amount)
  BY <1>2, LedgerPreservesIInv DEF PostTransfer
<1>3. CASE \E card \in Cards : ArchiveAccount(card)
  BY <1>3, LedgerPreservesIInv DEF ArchiveAccount
<1>4. CASE \E key \in Keys, cycle \in Cycles, authority \in {"estimated", "issued"}, balance \in Balances,
              due \in Dates : RegisterStatement(key, cycle, authority, balance, due)
  BY <1>4, RegisterPreservesIInv
<1>5. CASE \E cycle \in Cycles, amount \in Amounts, planned \in Dates : ReplaceIntent(cycle, amount, planned)
  BY <1>5, ReplacePreservesIInv
<1>6. CASE \E cycle \in Cycles : CancelIntent(cycle)
  BY <1>6, CancelPreservesIInv
<1>7. CASE \E key \in Keys, cycle \in Cycles, payment \in payments : SettleIntent(key, cycle, payment)
  BY <1>7, SettlePreservesIInv
<1> QED
  BY <1>1, <1>2, <1>3, <1>4, <1>5, <1>6, <1>7 DEF Next

\* The statements of a cycle form one chain, and an active plan fits the
\* statement in force, after any sequence of calls
\* (RegisterStatement and ReplaceIntent of card_repository.go).
THEOREM CardPlansFollowTheStatement == Spec => []PlansFollowTheStatement
<1>1. IInv => PlansFollowTheStatement
  <2> SUFFICES ASSUME IInv PROVE PlansFollowTheStatement
    OBVIOUS
  <2>1. \A s \in statements : s.cycle \in Cycles
    BY DEF IInv, RowTypes, StatementRow
  <2>2. ASSUME NEW s \in statements PROVE Cardinality(ActiveStatements(s.cycle)) = 1
    <3>1. PICK u : ActiveStatements(s.cycle) = {u}
      BY <2>1 DEF IInv, StatementInv, LatestIsInForce
    <3> QED
      BY <3>1, FS_Singleton
  <2> QED
    BY <2>2 DEF IInv, StatementInv, StatementsFormAChain, RevisionsAreDistinct, SupersededAreReplaced,
                PlanFits, PlansFollowTheStatement
<1> QED
  BY <1>1, InitIInv, NextPreservesIInv, PTL DEF Spec

\* Whatever ends a row of flows or statements leaves rows that had ended alone.
LEMMA ReplacedFlows ==
  ASSUME NEW cycle, NEW f \in flows, f.status # "scheduled"
  PROVE  /\ f \in FlowsCancelled(cycle)
         /\ \A transfer : f \in FlowsSettled(cycle, transfer)
BY DEF FlowsCancelled, FlowsSettled, IsScheduled

\* A plan that is settled or cancelled stays as it is, versions never go back,
\* and what has ended among statements, flows and settlements is never rewritten,
\* whichever call comes next (the status conditions of RegisterStatement,
\* ReplaceIntent, CancelIntent and SettleIntent of card_repository.go).
LEMMA OutcomesStayFinal == IInv /\ [Next]_vars => [OutcomesAreFinal]_vars
<1> SUFFICES ASSUME IInv, [Next]_vars PROVE [OutcomesAreFinal]_vars
  OBVIOUS
<1> DEFINE PlansKept ==
             \A c \in Cycles : HasIntent(c) =>
               /\ intents'[c].version >= intents[c].version
               /\ intents[c].status \in {"settled", "cancelled"} => intents'[c] = intents[c]
           FlowsKeptAsEnded == \A f \in flows : f \in flows' \/ f.status = "scheduled"
<1>1. \A c \in Cycles : HasIntent(c) => intents[c].version \in Nat /\ intents[c] \in IntentRow
  BY PlansAreRows
<1>2. intents \in [Cycles -> IntentRow \cup {NoIntent}]
  BY DEF IInv, RowTypes
<1>3. ASSUME UNCHANGED intents PROVE PlansKept
  BY <1>1, <1>3
<1>4. ASSUME NEW cycle, flows' = FlowsCancelled(cycle) PROVE FlowsKeptAsEnded
  BY <1>4, ReplacedFlows
<1> HIDE DEF PlansKept, FlowsKeptAsEnded
<1>5. ASSUME PlansKept, FlowsKeptAsEnded, settlements \subseteq settlements',
             \A s \in statements : s \in statements' \/ s.supersededBy = NoKey
      PROVE  [OutcomesAreFinal]_vars
  BY <1>5 DEF OutcomesAreFinal, PlansKept, FlowsKeptAsEnded
<1>6. ASSUME NEW key \in Keys, NEW cycle \in Cycles, NEW authority, NEW balance, NEW due,
             RegisterStatement(key, cycle, authority, balance, due)
      PROVE  [OutcomesAreFinal]_vars
  <2>1. PlansKept
    BY <1>1, <1>2, <1>6 DEF PlansKept, RegisterStatement, Outgrown, IntentRow
  <2>2. FlowsKeptAsEnded
    BY <1>4, <1>6 DEF FlowsKeptAsEnded, RegisterStatement
  <2>3. \A s \in statements : s \in statements' \/ s.supersededBy = NoKey
    BY <1>6 DEF RegisterStatement, ActiveStatements
  <2> QED
    BY <1>5, <1>6, <2>1, <2>2, <2>3 DEF RegisterStatement
<1>7. ASSUME NEW cycle \in Cycles, NEW amount, NEW planned, ReplaceIntent(cycle, amount, planned)
      PROVE  [OutcomesAreFinal]_vars
  <2>1. PlansKept
    BY <1>1, <1>2, <1>7 DEF PlansKept, ReplaceIntent, NextVersion
  <2>2. FlowsKeptAsEnded
    BY <1>7, ReplacedFlows DEF FlowsKeptAsEnded, ReplaceIntent
  <2> QED
    BY <1>5, <1>7, <2>1, <2>2 DEF ReplaceIntent
<1>8. ASSUME NEW cycle \in Cycles, CancelIntent(cycle)
      PROVE  [OutcomesAreFinal]_vars
  <2>1. PlansKept
    BY <1>1, <1>2, <1>8 DEF PlansKept, CancelIntent, Cancellable, IntentRow
  <2>2. FlowsKeptAsEnded
    BY <1>4, <1>8 DEF CancelIntent
  <2> QED
    BY <1>5, <1>8, <2>1, <2>2 DEF CancelIntent
<1>9. ASSUME NEW key \in Keys, NEW cycle \in Cycles, NEW payment \in payments, SettleIntent(key, cycle, payment)
      PROVE  [OutcomesAreFinal]_vars
  <2>1. PlansKept
    BY <1>1, <1>2, <1>3, <1>9 DEF PlansKept, SettleIntent, SettleInFull, SettleInPart, IntentRow
  <2>2. FlowsKeptAsEnded
    BY <1>9, ReplacedFlows DEF FlowsKeptAsEnded, SettleIntent, SettleInFull, SettleInPart
  <2> QED
    BY <1>5, <1>9, <2>1, <2>2 DEF SettleIntent
<1>10. ASSUME UNCHANGED <<statements, intents, flows, settlements>>
       PROVE  [OutcomesAreFinal]_vars
  BY <1>3, <1>5, <1>10 DEF FlowsKeptAsEnded
<1> QED
  BY <1>6, <1>7, <1>8, <1>9, <1>10 DEF Next, vars, PostTransfer, ArchiveAccount

-----------------------------------------------------------------------------
(* What is paid and what is planned *)

FlowsOf(c) == {f \in flows : f.cycle = c}

PlanReconciles(c) ==
  HasIntent(c) =>
    /\ intents[c].status = "settled" <=> SettledAmount(c) = intents[c].amount
    /\ LifecycleConsistent(c)
    /\ FlowIdsAreFree(c)

\* Flows are of plans, and what settles one is a settlement of its own.
FlowsAreLinked ==
  \A f \in flows :
    /\ HasIntent(f.cycle)
    /\ f.settledBy # NoKey => \E s \in settlements : s.transfer = f.settledBy

MoneyInv ==
  /\ TypeOK
  /\ IsFiniteSet(settlements)
  /\ FlowsAreLinked
  /\ SettledFlowsMatchAPayment
  /\ \A c \in Cycles : PlanReconciles(c)

\* What is settled of a cycle is a natural number, zero without settlements only.
LEMMA SettledIsNatural ==
  ASSUME settlements \subseteq SettlementRow, IsFiniteSet(settlements), NEW c
  PROVE  /\ IsFiniteSet(SettlementsOf(c))
         /\ [s \in SettlementsOf(c) |-> s.amount] \in [SettlementsOf(c) -> Int]
         /\ SettledAmount(c) \in Nat
         /\ SettledAmount(c) = 0 <=> SettlementsOf(c) = {}
<1> DEFINE S == SettlementsOf(c)
           f == [s \in S |-> s.amount]
<1>1. \A a \in Amounts : a \in Nat /\ a > 0
  BY MoneyAssumption
<1>2. \A s \in S : s.amount \in Nat /\ s.amount > 0
  BY <1>1 DEF SettlementsOf, SettlementRow
<1>3. IsFiniteSet(S)
  BY FS_Subset DEF SettlementsOf
<1>4. f \in [S -> Int] /\ f \in [S -> Nat]
  BY <1>2
<1>5. SettledAmount(c) = SumFunction(f)
  BY DEF SettledAmount
<1>6. SumFunction(f) \in Nat /\ (S = {} => SumFunction(f) = 0)
  <2> HIDE DEF f, S
  <2> QED
    BY <1>3, <1>4, SumType
<1>7. ASSUME NEW s \in S
      PROVE  SumFunction(f) > 0
  <2>1. f[s] > 0 /\ f[s] \in Nat
    BY <1>2
  <2> DEFINE g == [t \in S \ {s} |-> f[t]]
  <2>2. g \in [S \ {s} -> Int] /\ g \in [S \ {s} -> Nat] /\ \A t \in S \ {s} : g[t] = f[t]
    BY <1>4
  <2>3. IsFiniteSet(S \ {s})
    BY <1>3, FS_RemoveElement
  <2> HIDE DEF f, S, g
  <2>4. SumFunction(g) = SumFunction(f) - f[s]
    BY <1>3, <1>4, <2>2, SumWithout
  <2>5. SumFunction(g) \in Nat
    BY <2>2, <2>3, SumType
  <2> QED
    BY <1>6, <2>1, <2>4, <2>5
<1> QED
  BY <1>3, <1>4, <1>5, <1>6, <1>7

\* A settlement adds its amount to its cycle and to no other.
LEMMA SettledGrows ==
  ASSUME settlements \subseteq SettlementRow, IsFiniteSet(settlements),
         NEW new \in SettlementRow, new \notin settlements, settlements' = settlements \cup {new}
  PROVE  /\ SettledAmount(new.cycle)' = SettledAmount(new.cycle) + new.amount
         /\ \A c \in Cycles \ {new.cycle} : SettledAmount(c)' = SettledAmount(c)
<1> DEFINE S == SettlementsOf(new.cycle)
           f == [s \in S |-> s.amount]
           g == [s \in S \cup {new} |-> s.amount]
<1>1. SettlementsOf(new.cycle)' = S \cup {new} /\ new \notin S
  BY DEF SettlementsOf
<1>2. IsFiniteSet(S) /\ f \in [S -> Int]
  BY SettledIsNatural
<1>3. new.amount \in Int
  <2>1. \A a \in Amounts : a \in Int
    BY MoneyAssumption
  <2> QED
    BY <2>1 DEF SettlementRow
<1>4. g \in [S \cup {new} -> Int] /\ g[new] = new.amount /\ \A s \in S : g[s] = f[s]
  BY <1>2, <1>3
<1>5. SettledAmount(new.cycle) = SumFunction(f) /\ SettledAmount(new.cycle)' = SumFunction(g)
  BY <1>1 DEF SettledAmount
<1> HIDE DEF f, g, S
<1>6. SumFunction(g) = SumFunction(f) + g[new]
  BY <1>1, <1>2, <1>4, SumWith
<1>7. \A c \in Cycles \ {new.cycle} : SettlementsOf(c)' = SettlementsOf(c)
  BY DEF SettlementsOf
<1>8. \A c \in Cycles \ {new.cycle} : SettledAmount(c)' = SettledAmount(c)
  BY <1>7 DEF SettledAmount
<1> QED
  BY <1>4, <1>5, <1>6, <1>8

LEMMA SettledUnchanged ==
  ASSUME UNCHANGED settlements
  PROVE  \A c : SettledAmount(c)' = SettledAmount(c) /\ SettlementsOf(c)' = SettlementsOf(c)
BY DEF SettledAmount, SettlementsOf

\* A plan whose row, payments and flows stay as they are still reconciles.
LEMMA PlanStillReconciles ==
  ASSUME NEW c \in Cycles, PlanReconciles(c),
         intents[c]' = intents[c], SettledAmount(c)' = SettledAmount(c), FlowsOf(c)' = FlowsOf(c)
  PROVE  PlanReconciles(c)'
<1>1. ScheduledFlows(c)' = ScheduledFlows(c)
  BY DEF FlowsOf, ScheduledFlows, IsScheduled
<1>2. LifecycleConsistent(c) => LifecycleConsistent(c)'
  BY <1>1 DEF LifecycleConsistent, ScheduledFlows
<1>3. Remaining(c)' = Remaining(c)
  BY DEF Remaining
<1>4. \A version, amount : FlowIdFree(c, version, amount)' <=> FlowIdFree(c, version, amount)
  BY DEF FlowIdFree, FlowsOf
<1>5. FlowIdsAreFree(c) => FlowIdsAreFree(c)'
  BY <1>3, <1>4 DEF FlowIdsAreFree, FlowsOf
<1> QED
  BY <1>2, <1>5 DEF PlanReconciles, HasIntent

\* Flows that are settled stay matched when no other one becomes settled.
LEMMA FlowsStayMatched ==
  ASSUME SettledFlowsMatchAPayment, payments \subseteq PaymentRow, payments \subseteq payments',
         \A f \in flows' : f.status = "settled" => f \in flows /\ intents'[f.cycle].status = "settled",
         \A g \in flows' : \/ g.settledBy = NoKey
                           \/ \E h \in flows : h.settledBy = g.settledBy /\ (g = h \/ h.status = "scheduled")
  PROVE  SettledFlowsMatchAPayment'
<1> SUFFICES ASSUME NEW f \in flows', f.status = "settled"
             PROVE  /\ intents'[f.cycle].status = "settled"
                    /\ \E p \in payments' : p.id = f.settledBy /\ p.amount = f.amount
                    /\ \A g \in flows' : g.settledBy = f.settledBy => g = f
  BY DEF SettledFlowsMatchAPayment
<1>1. f \in flows /\ intents'[f.cycle].status = "settled"
  OBVIOUS
<1>2. PICK p \in payments : p.id = f.settledBy /\ p.amount = f.amount
  BY <1>1 DEF SettledFlowsMatchAPayment
<1>3. f.settledBy # NoKey
  BY <1>2, NullAssumption DEF PaymentRow
<1>4. \A h \in flows : h.settledBy = f.settledBy => h = f
  BY <1>1 DEF SettledFlowsMatchAPayment
<1> QED
  BY <1>1, <1>2, <1>3, <1>4

\* What is cancelled of the flows of a cycle differs in its status alone.
LEMMA CancelledFlows ==
  ASSUME flows \subseteq FlowRow, NEW cycle \in Cycles
  PROVE  /\ FlowsCancelled(cycle) \subseteq FlowRow
         /\ \A f \in FlowsCancelled(cycle) : ~ IsScheduled(f, cycle)
         /\ \A c : c # cycle => {f \in FlowsCancelled(cycle) : f.cycle = c} = FlowsOf(c)
         /\ \A f \in FlowsCancelled(cycle) : \E g \in flows :
              /\ g.cycle = f.cycle /\ g.version = f.version /\ g.amount = f.amount /\ f.settledBy = g.settledBy
              /\ f = g \/ (g.status = "scheduled" /\ f.status = "cancelled")
<1> DEFINE Cancelled(f) == [f EXCEPT !.status = "cancelled"]
           Kept(f) == IF IsScheduled(f, cycle) THEN Cancelled(f) ELSE f
<1>1. FlowsCancelled(cycle) = {Kept(f) : f \in flows}
  BY DEF FlowsCancelled
<1>2. ASSUME NEW f \in FlowRow
      PROVE  /\ Cancelled(f) \in FlowRow /\ Cancelled(f).status = "cancelled"
             /\ Cancelled(f).cycle = f.cycle /\ Cancelled(f).version = f.version
             /\ Cancelled(f).amount = f.amount /\ Cancelled(f).settledBy = f.settledBy
  BY DEF FlowRow
<1> HIDE DEF Cancelled
<1>3. ASSUME NEW f \in flows
      PROVE  /\ Kept(f) \in FlowRow /\ ~ IsScheduled(Kept(f), cycle)
             /\ Kept(f).cycle = f.cycle /\ Kept(f).version = f.version
             /\ Kept(f).amount = f.amount /\ Kept(f).settledBy = f.settledBy
             /\ f.cycle # cycle => Kept(f) = f
             /\ Kept(f) = f \/ (f.status = "scheduled" /\ Kept(f).status = "cancelled")
  BY <1>2 DEF IsScheduled
<1> HIDE DEF Kept
<1>4. ASSUME NEW c, c # cycle
      PROVE  {f \in FlowsCancelled(cycle) : f.cycle = c} = FlowsOf(c)
  BY <1>1, <1>3, <1>4 DEF FlowsOf
<1> QED
  BY <1>1, <1>3, <1>4

\* Settling does the same and names the payment; a cycle has one such flow at most.
LEMMA SettledFlows ==
  ASSUME flows \subseteq FlowRow, NEW cycle \in Cycles, NEW transfer \in Transfers,
         NEW flow \in flows, ScheduledFlows(cycle) = {flow}
  PROVE  \E settled \in FlowRow :
           /\ FlowsSettled(cycle, transfer) = (flows \ {flow}) \cup {settled}
           /\ settled.cycle = cycle /\ settled.version = flow.version /\ settled.amount = flow.amount
           /\ settled.status = "settled" /\ settled.settledBy = transfer
<1> DEFINE settled == [flow EXCEPT !.status = "settled", !.settledBy = transfer]
<1>1. \A f \in flows : IsScheduled(f, cycle) <=> f = flow
  BY DEF ScheduledFlows
<1>2. FlowsSettled(cycle, transfer) = (flows \ {flow}) \cup {settled}
  BY <1>1 DEF FlowsSettled
<1>3. flow.cycle = cycle
  BY <1>1 DEF IsScheduled
<1>4. /\ settled \in FlowRow
      /\ settled.cycle = flow.cycle /\ settled.version = flow.version /\ settled.amount = flow.amount
      /\ settled.status = "settled" /\ settled.settledBy = transfer
  BY DEF FlowRow
<1> HIDE DEF settled
<1> QED
  BY <1>2, <1>3, <1>4

\* Steps that touch no plan, flow or settlement leave all that reconciles.
LEMMA MoneyStays ==
  ASSUME MoneyInv, UNCHANGED <<intents, flows, settlements>>, payments \subseteq payments'
  PROVE  /\ flows' \subseteq FlowRow
         /\ FlowsAreLinked'
         /\ SettledFlowsMatchAPayment'
         /\ \A c \in Cycles : PlanReconciles(c)'
<1>1. FlowsAreLinked'
  BY DEF MoneyInv, FlowsAreLinked, HasIntent
<1>2. SettledFlowsMatchAPayment'
  BY DEF MoneyInv, SettledFlowsMatchAPayment
<1>3. \A c \in Cycles : PlanReconciles(c)'
  BY SettledUnchanged, PlanStillReconciles DEF MoneyInv, FlowsOf
<1> QED
  BY <1>1, <1>2, <1>3 DEF MoneyInv, TypeOK

\* A cycle whose plan is given up: what was scheduled of it is cancelled, and
\* what was paid stays.
LEMMA GivenUpPlan ==
  ASSUME IInv, MoneyInv, NEW cycle \in Cycles, HasIntent(cycle), Cancellable(cycle),
         NEW outcome \in {"needs_review", "cancelled"},
         intents'[cycle].status = outcome, intents'[cycle].amount = intents[cycle].amount,
         intents'[cycle].version \in Nat, intents'[cycle].version >= intents[cycle].version,
         \A c \in Cycles : HasIntent(c)' <=> HasIntent(c),
         \A c \in Cycles \ {cycle} : intents'[c] = intents[c],
         flows' = FlowsCancelled(cycle), UNCHANGED settlements, payments \subseteq payments'
  PROVE  /\ flows' \subseteq FlowRow
         /\ FlowsAreLinked'
         /\ SettledFlowsMatchAPayment'
         /\ \A c \in Cycles : PlanReconciles(c)'
<1>1. flows \subseteq FlowRow /\ payments \subseteq PaymentRow
  BY DEF MoneyInv, TypeOK
<1>3. /\ flows' \subseteq FlowRow
      /\ \A f \in flows' : ~ IsScheduled(f, cycle)
      /\ \A c \in Cycles : c # cycle => FlowsOf(c)' = FlowsOf(c)
      /\ \A f \in flows' : \E g \in flows :
           /\ g.cycle = f.cycle /\ g.version = f.version /\ g.amount = f.amount /\ f.settledBy = g.settledBy
           /\ f = g \/ (g.status = "scheduled" /\ f.status = "cancelled")
  BY <1>1, CancelledFlows DEF FlowsOf
<1>4. \A f \in flows : f.cycle \in Cycles /\ f.version \in Nat
  BY <1>1, DateAssumption DEF FlowRow
<1>5. FlowsAreLinked'
  BY <1>3, <1>4 DEF MoneyInv, FlowsAreLinked
<1>6. SettledFlowsMatchAPayment'
  <2>1. ASSUME NEW f \in flows', f.status = "settled"
        PROVE  f \in flows /\ intents'[f.cycle].status = "settled"
    <3>1. f \in flows
      BY <1>3, <2>1
    <3>2. intents[f.cycle].status = "settled"
      BY <2>1, <3>1 DEF MoneyInv, SettledFlowsMatchAPayment
    <3>3. f.cycle # cycle
      BY <3>2 DEF Cancellable
    <3> QED
      BY <1>4, <3>1, <3>2, <3>3
  <2> QED
    BY <1>1, <1>3, <2>1, FlowsStayMatched DEF MoneyInv
<1>7. ASSUME NEW c \in Cycles
      PROVE  PlanReconciles(c)'
  <2>1. SettledAmount(c)' = SettledAmount(c)
    BY SettledUnchanged
  <2>2. CASE c # cycle
    BY <1>3, <2>1, <2>2, PlanStillReconciles DEF MoneyInv
  <2>3. CASE c = cycle
    <3>1. SettledAmount(cycle) \in Nat /\ intents[cycle].amount \in Nat /\ intents[cycle].version \in Nat
      BY SettledIsNatural, PlansAreRows DEF MoneyInv, TypeOK
    <3>2. /\ SettledAmount(cycle) <= intents[cycle].amount
          /\ SettledAmount(cycle) # intents[cycle].amount
      BY DEF MoneyInv, PlanReconciles, LifecycleConsistent, Cancellable
    <3>3. ScheduledFlows(cycle)' = {}
      BY <1>3 DEF ScheduledFlows, IsScheduled
    <3>4. LifecycleConsistent(cycle)'
      BY <2>1, <2>3, <3>1, <3>2, <3>3 DEF LifecycleConsistent
    <3>5. \A f \in flows : f.cycle = cycle => f.version <= intents[cycle].version
      BY DEF MoneyInv, PlanReconciles, FlowIdsAreFree
    <3>6. \A f \in flows' : f.cycle = cycle => f.version <= intents'[cycle].version
      BY <1>3, <1>4, <3>1, <3>5
    <3>7. FlowIdsAreFree(cycle)'
      BY <3>6 DEF FlowIdsAreFree
    <3> QED
      BY <2>1, <2>3, <3>1, <3>2, <3>4, <3>7 DEF PlanReconciles
  <2> QED
    BY <2>2, <2>3
<1> QED
  BY <1>3, <1>5, <1>6, <1>7

LEMMA RegisterPreservesMoney ==
  ASSUME IInv, MoneyInv, NEW key \in Keys, NEW cycle \in Cycles, NEW authority \in {"estimated", "issued"},
         NEW balance \in Balances, NEW due \in Dates,
         RegisterStatement(key, cycle, authority, balance, due)
  PROVE  MoneyInv'
<1>1. /\ UNCHANGED <<cardStatus, payments, settlements>>
      /\ mutations' = mutations \cup {<<"register_credit_card_statement", key>>}
  BY DEF RegisterStatement
<1>2. IInv'
  BY RegisterPreservesIInv
<1>3. /\ flows' \subseteq FlowRow
      /\ FlowsAreLinked'
      /\ SettledFlowsMatchAPayment'
      /\ \A c \in Cycles : PlanReconciles(c)'
  <2>1. CASE UNCHANGED <<intents, flows>>
    BY <1>1, <2>1, MoneyStays
  <2>2. CASE /\ HasIntent(cycle) /\ intents[cycle].status = "active"
             /\ intents' = [intents EXCEPT ![cycle].status = "needs_review"]
             /\ flows' = FlowsCancelled(cycle)
    <3> DEFINE row == [intents[cycle] EXCEPT !.status = "needs_review"]
    <3>1. /\ row \in IntentRow /\ row.status = "needs_review"
          /\ row.amount = intents[cycle].amount /\ row.version = intents[cycle].version /\ row.version \in Nat
      BY <2>2, PlansAreRows DEF IntentRow
    <3>2. row # NoIntent
      BY <3>1, IntentAssumption
    <3>3. intents' = [intents EXCEPT ![cycle] = row] /\ intents \in [Cycles -> IntentRow \cup {NoIntent}]
      BY <2>2 DEF IInv, RowTypes
    <3> HIDE DEF row
    <3>4. /\ intents'[cycle] = row
          /\ \A c \in Cycles \ {cycle} : intents'[c] = intents[c]
          /\ \A c \in Cycles : HasIntent(c)' <=> HasIntent(c)
      BY <2>2, <3>2, <3>3 DEF HasIntent
    <3>5. Cancellable(cycle)
      BY <2>2 DEF Cancellable
    <3> QED
      BY <1>1, <2>2, <3>1, <3>4, <3>5, GivenUpPlan
  <2> QED
    BY <2>1, <2>2 DEF RegisterStatement, Outgrown
<1>4. TypeOK'
  BY <1>1, <1>2, <1>3 DEF IInv, RowTypes, MoneyInv, TypeOK, Operations
<1> QED
  BY <1>1, <1>3, <1>4 DEF MoneyInv

LEMMA CancelPreservesMoney ==
  ASSUME IInv, MoneyInv, NEW cycle \in Cycles, CancelIntent(cycle)
  PROVE  MoneyInv'
<1>1. /\ HasIntent(cycle) /\ Cancellable(cycle)
      /\ intents' = [intents EXCEPT ![cycle].status = "cancelled", ![cycle].version = @ + 1]
      /\ flows' = FlowsCancelled(cycle)
      /\ UNCHANGED <<cardStatus, payments, statements, settlements, mutations>>
  BY DEF CancelIntent
<1>2. IInv'
  BY CancelPreservesIInv
<1>3. /\ \A c \in Cycles : HasIntent(c)' <=> HasIntent(c)
      /\ intents'[cycle].status = "cancelled"
      /\ intents'[cycle].amount = intents[cycle].amount
      /\ intents'[cycle].version = intents[cycle].version + 1
      /\ \A c \in Cycles \ {cycle} : intents'[c] = intents[c]
  BY <1>1, EndedPlan
<1>4. intents'[cycle].version \in Nat /\ intents'[cycle].version >= intents[cycle].version
  BY <1>1, <1>3, PlansAreRows
<1>5. /\ flows' \subseteq FlowRow
      /\ FlowsAreLinked'
      /\ SettledFlowsMatchAPayment'
      /\ \A c \in Cycles : PlanReconciles(c)'
  BY <1>1, <1>3, <1>4, GivenUpPlan
<1>6. TypeOK'
  BY <1>1, <1>2, <1>5 DEF IInv, RowTypes, MoneyInv, TypeOK
<1> QED
  BY <1>1, <1>5, <1>6 DEF MoneyInv

\* A new plan takes the place of the old one with a flow of its own.
LEMMA ReplacePreservesMoney ==
  ASSUME IInv, MoneyInv, NEW cycle \in Cycles, NEW amount \in Amounts, NEW planned \in Dates,
         ReplaceIntent(cycle, amount, planned)
  PROVE  MoneyInv'
<1>0. PICK version : version = NextVersion(cycle)
  OBVIOUS
<1> DEFINE plan == [amount |-> amount, planned |-> planned, version |-> version, status |-> "active"]
           flow == Flow(cycle, version, amount, planned)
<1>1. /\ intents' = [intents EXCEPT ![cycle] = plan]
      /\ flows' = FlowsCancelled(cycle) \cup {flow}
      /\ UNCHANGED <<cardStatus, payments, statements, settlements, mutations>>
      /\ LifecycleConsistent(cycle)'
  BY <1>0 DEF ReplaceIntent
<1>2. flows \subseteq FlowRow /\ payments \subseteq PaymentRow /\ settlements \subseteq SettlementRow
  BY DEF MoneyInv, TypeOK
<1>3. amount \in Nat /\ amount > 0
  BY MoneyAssumption
<1>4. version \in 1..MaxVersion /\ (HasIntent(cycle) => version = intents[cycle].version + 1)
  <2>1. HasIntent(cycle) => intents[cycle].version < MaxVersion /\ intents[cycle].version \in 1..MaxVersion + 1
    BY PlansAreRows DEF ReplaceIntent, IntentRow
  <2> QED
    BY <1>0, <2>1, DateAssumption DEF NextVersion
<1>5. /\ flow \in FlowRow /\ flow.cycle = cycle /\ flow.version = version /\ flow.amount = amount
      /\ flow.status = "scheduled" /\ flow.settledBy = NoKey
  BY <1>3, <1>4 DEF Flow, FlowRow
<1>6. plan.status = "active" /\ plan.amount = amount /\ plan.version = version /\ plan \in IntentRow
  BY <1>4, DateAssumption DEF IntentRow
<1>7. plan # NoIntent
  BY <1>6, IntentAssumption
<1> HIDE DEF plan, flow
<1>8. /\ intents'[cycle] = plan
      /\ \A c \in Cycles \ {cycle} : intents'[c] = intents[c]
      /\ \A c \in Cycles : HasIntent(c) => HasIntent(c)'
  BY <1>1, <1>7 DEF IInv, RowTypes, HasIntent
<1> DEFINE Left == FlowsCancelled(cycle)
<1>9. /\ Left \subseteq FlowRow
      /\ \A f \in Left : ~ IsScheduled(f, cycle)
      /\ \A c \in Cycles : c # cycle => {f \in Left : f.cycle = c} = FlowsOf(c)
      /\ \A f \in Left : \E g \in flows :
           /\ g.cycle = f.cycle /\ g.version = f.version /\ g.amount = f.amount /\ f.settledBy = g.settledBy
           /\ f = g \/ (g.status = "scheduled" /\ f.status = "cancelled")
  BY <1>2, CancelledFlows
<1> HIDE DEF Left
<1>10. flows' = Left \cup {flow}
  BY <1>1 DEF Left
<1>11. \A f \in flows : f.cycle \in Cycles /\ f.version \in Nat
  BY <1>2, DateAssumption DEF FlowRow
<1>12. flows' \subseteq FlowRow
  BY <1>5, <1>9, <1>10
<1>13. FlowsAreLinked'
  <2>1. ASSUME NEW f \in Left
        PROVE  /\ HasIntent(f.cycle)'
               /\ f.settledBy # NoKey => \E s \in settlements' : s.transfer = f.settledBy
    BY <1>1, <1>8, <1>9, <1>11 DEF MoneyInv, FlowsAreLinked
  <2>2. HasIntent(flow.cycle)' /\ flow.settledBy = NoKey
    BY <1>5, <1>7, <1>8 DEF HasIntent
  <2> QED
    BY <1>10, <2>1, <2>2 DEF FlowsAreLinked
<1>14. SettledFlowsMatchAPayment'
  <2>1. ASSUME NEW f \in flows', f.status = "settled"
        PROVE  f \in flows /\ intents'[f.cycle].status = "settled"
    <3>1. f \in flows
      BY <1>5, <1>9, <1>10, <2>1
    <3>2. intents[f.cycle].status = "settled" /\ HasIntent(f.cycle)
      BY <2>1, <3>1 DEF MoneyInv, SettledFlowsMatchAPayment, FlowsAreLinked
    <3>3. f.cycle # cycle
      BY <3>2 DEF ReplaceIntent
    <3> QED
      BY <1>8, <1>11, <3>1, <3>2, <3>3
  <2>2. ASSUME NEW g \in flows'
        PROVE  \/ g.settledBy = NoKey
               \/ \E h \in flows : h.settledBy = g.settledBy /\ (g = h \/ h.status = "scheduled")
    BY <1>5, <1>9, <1>10
  <2> QED
    BY <1>1, <1>2, <2>1, <2>2, FlowsStayMatched DEF MoneyInv
<1>15. ASSUME NEW c \in Cycles
       PROVE  PlanReconciles(c)'
  <2>1. SettledAmount(c)' = SettledAmount(c) /\ SettledAmount(c) \in Nat
    BY <1>1, <1>2, SettledUnchanged, SettledIsNatural DEF MoneyInv
  <2>2. CASE c # cycle
    <3>1. FlowsOf(c)' = FlowsOf(c)
      BY <1>5, <1>9, <1>10, <2>2 DEF FlowsOf
    <3> QED
      BY <1>8, <2>1, <2>2, <3>1, PlanStillReconciles DEF MoneyInv
  <2>3. CASE c = cycle
    <3>1. SettledAmount(cycle)' < amount
      BY <1>1, <1>3, <1>6, <1>8, <2>1, <2>3 DEF LifecycleConsistent
    <3>2. \A f \in Left : f.cycle = cycle => f.version < version
      <4>1. HasIntent(cycle) => \A f \in flows : f.cycle = cycle => f.version <= intents[cycle].version
        BY DEF MoneyInv, PlanReconciles, FlowIdsAreFree
      <4>2. ~ HasIntent(cycle) => \A f \in flows : f.cycle # cycle
        BY DEF MoneyInv, FlowsAreLinked
      <4>3. HasIntent(cycle) => intents[cycle].version \in Nat
        BY PlansAreRows
      <4>4. \A f \in flows : f.cycle = cycle => f.version < version
        BY <1>4, <1>11, <4>1, <4>2, <4>3
      <4> QED
        BY <1>9, <4>4
    <3>3. \A f \in flows' : f.cycle = cycle => f.version <= version
      BY <1>4, <1>5, <1>9, <1>10, <1>11, <3>2
    <3>4. ASSUME NEW left \in 1..Remaining(cycle)' - 1
          PROVE  FlowIdFree(cycle, version, left)'
      <4>1. Remaining(cycle)' = amount - SettledAmount(cycle)'
        BY <1>6, <1>8 DEF Remaining
      <4>2. left # amount
        BY <1>3, <2>1, <2>3, <4>1
      <4>3. \A f \in Left : ~ (f.cycle = cycle /\ f.version = version /\ f.amount = left)
        <5>1. \A f \in Left : f.version \in Nat
          BY <1>9, <1>11
        <5> QED
          BY <1>4, <3>2, <5>1
      <4> QED
        BY <1>5, <1>10, <4>2, <4>3 DEF FlowIdFree
    <3>5. FlowIdsAreFree(cycle)'
      BY <1>6, <1>8, <3>3, <3>4 DEF FlowIdsAreFree
    <3> QED
      BY <1>1, <1>6, <1>8, <2>1, <2>3, <3>1, <3>5 DEF PlanReconciles
  <2> QED
    BY <2>2, <2>3
<1>16. TypeOK'
  <2>1. IInv'
    BY ReplacePreservesIInv
  <2> QED
    BY <1>1, <1>12, <2>1 DEF IInv, RowTypes, MoneyInv, TypeOK
<1> QED
  BY <1>1, <1>13, <1>14, <1>15, <1>16 DEF MoneyInv

\* What an active plan is worth: some of it is left, by one flow of that amount.
LEMMA ActivePlan ==
  ASSUME IInv, MoneyInv, NEW cycle \in Cycles, HasIntent(cycle), intents[cycle].status = "active"
  PROVE  /\ SettledAmount(cycle) \in Nat
         /\ Remaining(cycle) \in Nat \ {0}
         /\ Remaining(cycle) = intents[cycle].amount - SettledAmount(cycle)
         /\ \E f \in flows : ScheduledFlows(cycle) = {f} /\ f.amount = Remaining(cycle)
<1>1. SettledAmount(cycle) \in Nat /\ intents[cycle].amount \in Nat
  BY SettledIsNatural, PlansAreRows DEF MoneyInv, TypeOK
<1>2. LifecycleConsistent(cycle) /\ SettledAmount(cycle) # intents[cycle].amount
  BY DEF MoneyInv, PlanReconciles
<1>3. SettledAmount(cycle) < intents[cycle].amount
  BY <1>1, <1>2 DEF LifecycleConsistent
<1> QED
  BY <1>1, <1>2, <1>3 DEF LifecycleConsistent, Remaining

\* The payment that settles a plan in full takes its flow; what one in part leaves
\* has a flow of its own.
LEMMA SettlePreservesMoney ==
  ASSUME IInv, MoneyInv, NEW key \in Keys, NEW cycle \in Cycles, NEW payment \in payments,
         SettleIntent(key, cycle, payment)
  PROVE  MoneyInv'
<1> DEFINE new == [id |-> key, cycle |-> cycle, transfer |-> payment.id, amount |-> payment.amount]
<1>1. /\ HasIntent(cycle) /\ intents[cycle].status = "active"
      /\ settlements' = settlements \cup {new}
      /\ mutations' = mutations \cup {<<"settle_credit_card_payment_intent", key>>}
      /\ UNCHANGED <<cardStatus, payments, statements>>
      /\ SettleInFull(cycle, payment) \/ SettleInPart(cycle, payment)
      /\ payment.amount <= Remaining(cycle)
  BY DEF SettleIntent, FitsRemaining
<1>2. /\ flows \subseteq FlowRow /\ payments \subseteq PaymentRow /\ settlements \subseteq SettlementRow
      /\ IsFiniteSet(settlements)
  BY DEF MoneyInv, TypeOK
<1>3. payment.id \in Transfers /\ payment.amount \in Nat /\ payment.amount > 0 /\ new \in SettlementRow
  <2>1. payment \in PaymentRow
    BY <1>2
  <2>2. \A a \in Amounts : a \in Nat /\ a > 0
    BY MoneyAssumption
  <2> QED
    BY <2>1, <2>2 DEF PaymentRow, SettlementRow
<1>4. \A s \in settlements : s.transfer # payment.id
  BY DEF SettleIntent, Linked
<1>5. new.cycle = cycle /\ new.amount = payment.amount /\ new \notin settlements
  BY <1>4
<1> HIDE DEF new
<1>6. /\ SettledAmount(cycle)' = SettledAmount(cycle) + payment.amount
      /\ \A c \in Cycles \ {cycle} : SettledAmount(c)' = SettledAmount(c)
  BY <1>1, <1>2, <1>3, <1>5, SettledGrows
<1>7. PICK flow \in flows : ScheduledFlows(cycle) = {flow} /\ flow.amount = Remaining(cycle)
  BY <1>1, ActivePlan
<1>8. /\ SettledAmount(cycle) \in Nat /\ Remaining(cycle) \in Nat \ {0}
      /\ Remaining(cycle) = intents[cycle].amount - SettledAmount(cycle)
      /\ intents[cycle].amount \in Nat /\ intents[cycle].version \in Nat
  BY <1>1, ActivePlan, PlansAreRows
<1>9. IsFiniteSet(settlements')
  BY <1>1, <1>2, FS_AddElement
<1>10. \A f \in flows : f.cycle \in Cycles /\ f.version \in Nat
  BY <1>2, DateAssumption DEF FlowRow
<1>11. \A f \in flows : f.settledBy # payment.id
  <2>1. payment.id # NoKey
    BY <1>3, NullAssumption
  <2> QED
    BY <1>4, <2>1 DEF MoneyInv, FlowsAreLinked
<1>12. flow.cycle = cycle /\ flow.status = "scheduled"
  BY <1>7 DEF ScheduledFlows, IsScheduled
<1>13. \A f \in flows : f.cycle = cycle => f.version <= intents[cycle].version /\ f.status # "settled"
  BY <1>1 DEF MoneyInv, PlanReconciles, FlowIdsAreFree, SettledFlowsMatchAPayment
<1>14. ASSUME SettleInFull(cycle, payment)
       PROVE  /\ flows' \subseteq FlowRow
              /\ FlowsAreLinked'
              /\ SettledFlowsMatchAPayment'
              /\ \A c \in Cycles : PlanReconciles(c)'
  <2>1. /\ intents' = [intents EXCEPT ![cycle].status = "settled", ![cycle].version = @ + 1]
        /\ payment.amount = Remaining(cycle)
        /\ flows' = FlowsSettled(cycle, payment.id)
    BY <1>14 DEF SettleInFull
  <2>2. /\ \A c \in Cycles : HasIntent(c)' <=> HasIntent(c)
        /\ intents'[cycle].status = "settled"
        /\ intents'[cycle].amount = intents[cycle].amount
        /\ intents'[cycle].version = intents[cycle].version + 1
        /\ \A c \in Cycles \ {cycle} : intents'[c] = intents[c]
    BY <1>1, <2>1, EndedPlan DEF Cancellable
  <2>3. PICK settled \in FlowRow :
          /\ flows' = (flows \ {flow}) \cup {settled}
          /\ settled.cycle = cycle /\ settled.version = flow.version /\ settled.amount = flow.amount
          /\ settled.status = "settled" /\ settled.settledBy = payment.id
    BY <1>2, <1>3, <1>7, <2>1, SettledFlows
  <2>4. \A c \in Cycles \ {cycle} : FlowsOf(c)' = FlowsOf(c)
    BY <1>12, <2>3 DEF FlowsOf
  <2>5. ScheduledFlows(cycle)' = {}
    BY <1>7, <2>3 DEF ScheduledFlows, IsScheduled
  <2>6. FlowsAreLinked'
    <3>1. new \in settlements' /\ new.transfer = payment.id
      BY <1>1 DEF new
    <3> QED
      BY <1>1, <1>10, <2>2, <2>3, <3>1 DEF MoneyInv, FlowsAreLinked
  <2>7. SettledFlowsMatchAPayment'
    <3>1. ASSUME NEW f \in flows', f.status = "settled"
          PROVE  intents'[f.cycle].status = "settled"
      BY <1>10, <1>13, <2>2, <2>3, <3>1 DEF MoneyInv, SettledFlowsMatchAPayment
    <3>2. ASSUME NEW f \in flows', f.status = "settled"
          PROVE  \E p \in payments' : p.id = f.settledBy /\ p.amount = f.amount
      BY <1>1, <1>7, <2>1, <2>3, <3>2 DEF MoneyInv, SettledFlowsMatchAPayment
    <3>3. ASSUME NEW f \in flows', f.status = "settled", NEW g \in flows', g.settledBy = f.settledBy
          PROVE  g = f
      BY <1>11, <2>3, <3>3 DEF MoneyInv, SettledFlowsMatchAPayment
    <3> QED
      BY <3>1, <3>2, <3>3 DEF SettledFlowsMatchAPayment
  <2>8. ASSUME NEW c \in Cycles
        PROVE  PlanReconciles(c)'
    <3>1. CASE c # cycle
      BY <1>6, <2>2, <2>4, <3>1, PlanStillReconciles DEF MoneyInv
    <3>2. CASE c = cycle
      <4>1. SettledAmount(cycle)' = intents'[cycle].amount
        BY <1>6, <1>8, <2>1, <2>2
      <4>2. LifecycleConsistent(cycle)'
        BY <1>8, <2>2, <2>5, <4>1 DEF LifecycleConsistent
      <4>3. \A f \in flows' : f.cycle = cycle => f.version <= intents'[cycle].version
        BY <1>8, <1>10, <1>12, <1>13, <2>2, <2>3
      <4>4. FlowIdsAreFree(cycle)'
        BY <2>2, <4>3 DEF FlowIdsAreFree
      <4> QED
        BY <2>2, <3>2, <4>1, <4>2, <4>4 DEF PlanReconciles
    <3> QED
      BY <3>1, <3>2
  <2> QED
    BY <2>3, <2>6, <2>7, <2>8, <1>2
<1>15. ASSUME SettleInPart(cycle, payment)
       PROVE  /\ flows' \subseteq FlowRow
              /\ FlowsAreLinked'
              /\ SettledFlowsMatchAPayment'
              /\ \A c \in Cycles : PlanReconciles(c)'
  <2>1. PICK left : left = Remaining(cycle) - payment.amount
    OBVIOUS
  <2>2. PICK version : version = intents[cycle].version
    OBVIOUS
  <2> DEFINE part == Flow(cycle, version, left, intents[cycle].planned)
  <2>3. PICK added : added = part
    OBVIOUS
  <2>4. /\ left # 0 /\ FlowIdFree(cycle, version, left)
        /\ flows' = FlowsCancelled(cycle) \cup {added}
        /\ UNCHANGED intents
    BY <1>15, <2>1, <2>2, <2>3 DEF SettleInPart
  <2>5. left \in 1..Remaining(cycle) - 1
    BY <1>1, <1>3, <1>8, <2>1, <2>4
  <2>6. /\ added \in FlowRow /\ added.cycle = cycle /\ added.version = version /\ added.amount = left
        /\ added.status = "scheduled" /\ added.settledBy = NoKey /\ added.date = intents[cycle].planned
    <3>1. version \in 1..MaxVersion /\ intents[cycle].planned \in Dates
      BY <1>1, <2>2, PlansAreRows, DateAssumption DEF IInv, OpenPlansMayChange, Cancellable, IntentRow
    <3>2. left \in Nat \ {0}
      BY <1>8, <2>5
    <3> QED
      BY <2>3, <3>1, <3>2 DEF Flow, FlowRow
  <2> HIDE DEF part
  <2> DEFINE Left == FlowsCancelled(cycle)
  <2>7. /\ Left \subseteq FlowRow
        /\ \A f \in Left : ~ IsScheduled(f, cycle)
        /\ \A c \in Cycles : c # cycle => {f \in Left : f.cycle = c} = FlowsOf(c)
        /\ \A f \in Left : \E g \in flows :
             /\ g.cycle = f.cycle /\ g.version = f.version /\ g.amount = f.amount /\ f.settledBy = g.settledBy
             /\ f = g \/ (g.status = "scheduled" /\ f.status = "cancelled")
    BY <1>2, CancelledFlows
  <2>8. flows' = Left \cup {added}
    BY <2>4
  <2> HIDE DEF Left
  <2>9. flows' \subseteq FlowRow
    BY <2>6, <2>7, <2>8
  <2>10. FlowsAreLinked'
    <3>1. settlements \subseteq settlements'
      BY <1>1
    <3>2. \A c : HasIntent(c)' <=> HasIntent(c)
      BY <2>4 DEF HasIntent
    <3> QED
      BY <1>1, <2>6, <2>7, <2>8, <3>1, <3>2 DEF MoneyInv, FlowsAreLinked
  <2>11. SettledFlowsMatchAPayment'
    <3>1. ASSUME NEW f \in flows', f.status = "settled"
          PROVE  f \in flows /\ intents'[f.cycle].status = "settled"
      BY <2>4, <2>6, <2>7, <2>8, <3>1 DEF MoneyInv, SettledFlowsMatchAPayment
    <3>2. ASSUME NEW g \in flows'
          PROVE  \/ g.settledBy = NoKey
                 \/ \E h \in flows : h.settledBy = g.settledBy /\ (g = h \/ h.status = "scheduled")
      BY <2>6, <2>7, <2>8
    <3> QED
      BY <1>1, <1>2, <3>1, <3>2, FlowsStayMatched DEF MoneyInv
  <2>12. ASSUME NEW c \in Cycles
         PROVE  PlanReconciles(c)'
    <3>1. CASE c # cycle
      <4>1. FlowsOf(c)' = FlowsOf(c)
        BY <2>6, <2>7, <2>8, <3>1 DEF FlowsOf
      <4> QED
        BY <1>6, <2>4, <3>1, <4>1, PlanStillReconciles DEF MoneyInv
    <3>2. CASE c = cycle
      <4>1. Remaining(cycle)' = left /\ SettledAmount(cycle)' < intents[cycle].amount
        BY <1>3, <1>6, <1>8, <2>1, <2>4, <2>5 DEF Remaining
      <4>2. ScheduledFlows(cycle)' = {added}
        BY <2>6, <2>7, <2>8 DEF ScheduledFlows, IsScheduled
      <4>3. /\ SettledAmount(cycle)' \in Nat
            /\ added.amount = intents[cycle].amount - SettledAmount(cycle)'
        BY <1>3, <1>6, <1>8, <2>1, <2>6
      <4>4. LifecycleConsistent(cycle)'
        BY <1>1, <1>8, <2>4, <2>6, <2>8, <4>1, <4>2, <4>3 DEF LifecycleConsistent
      <4>5. \A f \in flows' : f.cycle = cycle => f.version <= version
        BY <1>8, <1>13, <2>2, <2>6, <2>7, <2>8
      <4>6. ASSUME NEW less \in 1..left - 1
            PROVE  FlowIdFree(cycle, version, less)'
        <5>1. less \in 1..Remaining(cycle) - 1 /\ less # left
          BY <1>8, <2>5, <4>6
        <5>2. FlowIdFree(cycle, version, less)
          BY <1>1, <2>2, <5>1 DEF MoneyInv, PlanReconciles, FlowIdsAreFree
        <5> QED
          BY <2>6, <2>7, <2>8, <5>1, <5>2 DEF FlowIdFree
      <4>7. FlowIdsAreFree(cycle)'
        BY <2>2, <2>4, <4>1, <4>5, <4>6 DEF FlowIdsAreFree
      <4> QED
        BY <1>1, <1>8, <2>4, <3>2, <4>1, <4>3, <4>4, <4>7 DEF PlanReconciles
    <3> QED
      BY <3>1, <3>2
  <2> QED
    BY <2>9, <2>10, <2>11, <2>12
<1>16. /\ flows' \subseteq FlowRow
       /\ FlowsAreLinked'
       /\ SettledFlowsMatchAPayment'
       /\ \A c \in Cycles : PlanReconciles(c)'
  BY <1>1, <1>14, <1>15
<1>17. TypeOK'
  <2>1. IInv'
    BY SettlePreservesIInv
  <2> QED
    BY <1>1, <1>16, <2>1 DEF IInv, RowTypes, MoneyInv, TypeOK, Operations
<1> QED
  BY <1>9, <1>16, <1>17 DEF MoneyInv

LEMMA InitMoneyInv == Init => MoneyInv
<1> SUFFICES ASSUME Init PROVE MoneyInv
  OBVIOUS
<1>1. \A c \in Cycles : ~ HasIntent(c)
  BY DEF Init, HasIntent
<1>2. TypeOK /\ FlowsAreLinked /\ SettledFlowsMatchAPayment
  BY DEF Init, TypeOK, FlowsAreLinked, SettledFlowsMatchAPayment
<1>3. IsFiniteSet(settlements)
  BY FS_EmptySet DEF Init
<1> QED
  BY <1>1, <1>2, <1>3 DEF MoneyInv, PlanReconciles

LEMMA NextPreservesMoneyInv == IInv /\ MoneyInv /\ [Next]_vars => MoneyInv'
<1> SUFFICES ASSUME IInv, MoneyInv, [Next]_vars PROVE MoneyInv'
  OBVIOUS
<1>1. ASSUME UNCHANGED <<intents, flows, settlements>>, payments \subseteq payments', TypeOK'
      PROVE  MoneyInv'
  BY <1>1, MoneyStays DEF MoneyInv
<1>2. CASE UNCHANGED vars
  BY <1>1, <1>2 DEF MoneyInv, TypeOK, vars
<1>3. ASSUME NEW transfer \in Transfers, NEW card \in Cards, NEW amount \in Amounts,
             PostTransfer(transfer, card, amount)
      PROVE  MoneyInv'
  BY <1>1, <1>3 DEF PostTransfer, PaymentRow, MoneyInv, TypeOK
<1>4. ASSUME NEW card \in Cards, ArchiveAccount(card)
      PROVE  MoneyInv'
  BY <1>1, <1>4 DEF ArchiveAccount, MoneyInv, TypeOK
<1>5. CASE \E key \in Keys, cycle \in Cycles, authority \in {"estimated", "issued"}, balance \in Balances,
              due \in Dates : RegisterStatement(key, cycle, authority, balance, due)
  BY <1>5, RegisterPreservesMoney
<1>6. CASE \E cycle \in Cycles, amount \in Amounts, planned \in Dates : ReplaceIntent(cycle, amount, planned)
  BY <1>6, ReplacePreservesMoney
<1>7. CASE \E cycle \in Cycles : CancelIntent(cycle)
  BY <1>7, CancelPreservesMoney
<1>8. CASE \E key \in Keys, cycle \in Cycles, payment \in payments : SettleIntent(key, cycle, payment)
  BY <1>8, SettlePreservesMoney
<1> QED
  BY <1>2, <1>3, <1>4, <1>5, <1>6, <1>7, <1>8 DEF Next

LEMMA SpecKeepsInvariants == Spec => [](IInv /\ MoneyInv)
BY InitIInv, NextPreservesIInv, InitMoneyInv, NextPreservesMoneyInv, PTL DEF Spec

\* Every row the tables can come to hold has its columns' types: no version
\* passes its bound and no flow is of an amount that is not positive
\* (migrations 0004, 0008, 0013).
THEOREM CardTypes == Spec => []TypeOK
<1>1. MoneyInv => TypeOK
  BY DEF MoneyInv
<1> QED
  BY <1>1, SpecKeepsInvariants, PTL

\* What is paid is posted and counted once, and the cash still planned plus the
\* cash paid is the plan, after any sequence of plans, corrections,
\* cancellations and payments: the deferred trigger of migration 0015 never has
\* to refuse what RegisterStatement, CancelIntent or SettleIntent wrote.
THEOREM CardPlansReconcile == Spec => []PlansReconcileWithPayments
<1>1. IInv /\ MoneyInv => PlansReconcileWithPayments
  BY DEF IInv, MoneyInv, PlanReconciles, PlansReconcileWithPayments
<1> QED
  BY <1>1, SpecKeepsInvariants, PTL

\* A plan that was paid in part is not replaced: the flow of a new plan would be
\* of its whole amount, which the deferred trigger of migration 0015 refuses.
LEMMA PaidPlansStayFixed == IInv /\ MoneyInv /\ [Next]_vars => [PaidPlansAreFixed]_vars
<1> SUFFICES ASSUME IInv, MoneyInv, [Next]_vars PROVE [PaidPlansAreFixed]_vars
  OBVIOUS
<1> DEFINE Fixed(c) ==
             /\ intents'[c].amount = intents[c].amount
             /\ intents'[c].planned = intents[c].planned
             /\ intents[c].status = "needs_review" => intents'[c].status \in {"needs_review", "cancelled"}
<1>1. intents \in [Cycles -> IntentRow \cup {NoIntent}]
  BY DEF IInv, RowTypes
<1>2. ASSUME NEW c \in Cycles, intents'[c] = intents[c]
      PROVE  Fixed(c)
  BY <1>2
<1> HIDE DEF Fixed
<1>3. ASSUME \A c \in Cycles : SettlementsOf(c) # {} => Fixed(c)
      PROVE  [PaidPlansAreFixed]_vars
  BY <1>3 DEF PaidPlansAreFixed, Fixed
<1>4. CASE UNCHANGED intents
  BY <1>2, <1>3, <1>4
<1>5. ASSUME NEW cycle \in Cycles, HasIntent(cycle), NEW row \in IntentRow,
             intents' = [intents EXCEPT ![cycle] = row],
             row.amount = intents[cycle].amount, row.planned = intents[cycle].planned,
             intents[cycle].status = "needs_review" => row.status \in {"needs_review", "cancelled"}
      PROVE  [PaidPlansAreFixed]_vars
  BY <1>1, <1>2, <1>3, <1>5 DEF Fixed
<1>6. ASSUME NEW key \in Keys, NEW cycle \in Cycles, NEW authority, NEW balance, NEW due,
             RegisterStatement(key, cycle, authority, balance, due), ~ UNCHANGED intents
      PROVE  [PaidPlansAreFixed]_vars
  <2> DEFINE row == [intents[cycle] EXCEPT !.status = "needs_review"]
  <2>1. HasIntent(cycle) /\ intents' = [intents EXCEPT ![cycle] = row]
    BY <1>6 DEF RegisterStatement, Outgrown
  <2>2. /\ row \in IntentRow /\ row.amount = intents[cycle].amount /\ row.planned = intents[cycle].planned
        /\ row.status = "needs_review"
    BY <2>1, PlansAreRows DEF IntentRow
  <2> HIDE DEF row
  <2> QED
    BY <1>5, <2>1, <2>2
<1>7. ASSUME NEW cycle \in Cycles, NEW amount \in Amounts, NEW planned \in Dates,
             ReplaceIntent(cycle, amount, planned)
      PROVE  [PaidPlansAreFixed]_vars
  <2>1. PICK version : version = NextVersion(cycle)
    OBVIOUS
  <2> DEFINE plan == [amount |-> amount, planned |-> planned, version |-> version, status |-> "active"]
             flow == Flow(cycle, version, amount, planned)
  <2>2. /\ intents' = [intents EXCEPT ![cycle] = plan] /\ flow \in flows'
        /\ LifecycleConsistent(cycle)' /\ UNCHANGED settlements
    BY <1>7, <2>1 DEF ReplaceIntent
  <2>3. intents'[cycle] = plan /\ plan.amount = amount /\ plan.status = "active"
    BY <1>1, <2>2
  <2>4. flow.amount = amount /\ IsScheduled(flow, cycle)
    BY DEF Flow, IsScheduled
  <2> HIDE DEF plan, flow
  <2>5. SettledAmount(cycle)' = SettledAmount(cycle) /\ SettledAmount(cycle) \in Nat /\ amount \in Nat
    BY <2>2, SettledUnchanged, SettledIsNatural, MoneyAssumption DEF MoneyInv, TypeOK
  <2>6. SettledAmount(cycle)' < amount
    BY <2>2, <2>3, <2>5 DEF LifecycleConsistent
  <2>7. PICK f \in flows' : ScheduledFlows(cycle)' = {f} /\ f.amount = amount - SettledAmount(cycle)'
    BY <2>2, <2>3, <2>6 DEF LifecycleConsistent
  <2>8. f = flow
    BY <2>2, <2>4, <2>7 DEF ScheduledFlows
  <2>9. SettlementsOf(cycle) = {}
    <3>1. SettledAmount(cycle) = 0
      BY <2>4, <2>5, <2>7, <2>8
    <3> QED
      BY <3>1, SettledIsNatural DEF MoneyInv, TypeOK
  <2>10. \A c \in Cycles \ {cycle} : intents'[c] = intents[c]
    BY <1>1, <2>2
  <2> QED
    BY <1>2, <1>3, <2>9, <2>10
<1>8. ASSUME NEW cycle \in Cycles, HasIntent(cycle), NEW outcome \in {"cancelled", "settled"},
             intents[cycle].status = "active" \/ outcome = "cancelled", Cancellable(cycle),
             intents' = [intents EXCEPT ![cycle].status = outcome, ![cycle].version = @ + 1]
      PROVE  [PaidPlansAreFixed]_vars
  <2>1. /\ intents'[cycle].status = outcome
        /\ intents'[cycle].amount = intents[cycle].amount
        /\ intents'[cycle].planned = intents[cycle].planned
        /\ \A c \in Cycles \ {cycle} : intents'[c] = intents[c]
    BY <1>8, EndedPlan
  <2>2. Fixed(cycle)
    BY <1>8, <2>1 DEF Fixed
  <2> QED
    BY <1>2, <1>3, <2>1, <2>2
<1>9. ASSUME NEW cycle \in Cycles, CancelIntent(cycle)
      PROVE  [PaidPlansAreFixed]_vars
  BY <1>8, <1>9 DEF CancelIntent
<1>10. ASSUME NEW key \in Keys, NEW cycle \in Cycles, NEW payment \in payments,
              SettleIntent(key, cycle, payment), ~ UNCHANGED intents
       PROVE  [PaidPlansAreFixed]_vars
  BY <1>8, <1>10 DEF SettleIntent, SettleInFull, SettleInPart, Cancellable
<1> QED
  BY <1>4, <1>6, <1>7, <1>9, <1>10 DEF Next, vars, PostTransfer, ArchiveAccount

\* No order of corrections, plans, payments and cancellations revives what has
\* ended, rewrites a row, or changes a plan behind a payment made for it (the
\* status conditions of RegisterStatement, ReplaceIntent, CancelIntent and
\* SettleIntent of card_repository.go with the trigger of migration 0015).
THEOREM CardHistoryIsKept == Spec => HistoryIsKept
<1>1. IInv /\ MoneyInv /\ [Next]_vars => [OutcomesAreFinal /\ PaidPlansAreFixed]_vars
  BY OutcomesStayFinal, PaidPlansStayFixed
<1> QED
  BY <1>1, SpecKeepsInvariants, PTL DEF Spec, HistoryIsKept

-----------------------------------------------------------------------------
(* What a projection makes of it *)

\* A plan is active and has one flow, of what is left and on its date, or it has none.
LEMMA FlowsOfAPlan ==
  ASSUME IInv, MoneyInv, NEW c \in Cycles
  PROVE  \/ /\ HasIntent(c) /\ intents[c].status = "active"
            /\ \E f \in flows : /\ ScheduledFlows(c) = {f}
                               /\ f.date = intents[c].planned /\ f.amount = Remaining(c)
         \/ /\ ~ (HasIntent(c) /\ intents[c].status = "active")
            /\ ScheduledFlows(c) = {}
<1>1. CASE ~ HasIntent(c)
  BY <1>1 DEF MoneyInv, FlowsAreLinked, ScheduledFlows, IsScheduled
<1>2. CASE HasIntent(c)
  <2>1. SettledAmount(c) \in Nat /\ intents[c].amount \in Nat
    BY <1>2, SettledIsNatural, PlansAreRows DEF MoneyInv, TypeOK
  <2>2. LifecycleConsistent(c) /\ (intents[c].status = "settled" <=> SettledAmount(c) = intents[c].amount)
    BY <1>2 DEF MoneyInv, PlanReconciles
  <2>3. CASE intents[c].status = "active"
    BY <1>2, <2>1, <2>2, <2>3 DEF LifecycleConsistent, Remaining
  <2>4. CASE intents[c].status # "active"
    BY <1>2, <2>1, <2>2, <2>4 DEF LifecycleConsistent
  <2> QED
    BY <2>3, <2>4
<1> QED
  BY <1>1, <1>2

\* An active plan is for a statement that is owed and not due before it.
LEMMA StatementOfAPlan ==
  ASSUME IInv, NEW c \in Cycles, HasIntent(c), intents[c].status = "active"
  PROVE  \E s : /\ ActiveStatements(c) = {s}
               /\ s.balance \in Nat /\ s.balance > 0 /\ s.due \in Nat
               /\ intents[c].planned \in Nat /\ intents[c].planned <= s.due
<1>1. PICK s \in ActiveStatements(c) : intents[c].amount <= s.balance /\ intents[c].planned <= s.due
  BY DEF IInv, PlanFits, Plannable
<1>2. s \in statements /\ s.cycle = c
  BY DEF ActiveStatements
<1>3. ActiveStatements(c) = {s}
  BY <1>2 DEF IInv, StatementInv, LatestIsInForce
<1>4. s.balance \in Nat /\ s.due \in Nat
  BY <1>2, MoneyAssumption, DateAssumption DEF IInv, RowTypes, StatementRow
<1>5. intents[c].amount \in Nat /\ intents[c].amount > 0 /\ intents[c].planned \in Nat
  <2>1. \A a \in Amounts : a > 0
    BY MoneyAssumption
  <2> QED
    BY <2>1, PlansAreRows DEF IntentRow
<1> QED
  BY <1>1, <1>3, <1>4, <1>5

\* No card payment that falls in the horizon is overlooked, and none is counted
\* twice, whatever became of statements, plans and payments before
\* (loadCardPaymentIssues of projection_repository.go).
THEOREM CardPaymentsAreNotOverlooked == Spec => []NoCardPaymentIsOverlooked
<1>1. IInv /\ MoneyInv => NoCardPaymentIsOverlooked
  <2> SUFFICES ASSUME IInv, MoneyInv, NEW h \in Horizons, NEW c \in Cycles,
                      NEW issue, issue = PaymentIssue(c, h[1], h[2]),
                      NEW counted, counted = CountedFlows(c, h[1], h[2])
               PROVE  /\ issue # "invalid_card_payment_flow"
                      /\ issue # "none" => counted = {}
                      /\ issue = "none" /\ (\E s \in ActiveStatements(c) : s.balance > 0 /\ s.due <= h[2]) =>
                           \/ IsSettled(c) /\ counted = {}
                           \/ \E f \in counted : counted = {f} /\ f.amount = Remaining(c)
                      /\ (\E f \in ScheduledFlows(c) : f.date <= h[1]) => issue # "none"
    BY DEF NoCardPaymentIsOverlooked
  <2>1. PICK asOf \in Nat, end \in Nat : asOf = h[1] /\ end = h[2] /\ asOf < end
    BY HorizonAssumption
  <2>2. counted = {f \in ScheduledFlows(c) : asOf < f.date /\ f.date <= end}
    BY <2>1 DEF CountedFlows
  <2>3. issue = IF IsConsidered(c, asOf, end) THEN ConsideredIssue(c, asOf, end) ELSE "none"
    BY <2>1 DEF PaymentIssue
  <2>4. CASE ~ (HasIntent(c) /\ intents[c].status = "active")
    <3>1. ScheduledFlows(c) = {} /\ counted = {}
      BY <2>2, <2>4, FlowsOfAPlan
    <3>2. /\ ConsideredIssue(c, asOf, end) # "invalid_card_payment_flow"
          /\ ConsideredIssue(c, asOf, end) = "none" => IsSettled(c)
      <4>1. HasIntent(c) => intents[c].status \in {"needs_review", "cancelled", "settled"}
        BY <2>4, PlansAreRows DEF IntentRow
      <4> QED
        BY <4>1 DEF ConsideredIssue, IsSettled
    <3>3. (\E s \in ActiveStatements(c) : s.balance > 0 /\ s.due <= end) => IsConsidered(c, asOf, end)
      BY DEF IsConsidered
    <3> QED
      BY <2>1, <2>3, <3>1, <3>2, <3>3
  <2>5. CASE HasIntent(c) /\ intents[c].status = "active"
    <3>1. PICK f \in flows : /\ ScheduledFlows(c) = {f}
                            /\ f.date = intents[c].planned /\ f.amount = Remaining(c)
      BY <2>5, FlowsOfAPlan
    <3>2. PICK s : /\ ActiveStatements(c) = {s}
                   /\ s.balance \in Nat /\ s.balance > 0 /\ s.due \in Nat
                   /\ intents[c].planned \in Nat /\ intents[c].planned <= s.due
      BY <2>5, StatementOfAPlan
    <3>3. IsConsidered(c, asOf, end) <=> s.due <= end \/ f.date <= asOf
      BY <2>5, <3>1, <3>2 DEF IsConsidered
    <3>4. Cardinality(ScheduledFlows(c)) = 1 /\ (CHOOSE g \in ScheduledFlows(c) : TRUE) = f
      BY <3>1, FS_Singleton
    <3>5. IsDueToday(c, asOf) <=> s.due = asOf \/ f.date = asOf
      BY <2>5, <3>1, <3>2 DEF IsDueToday
    <3>6. ConsideredIssue(c, asOf, end) =
            IF IsDueToday(c, asOf) THEN "card_payment_due_today_unsettled" ELSE FlowIssue(f.date, asOf, end)
      <4>1. /\ intents[c].status # "settled" /\ intents[c].status # "cancelled"
            /\ intents[c].status # "needs_review" /\ Cardinality(ScheduledFlows(c)) = 1
        BY <2>5, <3>4
      <4> DEFINE flow == CHOOSE g \in ScheduledFlows(c) : TRUE
      <4>2. ConsideredIssue(c, asOf, end) =
              IF IsDueToday(c, asOf) THEN "card_payment_due_today_unsettled" ELSE FlowIssue(flow.date, asOf, end)
        <5>1. /\ ~ IsSettled(c)
              /\ ~ (~ HasIntent(c) \/ intents[c].status = "cancelled")
              /\ ~ (intents[c].status = "needs_review")
              /\ ~ (Cardinality(ScheduledFlows(c)) # 1)
          BY <2>5, <4>1 DEF IsSettled
        <5>2. CASE IsDueToday(c, asOf)
          BY <5>1, <5>2, Zenon DEF ConsideredIssue
        <5>3. CASE ~ IsDueToday(c, asOf)
          BY <5>1, <5>3, SMTT(30) DEF ConsideredIssue
        <5> QED
          BY <5>2, <5>3, Zenon
      <4>3. flow = f
        BY <3>4
      <4> HIDE DEF flow
      <4> QED
        BY <4>2, <4>3, Zenon
    <3>7. FlowIssue(f.date, asOf, end) =
            IF f.date = asOf THEN "card_payment_due_today_unsettled"
            ELSE IF f.date < asOf THEN "card_payment_past_due_unsettled"
            ELSE IF f.date > end THEN "invalid_card_payment_flow" ELSE "none"
      BY <2>1, <3>1, <3>2 DEF FlowIssue
    <3>8. counted = IF asOf < f.date /\ f.date <= end THEN {f} ELSE {}
      BY <2>2, <3>1
    <3>9. f.date \in Nat /\ f.date <= s.due
      BY <3>1, <3>2
    <3>10. issue # "invalid_card_payment_flow"
      BY <2>1, <2>3, <3>2, <3>3, <3>5, <3>6, <3>7, <3>9
    <3>11. issue # "none" => counted = {}
      BY <2>1, <2>3, <3>2, <3>3, <3>5, <3>6, <3>7, <3>8, <3>9
    <3>12. issue = "none" /\ s.due <= end => counted = {f}
      BY <2>1, <2>3, <3>2, <3>3, <3>5, <3>6, <3>7, <3>8, <3>9
    <3>13. f.date <= asOf => issue # "none"
      BY <2>1, <2>3, <3>2, <3>3, <3>5, <3>6, <3>7, <3>9
    <3> QED
      BY <2>1, <3>1, <3>2, <3>10, <3>11, <3>12, <3>13
  <2> QED
    BY <2>4, <2>5
<1> QED
  BY <1>1, SpecKeepsInvariants, PTL

-----------------------------------------------------------------------------
(***************************************************************************)
(* The card as a whole.  CardCycle instantiates Installments as I; IP is   *)
(* the same instance with the theorems about it.  An instance has          *)
(* operators of its own, of the library too: that those of I and of IP are *)
(* the same is proved by expanding both.                                   *)
(***************************************************************************)

IP == INSTANCE InstallmentsProofs WITH billed <- Billed

\* Every step of the card is a step of its statements, plans and payments, or none.
LEMMA StepsOfPayments == [CycleNext]_cycleVars => [Next]_vars
<1> SUFFICES ASSUME [CycleNext]_cycleVars PROVE [Next]_vars
  OBVIOUS
<1>1. CASE UNCHANGED cycleVars
  BY <1>1 DEF cycleVars
<1>2. CASE \E key \in Keys, cycle \in Cycles, authority \in {"estimated", "issued"}, balance \in Balances,
              due \in Dates : RegisterStatementOfCycle(key, cycle, authority, balance, due)
  BY <1>2 DEF RegisterStatementOfCycle, Next
<1>3. CASE PaymentStep /\ UNCHANGED installmentVars
  BY <1>3 DEF PaymentStep, Next
<1>4. CASE UNCHANGED vars /\ InstallmentStep
  BY <1>4
<1> QED
  BY <1>1, <1>2, <1>3, <1>4 DEF CycleNext

\* A statement, first or corrected, bills its cycle and no other, and stops
\* billing none.
LEMMA RegisterBills ==
  ASSUME IInv, NEW key \in Keys, NEW cycle \in Cycles, NEW authority \in {"estimated", "issued"},
         NEW balance \in Balances, NEW due \in Dates,
         RegisterStatement(key, cycle, authority, balance, due)
  PROVE  Billed' = Billed \cup {cycle}
<1>1. /\ \A c \in Cycles \ {cycle} : ActiveStatements(c)' = ActiveStatements(c)
      /\ ActiveStatements(cycle)' # {}
  BY RegisterPreservesStatements
<1> QED
  BY <1>1 DEF Billed

\* Every other step of payments leaves what is billed as it is.
LEMMA PaymentsBillNothing ==
  ASSUME UNCHANGED statements
  PROVE  Billed' = Billed
BY DEF Billed, ActiveStatements

LEMMA StepsOfInstallments == IInv /\ [CycleNext]_cycleVars => [I!Next]_I!vars
<1> SUFFICES ASSUME IInv, [CycleNext]_cycleVars PROVE [I!Next]_I!vars
  OBVIOUS
<1>1. CASE UNCHANGED cycleVars
  BY <1>1, PaymentsBillNothing DEF cycleVars, vars, installmentVars, I!vars
<1>2. ASSUME NEW key \in Keys, NEW cycle \in Cycles, NEW authority \in {"estimated", "issued"},
             NEW balance \in Balances, NEW due \in Dates,
             RegisterStatementOfCycle(key, cycle, authority, balance, due)
      PROVE  I!Next
  <2>1. cycle \in I!MonthCycles /\ CardOf[cycle] = cycle[1]
    BY CycleAssumption DEF I!MonthCycles, I!Months
  <2>2. Billed' = Billed \cup {cycle}
    BY <1>2, RegisterBills DEF RegisterStatementOfCycle
  <2>3. I!RegisterStatement(cycle)
    BY <1>2, <2>1, <2>2 DEF RegisterStatementOfCycle, RegisterStatement, TakeUp, I!RegisterStatement
  <2> QED
    BY <2>1, <2>3 DEF I!Next
<1>3. CASE PaymentStep /\ UNCHANGED installmentVars
  <2>1. ASSUME NEW card \in Cards, ArchiveAccount(card)
        PROVE  I!Next
    <3>1. Billed' = Billed
      BY <2>1, PaymentsBillNothing DEF ArchiveAccount
    <3>2. I!ArchiveAccount(card)
      BY <1>3, <2>1, <3>1 DEF ArchiveAccount, installmentVars, I!ArchiveAccount
    <3> QED
      BY <3>2 DEF I!Next
  <2>2. ASSUME UNCHANGED <<cardStatus, statements>>
        PROVE  UNCHANGED I!vars
    BY <1>3, <2>2, PaymentsBillNothing DEF installmentVars, I!vars
  <2> QED
    BY <1>3, <2>1, <2>2 DEF PaymentStep, PostTransfer, ReplaceIntent, CancelIntent, SettleIntent
<1>4. CASE UNCHANGED vars /\ InstallmentStep
  BY <1>4 DEF InstallmentStep, I!Next
<1> QED
  BY <1>1, <1>2, <1>3, <1>4 DEF CycleNext

-----------------------------------------------------------------------------
(* I and IP are the same *)

LEMMA SameSums ==
  /\ \A f : I!SumFunction(f) = IP!SumFunction(f)
  /\ \A S : I!Cardinality(S) = IP!Cardinality(S)
BY DEF I!SumFunction, I!SumFunctionOnSet, I!FoldFunctionOnSet, I!MapThenFoldSet, I!Cardinality,
       IP!SumFunction, IP!SumFunctionOnSet, IP!FoldFunctionOnSet, IP!MapThenFoldSet, IP!Cardinality

LEMMA SameAmounts ==
  /\ \A a : I!Unpaid(a) = IP!Unpaid(a)
  /\ \A p : I!Outstanding(p) = IP!Outstanding(p)
BY SameSums DEF I!Unpaid, I!Paid, I!PaymentsTo, I!Outstanding, I!PaidPrincipal, I!PaymentsOf,
                IP!Unpaid, IP!Paid, IP!PaymentsTo, IP!Outstanding, IP!PaidPrincipal, IP!PaymentsOf

LEMMA SameNext == I!Next => IP!Next
<1> SUFFICES ASSUME I!Next PROVE IP!Next
  OBVIOUS
<1>1. I!Months = IP!Months /\ I!MonthCycles = IP!MonthCycles
  BY DEF I!Months, IP!Months, I!MonthCycles, IP!MonthCycles
<1>2. CASE \E purchase \in Purchases, card \in Cards, amount \in Principals :
             I!PostCharge(purchase, card, amount)
  BY <1>2 DEF I!PostCharge, IP!PostCharge, IP!Next
<1>3. CASE \E card \in Cards : I!ArchiveAccount(card)
  BY <1>3 DEF I!ArchiveAccount, IP!ArchiveAccount, IP!Next
<1>4. ASSUME NEW key \in Keys, NEW charge \in charges, NEW count \in 1..MaxInstallments,
             NEW first \in I!Months, I!CreateInstallmentPlan(key, charge, count, first)
      PROVE  IP!Next
  <2>1. IP!CreateInstallmentPlan(key, charge, count, first)
    BY <1>4 DEF I!CreateInstallmentPlan, I!Unclaimed, I!Schedulable, I!Unplanned, I!Schedule,
                I!InstallmentPrincipal, I!InitialStatus,
                IP!CreateInstallmentPlan, IP!Unclaimed, IP!Schedulable, IP!Unplanned, IP!Schedule,
                IP!InstallmentPrincipal, IP!InitialStatus
  <2> QED
    BY <1>1, <2>1 DEF IP!Next
<1>5. ASSUME NEW cycle \in I!MonthCycles, I!RegisterStatement(cycle)
      PROVE  IP!Next
  <2>1. IP!RegisterStatement(cycle)
    BY <1>5 DEF I!RegisterStatement, I!TakenUp, IP!RegisterStatement, IP!TakenUp
  <2> QED
    BY <1>1, <2>1 DEF IP!Next
<1>6. ASSUME NEW key \in Keys, NEW a \in allocations, NEW amount \in Amounts,
             I!RecordPrincipalPayment(key, a, amount)
      PROVE  IP!Next
  <2>1. IP!RecordPrincipalPayment(key, a, amount)
    BY <1>6, SameAmounts, Zenon
       DEF I!RecordPrincipalPayment, I!Unclaimed, I!PlanOf, I!FitsUnpaid, I!CompletesPlan,
           IP!RecordPrincipalPayment, IP!Unclaimed, IP!PlanOf, IP!FitsUnpaid, IP!CompletesPlan
  <2> QED
    BY <2>1 DEF IP!Next
<1> QED
  BY <1>2, <1>3, <1>4, <1>5, <1>6 DEF I!Next

LEMMA SameTypes == IP!TypeOK => I!TypeOK
BY DEF I!TypeOK, I!ChargeRow, I!MonthCycles, I!Months, I!PlanRow, I!AllocationRow, I!PaymentRow, I!Operations,
       IP!TypeOK, IP!ChargeRow, IP!MonthCycles, IP!Months, IP!PlanRow, IP!AllocationRow, IP!PaymentRow,
       IP!Operations

LEMMA SameReadings ==
  /\ IP!SchedulesConservePrincipal => I!SchedulesConservePrincipal
  /\ IP!PlansDividePurchases => I!PlansDividePurchases
  /\ IP!OutstandingIsUnpaidAllocations => I!OutstandingIsUnpaidAllocations
  /\ IP!StatementsTakeUpAllocations => I!StatementsTakeUpAllocations
<1>1. IP!SchedulesConservePrincipal => I!SchedulesConservePrincipal
  BY SameSums DEF I!SchedulesConservePrincipal, I!SpreadOver, I!AllocationsOf,
                  IP!SchedulesConservePrincipal, IP!SpreadOver, IP!AllocationsOf
<1>2. IP!PlansDividePurchases => I!PlansDividePurchases
  BY SameSums DEF I!PlansDividePurchases, I!PlansOn, I!ChargesOn,
                  IP!PlansDividePurchases, IP!PlansOn, IP!ChargesOn
<1>3. IP!OutstandingIsUnpaidAllocations => I!OutstandingIsUnpaidAllocations
  BY SameSums, SameAmounts
     DEF I!OutstandingIsUnpaidAllocations, I!UnpaidAllocationsOf, I!AllocationsOf,
         IP!OutstandingIsUnpaidAllocations, IP!UnpaidAllocationsOf, IP!AllocationsOf
<1>4. IP!StatementsTakeUpAllocations => I!StatementsTakeUpAllocations
  BY DEF I!StatementsTakeUpAllocations, IP!StatementsTakeUpAllocations
<1> QED
  BY <1>1, <1>2, <1>3, <1>4

\* The assumptions that the theorems of IP rest on.
LEMMA PlansAssumed == IP!BoundAssumption /\ IP!PrincipalAssumption
BY PlanAssumption, MoneyAssumption DEF IP!BoundAssumption, IP!PrincipalAssumption

-----------------------------------------------------------------------------
(* Theorems *)

\* What is proved above of statements and payment plans holds of the card as a
\* whole: taking up installments disturbs none of it.
THEOREM CycleImplementsPayments == CycleSpec => Spec
<1>1. CycleInit => Init
  BY DEF CycleInit
<1> QED
  BY <1>1, StepsOfPayments, PTL DEF CycleSpec, Spec

\* A card whose statements come and are corrected is a card that Installments
\* describes: billed cycles stay billed through corrections, and every
\* registration takes up what is pending and nothing that is paid
\* (RegisterStatement of card_repository.go with its UPDATE of allocations).
THEOREM CycleImplementsInstallments == CycleSpec => ImplementsInstallments
<1>1. CycleInit => I!Init
  BY DEF CycleInit
<1>2. IInv /\ [CycleNext]_cycleVars => [I!Next]_I!vars
  BY StepsOfInstallments
<1>3. CycleSpec => []IInv
  BY CycleImplementsPayments, InitIInv, NextPreservesIInv, PTL DEF Spec
<1> QED
  BY <1>1, <1>2, <1>3, PTL DEF CycleSpec, ImplementsInstallments

LEMMA CycleFollowsPlans == CycleSpec => IP!Spec
<1>1. I!Init => IP!Init
  BY DEF I!Init, IP!Init
<1>2. [I!Next]_I!vars => [IP!Next]_IP!vars
  BY SameNext DEF I!vars, IP!vars
<1> QED
  BY <1>1, <1>2, CycleImplementsInstallments, PTL DEF ImplementsInstallments, IP!Spec

\* Rows of both halves keep their types (migration 0011).
THEOREM CycleTypes == CycleSpec => []CycleTypeOK
<1>1. CycleSpec => []I!TypeOK
  BY CycleFollowsPlans, IP!InstallmentTypes, PlansAssumed, SameTypes, PTL
<1>2. CycleSpec => []TypeOK
  BY CycleImplementsPayments, CardTypes, PTL
<1> QED
  BY <1>1, <1>2, PTL DEF CycleTypeOK

\* The allocations of a plan are its principal, divided as evenly as whole minor
\* units allow, and plans of a card divide distinct purchases posted to it
\* (BuildInstallmentSchedule, CreateInstallmentPlan).
THEOREM CycleConservesPrincipal == CycleSpec => []PrincipalIsConserved
BY CycleFollowsPlans, IP!InstallmentsConservePrincipal, IP!InstallmentsDividePurchases, PlansAssumed,
   SameReadings, PTL DEF PrincipalIsConserved

\* Whichever of plan, statement, correction and payment comes first, what is
\* unpaid of the allocations is what is outstanding of their plan, and an unpaid
\* allocation is taken up exactly when its cycle has a statement
\* (RegisterStatement, RecordPrincipalPayment).
THEOREM CycleReconciles == CycleSpec => []AllocationsReconcile
BY CycleFollowsPlans, IP!InstallmentsReconcile, IP!InstallmentsAreTakenUp, PlansAssumed, SameReadings, PTL
   DEF AllocationsReconcile

\* A schedule is written once: no correction of a statement makes a paid
\* allocation owing again (the UPDATE of RegisterStatement).
THEOREM CycleHistory == CycleSpec => SchedulesAreHistory
<1> DEFINE Kept(rank(_)) ==
             /\ principalPayments \subseteq principalPayments'
             /\ \A a \in allocations : \E b \in allocations' :
                  [a EXCEPT !.status = b.status] = b /\ rank(a.status) <= rank(b.status)
             /\ \A b \in allocations' :
                  (\E p \in plans : p.id = b.plan) => \E a \in allocations : [a EXCEPT !.status = b.status] = b
             /\ \A p \in plans : p \in plans' \/ [p EXCEPT !.status = "completed"] \in plans'
<1>1. [Kept(IP!Rank)]_IP!vars => [Kept(I!Rank)]_I!vars
  <2>1. \A status : I!Rank(status) = IP!Rank(status)
    BY DEF I!Rank, IP!Rank
  <2> QED
    BY <2>1, Zenon DEF I!vars, IP!vars
<1>2. CycleSpec => [][Kept(IP!Rank)]_IP!vars
  BY CycleFollowsPlans, IP!InstallmentHistory, PlansAssumed DEF IP!SchedulesAreHistory
<1> QED
  BY <1>1, <1>2, PTL DEF SchedulesAreHistory, I!SchedulesAreHistory

-----------------------------------------------------------------------------
(* Interleaved transactions: what each of them knows *)

Claim(s) == <<request[s].operation, request[s].key>>

IsRegistration(s) == request[s].operation = "register_credit_card_statement"
IsReplacement(s) == request[s].operation = "replace"
IsCancellation(s) == request[s].operation = "cancel"

\* The uncommitted rows of a transaction: its claim, the statements it
\* supersedes and writes, the plan, the flows it ends and writes, the payment.
Rows(claimed, superseded, corrected, plans_, ended, planned, links) ==
  [out |-> [statements |-> superseded, flows |-> ended],
   in  |-> [statements |-> corrected, flows |-> planned, intents |-> plans_, settlements |-> links,
            mutations |-> claimed]]

OnlyClaim(s) == Rows({Claim(s)}, {}, {}, {}, {}, {}, {})

Corrected(s) ==
  {[p EXCEPT !.supersededBy = request[s].key] : p \in ActiveStatements(Cycle(s))}
    \cup {[id |-> request[s].key, cycle |-> Cycle(s), revision |-> NextRevision(Cycle(s)),
           authority |-> request[s].authority, balance |-> request[s].balance, due |-> request[s].due,
           supersededBy |-> NoKey]}

Correction(s) == Rows({Claim(s)}, ActiveStatements(Cycle(s)), Corrected(s), {}, {}, {}, {})

FlowsGivenUp(s) == FlowsEnded(Cycle(s), "cancelled", NoKey)

CorrectionAndReview(s) ==
  Rows({Claim(s)}, ActiveStatements(Cycle(s)), Corrected(s),
       {[intents[Cycle(s)] EXCEPT !.status = "needs_review"]},
       ScheduledFlows(Cycle(s)), FlowsGivenUp(s), {})

PlanAgain(s) ==
  Rows({}, {}, {},
       {[amount |-> Amount(s), planned |-> request[s].planned, version |-> NextVersion(Cycle(s)),
         status |-> "active"]},
       ScheduledFlows(Cycle(s)),
       FlowsGivenUp(s) \cup {Flow(Cycle(s), NextVersion(Cycle(s)), Amount(s), request[s].planned)}, {})

GivingUp(s) ==
  Rows({}, {}, {}, {[intents[Cycle(s)] EXCEPT !.status = "cancelled", !.version = @ + 1]},
       ScheduledFlows(Cycle(s)), FlowsGivenUp(s), {})

Link(s) == [id |-> request[s].key, cycle |-> Cycle(s), transfer |-> Payment(s).id, amount |-> Payment(s).amount]

Linking(s) == Rows({Claim(s)}, {}, {}, {}, {}, {}, {Link(s)})

Left(s) == Remaining(Cycle(s)) - Payment(s).amount

PayingAll(s) ==
  Rows({Claim(s)}, {}, {}, {[intents[Cycle(s)] EXCEPT !.status = "settled", !.version = @ + 1]},
       ScheduledFlows(Cycle(s)), FlowsEnded(Cycle(s), "settled", Payment(s).id), {Link(s)})

PayingPart(s) ==
  Rows({Claim(s)}, {}, {}, {}, ScheduledFlows(Cycle(s)),
       FlowsGivenUp(s)
         \cup {Flow(Cycle(s), intents[Cycle(s)].version, Left(s), intents[Cycle(s)].planned)}, {Link(s)})

\* FOR UPDATE of the three rows that a request is about.
AccountHeld(s) == AccountRow(CardOf[Cycle(s)]) \in exclusive[s]
CycleHeld(s) == CycleRow(Cycle(s)) \in exclusive[s]
PlanHeld(s) == PlanRow(Cycle(s)) \in exclusive[s] /\ HasIntent(Cycle(s))

\* From a statement to the next, a registration holds its card, has claimed its
\* key, holds its cycle, may correct what is in force, and has found that the
\* plan need not be reviewed or holds it.
RegistrationFine(s) ==
  /\ pc[s] \in {"idle", "account", "claim", "cycle", "statement", "review_intent", "commit"} \cup Ended
  /\ pc[s] \in {"idle", "account", "claim"} => writes[s] = NoWrites
  /\ pc[s] \in {"cycle", "statement"} => writes[s] = OnlyClaim(s)
  /\ pc[s] \in {"claim", "cycle", "statement", "review_intent", "commit"} =>
       AccountHeld(s) /\ cardStatus[CardOf[Cycle(s)]] = "active"
  /\ pc[s] \in {"cycle", "statement", "review_intent", "commit"} => Claim(s) \notin mutations
  /\ pc[s] \in {"statement", "review_intent", "commit"} => CycleHeld(s)
  /\ pc[s] \in {"review_intent", "commit"} =>
       \A p \in ActiveStatements(Cycle(s)) : MayReplace(p, request[s].authority)
  /\ pc[s] = "review_intent" => writes[s] = Correction(s)
  /\ pc[s] = "commit" =>
       \/ ~ MustReview(s) /\ writes[s] = Correction(s)
       \/ MustReview(s) /\ PlanHeld(s) /\ writes[s] = CorrectionAndReview(s)

\* What a replacement may write over the plan it found, or as the first.
MayPlanAgain(s) ==
  /\ FlowIdFree(Cycle(s), NextVersion(Cycle(s)), Amount(s))
  /\ HasIntent(Cycle(s)) =>
       /\ PlanHeld(s)
       /\ intents[Cycle(s)].status \in {"active", "needs_review"}
       /\ ~ IsPlanned(Cycle(s), Amount(s), request[s].planned)
       /\ intents[Cycle(s)].version < MaxVersion
       /\ SettledAmount(Cycle(s)) = 0

\* A replacement holds the cycle of the one statement it found from when it has
\* looked at it again, and then its plan, or the absence of one.
ReplacementFine(s) ==
  /\ pc[s] \in {"idle", "read", "cycle", "validate", "intent", "first_intent", "change", "commit"} \cup Ended
  /\ pc[s] \in {"idle", "read", "cycle", "validate", "intent", "first_intent", "change"} => writes[s] = NoWrites
  /\ pc[s] = "cycle" => \E u \in seen[s] : seen[s] = {u}
  /\ pc[s] \in {"validate", "intent", "first_intent", "change", "commit"} => CycleHeld(s)
  /\ pc[s] = "validate" => seen[s] \subseteq ActiveStatements(Cycle(s))
  /\ pc[s] \in {"intent", "first_intent", "change", "commit"} =>
       Plannable(Cycle(s), Amount(s), request[s].planned)
  /\ pc[s] = "first_intent" => ~ HasIntent(Cycle(s))
  /\ pc[s] = "change" => PlanHeld(s)
  /\ pc[s] = "commit" => MayPlanAgain(s) /\ writes[s] = PlanAgain(s)

CancellationFine(s) ==
  /\ pc[s] \in {"idle", "intent", "change", "commit"} \cup Ended
  /\ pc[s] \in {"idle", "intent", "change"} => writes[s] = NoWrites
  /\ pc[s] \in {"change", "commit"} => PlanHeld(s)
  /\ pc[s] = "commit" => Cancellable(Cycle(s)) /\ writes[s] = GivingUp(s)

\* The payment that a settlement has looked at fits what is left of its plan.
MayPay(s) ==
  /\ intents[Cycle(s)].status = "active"
  /\ Payment(s) \in payments /\ Payment(s).id = request[s].transfer
  /\ Payment(s).destination = CardOf[Cycle(s)]
  /\ FitsRemaining(Payment(s), Cycle(s))

SettlementFine(s) ==
  /\ pc[s] \in {"idle", "claim", "intent", "change", "link", "link_cycle", "flow", "commit"} \cup Ended
  /\ pc[s] \in {"idle", "claim"} => writes[s] = NoWrites
  /\ pc[s] \in {"intent", "change", "link"} => writes[s] = OnlyClaim(s)
  /\ pc[s] \in {"intent", "change", "link", "link_cycle", "flow", "commit"} => Claim(s) \notin mutations
  /\ pc[s] \in {"change", "link", "link_cycle", "flow", "commit"} => PlanHeld(s)
  /\ pc[s] \in {"link", "link_cycle", "flow", "commit"} => MayPay(s)
  /\ pc[s] \in {"link_cycle", "flow", "commit"} => \A n \in settlements : n.transfer # request[s].transfer
  /\ pc[s] \in {"link_cycle", "flow"} => writes[s] = Linking(s)
  /\ pc[s] = "commit" =>
       \/ Left(s) = 0 /\ writes[s] = PayingAll(s)
       \/ /\ Left(s) # 0 /\ FlowIdFree(Cycle(s), intents[Cycle(s)].version, Left(s))
          /\ writes[s] = PayingPart(s)

Fine(s) ==
  /\ IsRegistration(s) => RegistrationFine(s)
  /\ IsReplacement(s) => ReplacementFine(s)
  /\ IsCancellation(s) => CancellationFine(s)
  /\ IsSettlement(s) => SettlementFine(s)

\* No two sessions hold a row, have inserted a key, or have linked a transfer.
Apart(s, o) ==
  /\ exclusive[s] \cap exclusive[o] = {}
  /\ writes[s].in.mutations \cap writes[o].in.mutations = {}
  /\ \A n \in writes[s].in.settlements, m \in writes[o].in.settlements : n.transfer # m.transfer

\* Only a flow that is settled names a payment.
OpenFlowsSettleNothing == \A f \in flows : f.status # "settled" => f.settledBy = NoKey

LockRows == ({"account"} \X Cards) \cup ({"cycle"} \X Cycles) \cup ({"intent"} \X Cycles)

SessionShapes ==
  /\ request \in [Sessions -> Requests]
  /\ exclusive \in [Sessions -> SUBSET LockRows]
  /\ seen \in [Sessions -> SUBSET StatementRow]
  /\ DOMAIN pc = Sessions /\ pc = [s \in Sessions |-> pc[s]]
  /\ DOMAIN writes = Sessions /\ writes = [s \in Sessions |-> writes[s]]

SInv ==
  /\ IInv /\ MoneyInv /\ OpenFlowsSettleNothing
  /\ SessionShapes
  /\ \A s \in Sessions : Fine(s)
  /\ \A s, o \in Sessions : s # o => Apart(s, o)

-----------------------------------------------------------------------------
(* Requests and rows *)

LEMMA RequestsAre ==
  ASSUME SessionShapes, NEW s \in Sessions
  PROVE  /\ request[s] \in Requests
         /\ Cycle(s) \in Cycles /\ CardOf[Cycle(s)] \in Cards
         /\ IsRegistration(s) => /\ request[s].key \in Keys /\ request[s].authority \in {"estimated", "issued"}
                                 /\ request[s].balance \in Balances /\ request[s].due \in Dates
         /\ IsReplacement(s) => Amount(s) \in Amounts /\ request[s].planned \in Dates
         /\ IsSettlement(s) => request[s].key \in Keys /\ request[s].transfer \in Transfers
         /\ IsRegistration(s) \/ IsReplacement(s) \/ IsCancellation(s) \/ IsSettlement(s)
<1>1. request[s] \in Requests
  BY DEF SessionShapes
<1>2. Cycle(s) \in Cycles
  BY <1>1 DEF Requests, Cycle
<1>3. CardOf[Cycle(s)] \in Cards
  BY <1>2, CardAssumption
<1> QED
  BY <1>1, <1>2, <1>3
  DEF Requests, Amount, IsRegistration, IsReplacement, IsCancellation, IsSettlement

\* The operation of a request is one of four.
LEMMA OneOperation ==
  ASSUME NEW s
  PROVE  /\ IsRegistration(s) => ~ IsReplacement(s) /\ ~ IsCancellation(s) /\ ~ IsSettlement(s)
         /\ IsReplacement(s) => ~ IsCancellation(s) /\ ~ IsSettlement(s)
         /\ IsCancellation(s) => ~ IsSettlement(s)
BY DEF IsRegistration, IsReplacement, IsCancellation, IsSettlement

LEMMA RowsAreApart ==
  /\ \A a, b : AccountRow(a) = AccountRow(b) => a = b
  /\ \A a, b : CycleRow(a) = CycleRow(b) => a = b
  /\ \A a, b : PlanRow(a) = PlanRow(b) => a = b
  /\ \A a, b : AccountRow(a) # CycleRow(b) /\ AccountRow(a) # PlanRow(b) /\ CycleRow(a) # PlanRow(b)
BY DEF AccountRow, CycleRow, PlanRow

LEMMA NoRows == NoWrites = Rows({}, {}, {}, {}, {}, {}, {})
BY DEF NoWrites, Rows

\* The parts of a transaction's rows.
LEMMA RowsAre ==
  ASSUME NEW a, NEW b, NEW c, NEW d, NEW e, NEW f, NEW g
  PROVE  LET w == Rows(a, b, c, d, e, f, g) IN
         /\ w.in.mutations = a /\ w.out.statements = b /\ w.in.statements = c /\ w.in.intents = d
         /\ w.out.flows = e /\ w.in.flows = f /\ w.in.settlements = g
BY DEF Rows

\* What the statements of a transaction add to its rows.
WithClaim(w, x) == [w EXCEPT !.in.mutations = x]
WithLink(w, x) == [w EXCEPT !.in.settlements = x]
WithStatements(w, x, y) == [w EXCEPT !.out.statements = x, !.in.statements = y]
WithPlan(w, x, y, z) == [w EXCEPT !.in.intents = x, !.out.flows = y, !.in.flows = z]

LEMMA RowsWithStatements ==
  ASSUME NEW w, NEW a, NEW b, NEW c, NEW d, NEW e, NEW f, NEW g, w = Rows(a, b, c, d, e, f, g),
         NEW x, NEW y
  PROVE  WithStatements(w, x, y) = Rows(a, x, y, d, e, f, g)
<1>1. PICK v : v = [w EXCEPT !.out.statements = x]
  OBVIOUS
<1>2. v = Rows(a, x, c, d, e, f, g)
  BY <1>1 DEF Rows
<1>3. [v EXCEPT !.in.statements = y] = Rows(a, x, y, d, e, f, g)
  BY <1>2 DEF Rows
<1> QED
  BY <1>1, <1>3 DEF WithStatements

LEMMA RowsWith ==
  ASSUME NEW w, NEW a, NEW b, NEW c, NEW d, NEW e, NEW f, NEW g, w = Rows(a, b, c, d, e, f, g),
         NEW x, NEW y, NEW z
  PROVE  /\ WithClaim(w, x) = Rows(x, b, c, d, e, f, g)
         /\ WithLink(w, x) = Rows(a, b, c, d, e, f, x)
         /\ WithPlan(w, x, y, z) = Rows(a, b, c, x, y, z, g)
<1>1. WithClaim(w, x) = Rows(x, b, c, d, e, f, g)
  BY DEF Rows, WithClaim
<1>2. WithLink(w, x) = Rows(a, b, c, d, e, f, x)
  BY DEF Rows, WithLink
<1>3. WithPlan(w, x, y, z) = Rows(a, b, c, x, y, z, g)
  <2>1. PICK v : v = [w EXCEPT !.in.intents = x]
    OBVIOUS
  <2>2. v = Rows(a, b, c, x, e, f, g)
    BY <2>1 DEF Rows
  <2>3. PICK u : u = [v EXCEPT !.out.flows = y]
    OBVIOUS
  <2>4. u = Rows(a, b, c, x, y, f, g)
    BY <2>2, <2>3 DEF Rows
  <2>5. [u EXCEPT !.in.flows = z] = Rows(a, b, c, x, y, z, g)
    BY <2>4 DEF Rows
  <2> QED
    BY <2>1, <2>3, <2>5 DEF WithPlan
<1> QED
  BY <1>1, <1>2, <1>3

-----------------------------------------------------------------------------
(* What others do *)

\* The plan of a cycle is as it was, with its flows and payments.
SamePlan(c) ==
  /\ intents'[c] = intents[c]
  /\ FlowsOf(c)' = FlowsOf(c)
  /\ SettlementsOf(c)' = SettlementsOf(c)

SameSession(s) ==
  /\ pc'[s] = pc[s] /\ exclusive'[s] = exclusive[s] /\ seen'[s] = seen[s] /\ writes'[s] = writes[s]
  /\ request' = request

\* Whoever holds a cycle c keeps its statements, but another may pay or end its plan.
Undisturbed(s, c) ==
  /\ AccountHeld(s) => cardStatus'[CardOf[c]] = cardStatus[CardOf[c]]
  /\ CycleHeld(s) =>
       /\ ActiveStatements(c)' = ActiveStatements(c)
       /\ intents'[c] = intents[c] \/ (HasIntent(c) /\ HasIntent(c)' /\ intents'[c].status # "active")
       /\ ~ HasIntent(c) => SamePlan(c)
  /\ PlanHeld(s) => SamePlan(c)
  /\ Claim(s) \in writes[s].in.mutations /\ Claim(s) \notin mutations => Claim(s) \notin mutations'
  /\ \A n \in writes[s].in.settlements :
       (\A m \in settlements : m.transfer # n.transfer) => \A m \in settlements' : m.transfer # n.transfer
  /\ payments \subseteq payments' /\ PaymentsAreDistinct'

LEMMA SamePlanReads ==
  ASSUME NEW c, SamePlan(c)
  PROVE  /\ HasIntent(c)' <=> HasIntent(c)
         /\ ScheduledFlows(c)' = ScheduledFlows(c)
         /\ \A version, amount : FlowIdFree(c, version, amount)' <=> FlowIdFree(c, version, amount)
         /\ SettledAmount(c)' = SettledAmount(c)
         /\ Remaining(c)' = Remaining(c)
         /\ \A outcome, transfer : FlowsEnded(c, outcome, transfer)' = FlowsEnded(c, outcome, transfer)
         /\ NextVersion(c)' = NextVersion(c)
         /\ \A amount, planned : IsPlanned(c, amount, planned)' <=> IsPlanned(c, amount, planned)
         /\ Cancellable(c)' <=> Cancellable(c)
<1>1. intents'[c] = intents[c] /\ FlowsOf(c)' = FlowsOf(c) /\ SettlementsOf(c)' = SettlementsOf(c)
  BY DEF SamePlan
<1>2. ScheduledFlows(c)' = ScheduledFlows(c)
  BY <1>1 DEF FlowsOf, ScheduledFlows, IsScheduled
<1>3. \A version, amount : FlowIdFree(c, version, amount)' <=> FlowIdFree(c, version, amount)
  BY <1>1 DEF FlowIdFree, FlowsOf
<1>4. SettledAmount(c)' = SettledAmount(c) /\ Remaining(c)' = Remaining(c)
  BY <1>1 DEF SettledAmount, Remaining
<1>5. \A outcome, transfer : FlowsEnded(c, outcome, transfer)' = FlowsEnded(c, outcome, transfer)
  BY <1>2 DEF FlowsEnded, EndedFlow
<1> QED
  BY <1>1, <1>2, <1>3, <1>4, <1>5 DEF HasIntent, NextVersion, IsPlanned, Cancellable

LEMMA SameStatementsRead ==
  ASSUME NEW c, ActiveStatements(c)' = ActiveStatements(c)
  PROVE  /\ NextRevision(c)' = NextRevision(c)
         /\ \A amount, planned : Plannable(c, amount, planned)' <=> Plannable(c, amount, planned)
BY DEF NextRevision, Plannable

LEMMA SameSessionReads ==
  ASSUME NEW s, SameSession(s)
  PROVE  /\ Cycle(s)' = Cycle(s) /\ Amount(s)' = Amount(s) /\ request'[s] = request[s] /\ Claim(s)' = Claim(s)
         /\ pc'[s] = pc[s] /\ writes'[s] = writes[s] /\ seen'[s] = seen[s] /\ exclusive'[s] = exclusive[s]
         /\ IsRegistration(s)' <=> IsRegistration(s)
         /\ IsReplacement(s)' <=> IsReplacement(s)
         /\ IsCancellation(s)' <=> IsCancellation(s)
         /\ IsSettlement(s)' <=> IsSettlement(s)
         /\ OnlyClaim(s)' = OnlyClaim(s)
         /\ AccountHeld(s)' <=> AccountHeld(s)
         /\ CycleHeld(s)' <=> CycleHeld(s)
BY DEF SameSession, Cycle, Amount, Claim, IsRegistration, IsReplacement, IsCancellation, IsSettlement, OnlyClaim,
       AccountHeld, CycleHeld, AccountRow, CycleRow

LEMMA HeldPlanStays ==
  ASSUME NEW s, NEW c, c = Cycle(s), SameSession(s), Undisturbed(s, c), PlanHeld(s)
  PROVE  PlanHeld(s)' /\ SamePlan(c)
<1>1. SamePlan(c)
  BY DEF Undisturbed
<1>2. HasIntent(c)' /\ Cycle(s)' = c /\ exclusive'[s] = exclusive[s]
  BY <1>1, SamePlanReads, SameSessionReads DEF PlanHeld
<1>3. HasIntent(Cycle(s))'
  BY <1>2 DEF HasIntent
<1>4. PlanRow(Cycle(s))' \in exclusive'[s]
  BY <1>2 DEF PlanHeld, PlanRow
<1> QED
  BY <1>1, <1>3, <1>4 DEF PlanHeld

LEMMA RegistrationStaysFine ==
  ASSUME NEW s, NEW c, c = Cycle(s), SameSession(s), Undisturbed(s, c), RegistrationFine(s)
  PROVE  RegistrationFine(s)'
<1>1. /\ Cycle(s)' = c /\ request'[s] = request[s] /\ Claim(s)' = Claim(s) /\ pc'[s] = pc[s] /\ writes'[s] = writes[s]
      /\ OnlyClaim(s)' = OnlyClaim(s) /\ (AccountHeld(s)' <=> AccountHeld(s)) /\ (CycleHeld(s)' <=> CycleHeld(s))
  BY SameSessionReads
<1>2. AccountHeld(s) => cardStatus'[CardOf[c]] = cardStatus[CardOf[c]]
  BY DEF Undisturbed
<1>3. CycleHeld(s) =>
        /\ ActiveStatements(c)' = ActiveStatements(c)
        /\ Corrected(s)' = Corrected(s) /\ Correction(s)' = Correction(s)
  <2>1. SUFFICES ASSUME CycleHeld(s)
                 PROVE  /\ ActiveStatements(c)' = ActiveStatements(c)
                        /\ Corrected(s)' = Corrected(s) /\ Correction(s)' = Correction(s)
    OBVIOUS
  <2>2. ActiveStatements(c)' = ActiveStatements(c)
    BY <2>1 DEF Undisturbed
  <2>3. NextRevision(c)' = NextRevision(c)
    BY <2>2, SameStatementsRead
  <2>4. Corrected(s)' = Corrected(s)
    BY <1>1, <2>2, <2>3 DEF Corrected
  <2> QED
    BY <1>1, <2>2, <2>4 DEF Correction, Rows
<1>4. pc[s] \in {"cycle", "statement", "review_intent", "commit"} => Claim(s) \in writes[s].in.mutations
  BY RowsAre DEF RegistrationFine, OnlyClaim, Correction, CorrectionAndReview
<1>5. pc[s] \in {"cycle", "statement", "review_intent", "commit"} => Claim(s)' \notin mutations'
  BY <1>1, <1>4 DEF RegistrationFine, Undisturbed
<1>6. ASSUME pc[s] = "commit"
      PROVE  \/ ~ MustReview(s)' /\ writes[s] = Correction(s)
             \/ MustReview(s)' /\ PlanHeld(s)' /\ writes[s] = CorrectionAndReview(s)'
  <2>1. CycleHeld(s)
    BY <1>6 DEF RegistrationFine
  <2>2. CASE MustReview(s) /\ PlanHeld(s) /\ writes[s] = CorrectionAndReview(s)
    <3>1. PlanHeld(s)' /\ SamePlan(c)
      BY <2>2, HeldPlanStays
    <3>2. /\ intents'[c] = intents[c] /\ (HasIntent(c)' <=> HasIntent(c))
          /\ ScheduledFlows(c)' = ScheduledFlows(c)
          /\ FlowsEnded(c, "cancelled", NoKey)' = FlowsEnded(c, "cancelled", NoKey)
      BY <3>1, SamePlanReads DEF SamePlan
    <3>3. MustReview(s)'
      BY <1>1, <2>2, <3>2 DEF MustReview, Outgrown
    <3>4. CorrectionAndReview(s)' = CorrectionAndReview(s)
      BY <1>1, <1>3, <2>1, <3>2 DEF CorrectionAndReview, Rows, FlowsGivenUp
    <3> QED
      BY <2>2, <3>1, <3>3, <3>4
  <2>3. CASE ~ MustReview(s) /\ writes[s] = Correction(s)
    <3>1. ~ MustReview(s)'
      <4>1. CASE intents'[c] = intents[c]
        BY <1>1, <2>3, <4>1 DEF MustReview, Outgrown, HasIntent
      <4>2. CASE intents'[c].status # "active"
        BY <1>1, <4>2 DEF MustReview, Outgrown
      <4> QED
        BY <2>1, <4>1, <4>2 DEF Undisturbed
    <3> QED
      BY <2>3, <3>1
  <2> QED
    BY <1>6, <2>2, <2>3 DEF RegistrationFine
<1> QED
  BY <1>1, <1>2, <1>3, <1>5, <1>6 DEF RegistrationFine

LEMMA ReplacementStaysFine ==
  ASSUME NEW s, NEW c, c = Cycle(s), SameSession(s), Undisturbed(s, c), ReplacementFine(s)
  PROVE  ReplacementFine(s)'
<1>1. /\ Cycle(s)' = c /\ request'[s] = request[s] /\ Amount(s)' = Amount(s) /\ pc'[s] = pc[s]
      /\ writes'[s] = writes[s] /\ seen'[s] = seen[s] /\ (CycleHeld(s)' <=> CycleHeld(s))
  BY SameSessionReads
<1>2. CycleHeld(s) =>
        /\ ActiveStatements(c)' = ActiveStatements(c)
        /\ Plannable(c, Amount(s), request[s].planned)' <=> Plannable(c, Amount(s), request[s].planned)
        /\ ~ HasIntent(c) => SamePlan(c)
  <2>1. SUFFICES ASSUME CycleHeld(s)
                 PROVE  /\ ActiveStatements(c)' = ActiveStatements(c)
                        /\ Plannable(c, Amount(s), request[s].planned)' <=> Plannable(c, Amount(s), request[s].planned)
                        /\ ~ HasIntent(c) => SamePlan(c)
    OBVIOUS
  <2>2. ActiveStatements(c)' = ActiveStatements(c) /\ (~ HasIntent(c) => SamePlan(c))
    BY <2>1 DEF Undisturbed
  <2> QED
    BY <1>1, <2>2 DEF Plannable
<1>3. PlanHeld(s) => PlanHeld(s)'
  BY HeldPlanStays
<1>4. pc[s] = "first_intent" => ~ HasIntent(c)'
  BY <1>2, SamePlanReads DEF ReplacementFine
<1>5. ASSUME pc[s] = "commit"
      PROVE  MayPlanAgain(s)' /\ writes[s] = PlanAgain(s)'
  <2>1. CycleHeld(s) /\ MayPlanAgain(s) /\ writes[s] = PlanAgain(s)
    BY <1>5 DEF ReplacementFine
  <2>2. HasIntent(c) => PlanHeld(s)
    BY <2>1 DEF MayPlanAgain
  <2>3. SamePlan(c)
    BY <1>2, <2>1, <2>2, HeldPlanStays
  <2>4. /\ intents'[c] = intents[c] /\ (HasIntent(c)' <=> HasIntent(c))
        /\ ScheduledFlows(c)' = ScheduledFlows(c)
        /\ FlowsEnded(c, "cancelled", NoKey)' = FlowsEnded(c, "cancelled", NoKey)
        /\ \A version, amount : FlowIdFree(c, version, amount)' <=> FlowIdFree(c, version, amount)
        /\ SettledAmount(c)' = SettledAmount(c)
        /\ NextVersion(c)' = NextVersion(c)
    BY <2>3, SamePlanReads DEF SamePlan
  <2>5. FlowIdFree(c, NextVersion(c), Amount(s))' <=> FlowIdFree(c, NextVersion(c), Amount(s))
    <3>1. FlowIdFree(c, NextVersion(c), Amount(s))'
            <=> ~ \E f \in flows' : f.cycle = c /\ f.version = NextVersion(c) /\ f.amount = Amount(s)
      BY <1>1, <2>4 DEF FlowIdFree
    <3>2. FlowsOf(c)' = FlowsOf(c)
      BY <2>3 DEF SamePlan
    <3>3. FlowsOf(c)' = {f \in flows' : f.cycle = c}
      BY <1>1 DEF FlowsOf
    <3> QED
      BY <3>1, <3>2, <3>3 DEF FlowsOf, FlowIdFree
  <2>6. IsPlanned(c, Amount(s), request[s].planned)' <=> IsPlanned(c, Amount(s), request[s].planned)
    BY <1>1, <2>4 DEF IsPlanned
  <2>7. MayPlanAgain(s)'
    BY <1>1, <1>3, <2>1, <2>4, <2>5, <2>6 DEF MayPlanAgain
  <2>8. PlanAgain(s)' = PlanAgain(s)
    BY <1>1, <2>4 DEF PlanAgain, Rows, FlowsGivenUp, Flow
  <2> QED
    BY <2>1, <2>7, <2>8
<1> QED
  BY <1>1, <1>2, <1>3, <1>4, <1>5 DEF ReplacementFine

LEMMA CancellationStaysFine ==
  ASSUME NEW s, NEW c, c = Cycle(s), SameSession(s), Undisturbed(s, c), CancellationFine(s)
  PROVE  CancellationFine(s)'
<1>1. Cycle(s)' = c /\ pc'[s] = pc[s] /\ writes'[s] = writes[s]
  BY SameSessionReads
<1>2. PlanHeld(s) => PlanHeld(s)'
  BY HeldPlanStays
<1>3. ASSUME pc[s] = "commit"
      PROVE  Cancellable(c)' /\ writes[s] = GivingUp(s)'
  <2>1. PlanHeld(s) /\ Cancellable(c) /\ writes[s] = GivingUp(s)
    BY <1>3 DEF CancellationFine
  <2>2. SamePlan(c)
    BY <2>1, HeldPlanStays
  <2>3. /\ intents'[c] = intents[c]
        /\ ScheduledFlows(c)' = ScheduledFlows(c)
        /\ FlowsEnded(c, "cancelled", NoKey)' = FlowsEnded(c, "cancelled", NoKey)
        /\ Cancellable(c)' <=> Cancellable(c)
    BY <2>2, SamePlanReads DEF SamePlan
  <2>4. GivingUp(s)' = GivingUp(s)
    BY <1>1, <2>3 DEF GivingUp, Rows, FlowsGivenUp
  <2> QED
    BY <1>1, <2>1, <2>3, <2>4
<1> QED
  BY <1>1, <1>2, <1>3 DEF CancellationFine

\* The payment a settlement looks at is one row, now and when others are posted.
LEMMA PaymentStays ==
  ASSUME NEW s, request' = request, payments \subseteq payments', PaymentsAreDistinct',
         Payment(s) \in payments, Payment(s).id = request[s].transfer
  PROVE  Payment(s)' = Payment(s)
<1>1. Payment(s)' = CHOOSE p \in payments' : p.id = request[s].transfer
  BY DEF Payment
<1>2. \A p \in payments' : p.id = request[s].transfer <=> p = Payment(s)
  BY DEF PaymentsAreDistinct
<1> QED
  BY <1>1, <1>2

LEMMA SettlementStaysFine ==
  ASSUME NEW s, NEW c, c = Cycle(s), SameSession(s), Undisturbed(s, c), SettlementFine(s)
  PROVE  SettlementFine(s)'
<1>1. /\ Cycle(s)' = c /\ request'[s] = request[s] /\ Claim(s)' = Claim(s) /\ pc'[s] = pc[s] /\ writes'[s] = writes[s]
      /\ OnlyClaim(s)' = OnlyClaim(s) /\ request' = request
  BY SameSessionReads DEF SameSession
<1>2. PlanHeld(s) => PlanHeld(s)' /\ SamePlan(c)
  BY HeldPlanStays
<1>3. pc[s] \in {"intent", "change", "link", "link_cycle", "flow", "commit"} => Claim(s) \in writes[s].in.mutations
  BY RowsAre DEF SettlementFine, OnlyClaim, Linking, PayingAll, PayingPart
<1>4. pc[s] \in {"intent", "change", "link", "link_cycle", "flow", "commit"} => Claim(s)' \notin mutations'
  BY <1>1, <1>3 DEF SettlementFine, Undisturbed
<1>5. ASSUME pc[s] \in {"link", "link_cycle", "flow", "commit"}
      PROVE  /\ MayPay(s)' /\ Payment(s)' = Payment(s)
             /\ Left(s)' = Left(s) /\ Link(s)' = Link(s) /\ Linking(s)' = Linking(s)
             /\ PayingAll(s)' = PayingAll(s) /\ PayingPart(s)' = PayingPart(s)
             /\ intents'[c] = intents[c]
             /\ FlowIdFree(c, intents[c].version, Left(s))' <=> FlowIdFree(c, intents[c].version, Left(s))
  <2>1. MayPay(s) /\ SamePlan(c)
    BY <1>2, <1>5 DEF SettlementFine
  <2>2. Payment(s)' = Payment(s)
    BY <1>1, <2>1, PaymentStays DEF MayPay, Undisturbed
  <2>3. /\ intents'[c] = intents[c]
        /\ ScheduledFlows(c)' = ScheduledFlows(c)
        /\ \A outcome, transfer : FlowsEnded(c, outcome, transfer)' = FlowsEnded(c, outcome, transfer)
        /\ Remaining(c)' = Remaining(c)
    BY <2>1, SamePlanReads DEF SamePlan
  <2>4. Left(s)' = Left(s) /\ Link(s)' = Link(s)
    BY <1>1, <2>2, <2>3 DEF Left, Link
  <2>5. MayPay(s)'
    BY <1>1, <2>1, <2>2, <2>3 DEF MayPay, Undisturbed, FitsRemaining
  <2>6. FlowsEnded(c, "settled", Payment(s).id)' = FlowsEnded(c, "settled", Payment(s).id)
    BY <2>2, <2>3 DEF FlowsEnded
  <2>7. FlowsGivenUp(s)' = FlowsGivenUp(s)
    BY <1>1, <2>3 DEF FlowsGivenUp, FlowsEnded
  <2>8. Linking(s)' = Linking(s) /\ PayingAll(s)' = PayingAll(s)
    BY <1>1, <2>3, <2>4, <2>6 DEF Linking, PayingAll, Rows
  <2>9. PayingPart(s)' = PayingPart(s)
    BY <1>1, <2>3, <2>4, <2>7 DEF PayingPart, Rows, Flow
  <2>10. FlowIdFree(c, intents[c].version, Left(s))' <=> FlowIdFree(c, intents[c].version, Left(s))
    <3>1. FlowIdFree(c, intents[c].version, Left(s))'
            <=> ~ \E f \in flows' : f.cycle = c /\ f.version = intents[c].version /\ f.amount = Left(s)
      BY <1>1, <2>3, <2>4 DEF FlowIdFree
    <3>2. FlowsOf(c)' = FlowsOf(c)
      BY <2>1 DEF SamePlan
    <3>3. FlowsOf(c)' = {f \in flows' : f.cycle = c}
      BY <1>1 DEF FlowsOf
    <3> QED
      BY <3>1, <3>2, <3>3 DEF FlowsOf, FlowIdFree
  <2> QED
    BY <2>2, <2>3, <2>4, <2>5, <2>8, <2>9, <2>10
<1>6. pc[s] \in {"link_cycle", "flow", "commit"} => \A n \in settlements' : n.transfer # request[s].transfer
  <2>1. SUFFICES ASSUME pc[s] \in {"link_cycle", "flow", "commit"}
                 PROVE  \A n \in settlements' : n.transfer # request[s].transfer
    OBVIOUS
  <2>2. Link(s) \in writes[s].in.settlements
    BY <2>1, RowsAre DEF SettlementFine, Linking, PayingAll, PayingPart
  <2>3. Link(s).transfer = request[s].transfer
    BY <2>1 DEF SettlementFine, MayPay, Link
  <2>4. \A n \in settlements : n.transfer # request[s].transfer
    BY <2>1 DEF SettlementFine
  <2> QED
    BY <2>2, <2>3, <2>4 DEF Undisturbed
<1> QED
  BY <1>1, <1>2, <1>4, <1>5, <1>6 DEF SettlementFine

LEMMA StaysFine ==
  ASSUME NEW s, NEW c, c = Cycle(s), SameSession(s), Undisturbed(s, c), Fine(s)
  PROVE  Fine(s)'
BY SameSessionReads, RegistrationStaysFine, ReplacementStaysFine, CancellationStaysFine, SettlementStaysFine DEF Fine

-----------------------------------------------------------------------------
(* A statement that commits nothing *)

LEMMA NothingCommitted ==
  ASSUME NEW s, UNCHANGED vars, UNCHANGED request
  PROVE  /\ Cycle(s)' = Cycle(s) /\ Amount(s)' = Amount(s) /\ request'[s] = request[s] /\ Claim(s)' = Claim(s)
         /\ IsRegistration(s)' <=> IsRegistration(s)
         /\ IsReplacement(s)' <=> IsReplacement(s)
         /\ IsCancellation(s)' <=> IsCancellation(s)
         /\ IsSettlement(s)' <=> IsSettlement(s)
         /\ OnlyClaim(s)' = OnlyClaim(s)
         /\ Correction(s)' = Correction(s)
         /\ CorrectionAndReview(s)' = CorrectionAndReview(s)
         /\ PlanAgain(s)' = PlanAgain(s)
         /\ GivingUp(s)' = GivingUp(s)
         /\ Linking(s)' = Linking(s)
         /\ PayingAll(s)' = PayingAll(s)
         /\ PayingPart(s)' = PayingPart(s)
         /\ Left(s)' = Left(s)
         /\ MustReview(s)' <=> MustReview(s)
         /\ MayPay(s)' <=> MayPay(s)
         /\ HasIntent(Cycle(s))' <=> HasIntent(Cycle(s))
         /\ Cancellable(Cycle(s))' <=> Cancellable(Cycle(s))
         /\ ActiveStatements(Cycle(s))' = ActiveStatements(Cycle(s))
         /\ \A amount, planned : Plannable(Cycle(s), amount, planned)' <=> Plannable(Cycle(s), amount, planned)
<1>0. /\ cardStatus' = cardStatus /\ payments' = payments /\ statements' = statements /\ intents' = intents
      /\ flows' = flows /\ settlements' = settlements /\ mutations' = mutations
  BY DEF vars
<1>1. /\ Cycle(s)' = Cycle(s) /\ Amount(s)' = Amount(s) /\ Claim(s)' = Claim(s)
      /\ request'[s] = request[s]
  BY DEF Cycle, Amount, Claim
<1>2. /\ IsRegistration(s)' <=> IsRegistration(s)
      /\ IsReplacement(s)' <=> IsReplacement(s)
      /\ IsCancellation(s)' <=> IsCancellation(s)
      /\ IsSettlement(s)' <=> IsSettlement(s)
  BY DEF IsRegistration, IsReplacement, IsCancellation, IsSettlement
<1> DEFINE c == Cycle(s)
<1>3. /\ ActiveStatements(c)' = ActiveStatements(c)
      /\ (HasIntent(c)' <=> HasIntent(c)) /\ (Cancellable(c)' <=> Cancellable(c))
      /\ ScheduledFlows(c)' = ScheduledFlows(c)
      /\ SettlementsOf(c)' = SettlementsOf(c)
  BY <1>0, <1>1 DEF ActiveStatements, HasIntent, Cancellable, ScheduledFlows, IsScheduled, SettlementsOf
<1>4. /\ NextRevision(c)' = NextRevision(c)
      /\ \A amount, planned : Plannable(c, amount, planned)' <=> Plannable(c, amount, planned)
  BY <1>3 DEF NextRevision, Plannable
<1>5. Remaining(c)' = Remaining(c) /\ Payment(s)' = Payment(s)
  BY <1>0, <1>1, <1>3 DEF Remaining, SettledAmount, Payment
<1>6. FlowsGivenUp(s)' = FlowsGivenUp(s)
      /\ FlowsEnded(c, "settled", Payment(s).id)' = FlowsEnded(c, "settled", Payment(s).id)
  BY <1>3, <1>5 DEF FlowsGivenUp, FlowsEnded, EndedFlow
<1>7. Corrected(s)' = Corrected(s)
  BY <1>1, <1>3, <1>4 DEF Corrected
<1>8. /\ OnlyClaim(s)' = OnlyClaim(s)
      /\ Correction(s)' = Correction(s)
      /\ CorrectionAndReview(s)' = CorrectionAndReview(s)
  BY <1>0, <1>1, <1>3, <1>6, <1>7 DEF OnlyClaim, Correction, CorrectionAndReview, Rows
<1>9. NextVersion(c)' = NextVersion(c)
  BY <1>0, <1>1, <1>3 DEF NextVersion
<1>10. PlanAgain(s)' = PlanAgain(s) /\ GivingUp(s)' = GivingUp(s)
  BY <1>0, <1>1, <1>3, <1>6, <1>9 DEF PlanAgain, GivingUp, Rows, Flow
<1>11. Left(s)' = Left(s) /\ Link(s)' = Link(s)
  BY <1>1, <1>5 DEF Left, Link
<1>12. Linking(s)' = Linking(s) /\ PayingAll(s)' = PayingAll(s) /\ PayingPart(s)' = PayingPart(s)
  BY <1>0, <1>1, <1>3, <1>6, <1>11 DEF Linking, PayingAll, PayingPart, Rows, Flow
<1>13. /\ MustReview(s)' <=> MustReview(s)
       /\ MayPay(s)' <=> MayPay(s)
  BY <1>0, <1>1, <1>3, <1>5 DEF MustReview, Outgrown, MayPay, FitsRemaining
<1> QED
  BY <1>1, <1>2, <1>3, <1>4, <1>8, <1>10, <1>11, <1>12, <1>13

LEMMA Updated ==
  ASSUME NEW f, DOMAIN f = Sessions, NEW s \in Sessions, NEW x
  PROVE  LET g == [f EXCEPT ![s] = x] IN
         /\ DOMAIN g = Sessions /\ g = [t \in Sessions |-> g[t]]
         /\ g[s] = x /\ \A o \in Sessions \ {s} : g[o] = f[o]
OBVIOUS

\* A session is about to be at another statement, with other locks and rows.
Advances(s, next, held, found, rows) ==
  /\ pc' = [pc EXCEPT ![s] = next]
  /\ exclusive' = [exclusive EXCEPT ![s] = held]
  /\ seen' = [seen EXCEPT ![s] = found]
  /\ writes' = [writes EXCEPT ![s] = rows]
  /\ UNCHANGED request

Moves(s, next, held, found, rows) == Advances(s, next, held, found, rows) /\ UNCHANGED vars

LEMMA AdvancedSession ==
  ASSUME SessionShapes, NEW s \in Sessions, NEW next, NEW held \in SUBSET LockRows,
         NEW found \in SUBSET StatementRow, NEW rows, Advances(s, next, held, found, rows)
  PROVE  /\ SessionShapes'
         /\ pc'[s] = next /\ exclusive'[s] = held /\ seen'[s] = found /\ writes'[s] = rows
         /\ \A o \in Sessions \ {s} : SameSession(o)
<1>1. /\ pc'[s] = next /\ \A o \in Sessions \ {s} : pc'[o] = pc[o]
      /\ DOMAIN pc' = Sessions /\ pc' = [t \in Sessions |-> pc'[t]]
  BY Updated DEF Advances, SessionShapes
<1>2. /\ writes'[s] = rows /\ \A o \in Sessions \ {s} : writes'[o] = writes[o]
      /\ DOMAIN writes' = Sessions /\ writes' = [t \in Sessions |-> writes'[t]]
  BY Updated DEF Advances, SessionShapes
<1>3. /\ exclusive'[s] = held /\ seen'[s] = found
      /\ \A o \in Sessions \ {s} : exclusive'[o] = exclusive[o] /\ seen'[o] = seen[o]
      /\ exclusive' \in [Sessions -> SUBSET LockRows] /\ seen' \in [Sessions -> SUBSET StatementRow]
  BY DEF Advances, SessionShapes
<1>4. request' = request
  BY DEF Advances
<1> QED
  BY <1>1, <1>2, <1>3, <1>4 DEF SessionShapes, SameSession

LEMMA MovedSession ==
  ASSUME SessionShapes, NEW s \in Sessions, NEW next, NEW held \in SUBSET LockRows,
         NEW found \in SUBSET StatementRow, NEW rows, Moves(s, next, held, found, rows)
  PROVE  /\ SessionShapes'
         /\ pc'[s] = next /\ exclusive'[s] = held /\ seen'[s] = found /\ writes'[s] = rows
         /\ \A o \in Sessions \ {s} : SameSession(o)
BY AdvancedSession DEF Moves

LEMMA Moved ==
  ASSUME SessionShapes, NEW s \in Sessions, NEW next, NEW held, NEW found, NEW rows,
         Moves(s, next, held, found, rows)
  PROVE  pc'[s] = next /\ exclusive'[s] = held /\ seen'[s] = found /\ writes'[s] = rows
<1>1. pc'[s] = next /\ writes'[s] = rows
  BY Updated DEF Moves, Advances, SessionShapes
<1>2. exclusive'[s] = held /\ seen'[s] = found
  BY DEF Moves, Advances, SessionShapes
<1> QED
  BY <1>1, <1>2

\* A statement is fine if the session is fine after it and apart from the others.
LEMMA SessionStep ==
  ASSUME SInv, NEW s \in Sessions, NEW next, NEW held \in SUBSET LockRows,
         NEW found \in SUBSET StatementRow, NEW rows, Moves(s, next, held, found, rows),
         Fine(s)',
         \A o \in Sessions \ {s} :
           /\ held \cap exclusive[o] = {}
           /\ rows.in.mutations \cap writes[o].in.mutations = {}
           /\ \A n \in rows.in.settlements, m \in writes[o].in.settlements : n.transfer # m.transfer
  PROVE  SInv'
<1>1. /\ SessionShapes'
      /\ exclusive'[s] = held /\ writes'[s] = rows
      /\ \A o \in Sessions \ {s} : SameSession(o)
  BY MovedSession DEF SInv
<1>2. UNCHANGED vars
  BY DEF Moves, Advances
<1>3. IInv' /\ MoneyInv' /\ OpenFlowsSettleNothing'
  BY <1>2, NextPreservesIInv, NextPreservesMoneyInv DEF SInv, OpenFlowsSettleNothing, vars
<1>4. ASSUME NEW o \in Sessions \ {s}
      PROVE  Fine(o)'
  <2>1. PICK c : c = Cycle(o)
    OBVIOUS
  <2>2. SamePlan(c) /\ ActiveStatements(c)' = ActiveStatements(c)
    BY <1>2 DEF vars, SamePlan, FlowsOf, SettlementsOf, ActiveStatements
  <2>3. PaymentsAreDistinct'
    BY <1>3 DEF IInv
  <2>4. Undisturbed(o, c)
    BY <1>2, <2>2, <2>3 DEF Undisturbed, vars
  <2> QED
    BY <1>1, <2>1, <2>4, StaysFine DEF SInv
<1>5. ASSUME NEW o \in Sessions \ {s}
      PROVE  Apart(s, o)' /\ Apart(o, s)'
  <2>1. exclusive'[o] = exclusive[o] /\ writes'[o] = writes[o]
    BY <1>1 DEF SameSession
  <2> QED
    BY <1>1, <2>1 DEF Apart
<1>6. ASSUME NEW o \in Sessions \ {s}, NEW p \in Sessions \ {s}, o # p
      PROVE  Apart(o, p)'
  <2>1. Apart(o, p)
    BY <1>6 DEF SInv
  <2> QED
    BY <1>1, <2>1 DEF Apart, SameSession
<1> QED
  BY <1>1, <1>3, <1>4, <1>5, <1>6 DEF SInv

\* The parts of a session that a statement leaves alone.
LEMMA Unmoved ==
  ASSUME SInv, NEW s \in Sessions
  PROVE  /\ exclusive = [exclusive EXCEPT ![s] = exclusive[s]] /\ exclusive[s] \in SUBSET LockRows
         /\ seen = [seen EXCEPT ![s] = seen[s]] /\ seen[s] \in SUBSET StatementRow
         /\ writes = [writes EXCEPT ![s] = writes[s]]
         /\ \A o \in Sessions \ {s} : Apart(s, o)
<1>1. writes = [t \in Sessions |-> writes[t]] /\ DOMAIN writes = Sessions
  BY DEF SInv, SessionShapes
<1>2. writes = [writes EXCEPT ![s] = writes[s]]
  BY <1>1
<1> QED
  BY <1>2 DEF SInv, SessionShapes

LEMMA WaitsAre ==
  ASSUME NEW s
  PROVE  /\ pc[s] = "account" => WaitsFor(s) = ExclusiveBlockers(s, AccountRow(CardOf[Cycle(s)]))
         /\ pc[s] = "claim" => WaitsFor(s) = KeyBlockers(s)
         /\ pc[s] = "cycle" => WaitsFor(s) = ExclusiveBlockers(s, CycleRow(Cycle(s)))
         /\ pc[s] \in {"intent", "review_intent"} => WaitsFor(s) = ExclusiveBlockers(s, PlanRow(Cycle(s)))
         /\ pc[s] = "link" => WaitsFor(s) = TransferBlockers(s)
BY DEF WaitsFor

\* A transaction that ends without a commit.
LEMMA EndKeepsSInv ==
  ASSUME SInv, NEW s \in Sessions, NEW outcome \in Ended, EndUnchanged(s, outcome)
  PROVE  SInv' /\ UNCHANGED vars
<1>1. UNCHANGED vars
  BY DEF EndUnchanged, committed
<1>2. /\ pc' = [pc EXCEPT ![s] = outcome] /\ exclusive' = [exclusive EXCEPT ![s] = {}]
      /\ writes' = [writes EXCEPT ![s] = NoWrites]
      /\ request' = request /\ seen' = seen
  BY DEF EndUnchanged, End, Goto
<1>3. Moves(s, outcome, {}, seen[s], NoWrites)
  BY <1>1, <1>2, Unmoved DEF Moves, Advances
<1>4. pc'[s] = outcome /\ {} \in SUBSET LockRows /\ seen[s] \in SUBSET StatementRow
  BY <1>3, Unmoved, MovedSession DEF SInv
<1>5. Fine(s)'
  BY <1>4 DEF Fine, RegistrationFine, ReplacementFine, CancellationFine, SettlementFine, Ended
<1>6. NoWrites.in.mutations = {} /\ NoWrites.in.settlements = {}
  BY NoRows, RowsAre
<1> QED
  BY <1>1, <1>3, <1>4, <1>5, <1>6, SessionStep

\* Statements that change no rows of the transaction.
LEMMA OnlyGoes ==
  ASSUME SInv, NEW s \in Sessions, NEW next, NEW found \in SUBSET StatementRow,
         Moves(s, next, exclusive[s], found, writes[s]), Fine(s)'
  PROVE  SInv' /\ UNCHANGED vars
<1>1. \A o \in Sessions \ {s} :
        /\ exclusive[s] \cap exclusive[o] = {}
        /\ writes[s].in.mutations \cap writes[o].in.mutations = {}
        /\ \A n \in writes[s].in.settlements, m \in writes[o].in.settlements : n.transfer # m.transfer
  BY DEF SInv, Apart
<1>2. exclusive[s] \in SUBSET LockRows
  BY Unmoved
<1>3. SInv'
  BY <1>1, <1>2, SessionStep
<1> QED
  BY <1>3 DEF Moves, Advances

\* A lock is granted: nobody else holds the row.
LEMMA Granted ==
  ASSUME SInv, NEW s \in Sessions, NEW next, NEW row \in LockRows, NEW found \in SUBSET StatementRow,
         ExclusiveBlockers(s, row) = {}, NEW rows,
         rows.in.mutations = writes[s].in.mutations, rows.in.settlements = writes[s].in.settlements,
         Moves(s, next, exclusive[s] \cup {row}, found, rows), Fine(s)'
  PROVE  SInv' /\ UNCHANGED vars
<1>1. exclusive[s] \cup {row} \in SUBSET LockRows
  BY Unmoved
<1>2. \A o \in Sessions \ {s} :
        /\ (exclusive[s] \cup {row}) \cap exclusive[o] = {}
        /\ writes[s].in.mutations \cap writes[o].in.mutations = {}
        /\ \A n \in writes[s].in.settlements, m \in writes[o].in.settlements : n.transfer # m.transfer
  BY DEF SInv, Apart, ExclusiveBlockers
<1>3. SInv'
  BY <1>1, <1>2, SessionStep
<1> QED
  BY <1>3 DEF Moves, Advances

LEMMA LockableRows ==
  ASSUME SessionShapes, NEW s \in Sessions
  PROVE  /\ AccountRow(CardOf[Cycle(s)]) \in LockRows
         /\ CycleRow(Cycle(s)) \in LockRows
         /\ PlanRow(Cycle(s)) \in LockRows
BY RequestsAre DEF LockRows, AccountRow, CycleRow, PlanRow

LEMMA BeginKeeps ==
  ASSUME SInv, NEW s \in Sessions, Begin(s)
  PROVE  SInv' /\ UNCHANGED vars
<1> DEFINE next == FirstStatement(request[s])
<1>1. Moves(s, next, exclusive[s], seen[s], writes[s]) /\ pc[s] = "idle"
  BY Unmoved DEF Begin, Goto, Moves, Advances, committed, locks
<1>2. /\ pc'[s] = next /\ exclusive'[s] = exclusive[s] /\ writes'[s] = writes[s]
      /\ exclusive[s] \in SUBSET LockRows /\ seen[s] \in SUBSET StatementRow
  BY <1>1, Unmoved, MovedSession DEF SInv
<1>3. /\ IsRegistration(s) => next = "account"
      /\ IsReplacement(s) => next = "read"
      /\ IsCancellation(s) => next = "intent"
      /\ IsSettlement(s) => next = "claim"
  BY DEF FirstStatement, IsRegistration, IsReplacement, IsCancellation, IsSettlement
<1>4. writes[s] = NoWrites
  <2>1. Fine(s)
    BY DEF SInv
  <2> QED
    BY <1>1, <2>1, RequestsAre DEF SInv, Fine, RegistrationFine, ReplacementFine, CancellationFine, SettlementFine
<1> HIDE DEF next
<1>5. /\ IsRegistration(s)' <=> IsRegistration(s)
      /\ IsReplacement(s)' <=> IsReplacement(s)
      /\ IsCancellation(s)' <=> IsCancellation(s)
      /\ IsSettlement(s)' <=> IsSettlement(s)
  BY <1>1, NothingCommitted DEF Moves, Advances
<1>6. Fine(s)'
  BY <1>2, <1>3, <1>4, <1>5
  DEF Fine, RegistrationFine, ReplacementFine, CancellationFine, SettlementFine
<1> QED
  BY <1>1, <1>2, <1>6, OnlyGoes

LEMMA WritesOfPlan ==
  ASSUME NEW s, NEW x, NEW y, NEW z, IntentWrites(s, x, y, z)
  PROVE  writes' = [writes EXCEPT ![s] = WithPlan(writes[s], x, y, z)]
BY DEF IntentWrites, WithPlan

LEMMA LockAccountKeeps ==
  ASSUME SInv, NEW s \in Sessions, LockAccount(s)
  PROVE  SInv' /\ UNCHANGED vars
<1> DEFINE row == AccountRow(CardOf[Cycle(s)])
<1>1. pc[s] = "account" /\ ExclusiveBlockers(s, row) = {}
  BY WaitsAre DEF LockAccount, Ready
<1>2. IsRegistration(s) /\ RegistrationFine(s)
  <2>1. Fine(s)
    BY DEF SInv
  <2> QED
    BY <1>1, <2>1, RequestsAre DEF SInv, Fine, ReplacementFine, CancellationFine, SettlementFine, Ended
<1>3. CASE cardStatus[CardOf[Cycle(s)]] = "active"
  <2>0. PICK held : held = exclusive[s] \cup {row}
    OBVIOUS
  <2>1. Moves(s, "claim", held, seen[s], writes[s])
    BY <1>3, <2>0, Unmoved DEF LockAccount, Take, Goto, Moves, Advances, committed
  <2>2. row \in LockRows /\ held \in SUBSET LockRows /\ seen[s] \in SUBSET StatementRow
    BY <2>0, LockableRows, Unmoved DEF SInv
  <2>3. pc'[s] = "claim" /\ exclusive'[s] = held /\ writes'[s] = writes[s]
    BY <2>1, <2>2, MovedSession DEF SInv
  <2>4. /\ Cycle(s)' = Cycle(s) /\ (IsRegistration(s)' <=> IsRegistration(s))
        /\ cardStatus' = cardStatus
    BY <2>1, NothingCommitted DEF Moves, Advances, vars
  <2>5. RegistrationFine(s)'
    BY <1>1, <1>2, <1>3, <2>0, <2>3, <2>4 DEF RegistrationFine, AccountHeld, AccountRow
  <2>6. Fine(s)'
    BY <1>2, <2>4, <2>5, OneOperation DEF Fine, IsRegistration, IsReplacement, IsCancellation, IsSettlement
  <2> QED
    BY <1>1, <2>0, <2>1, <2>2, <2>6, Granted
<1>4. CASE cardStatus[CardOf[Cycle(s)]] # "active"
  BY <1>4, EndKeepsSInv DEF LockAccount, Ended
<1> QED
  BY <1>3, <1>4

LEMMA ClaimKeeps ==
  ASSUME SInv, NEW s \in Sessions, ClaimMutation(s)
  PROVE  SInv' /\ UNCHANGED vars
<1>1. pc[s] = "claim" /\ KeyBlockers(s) = {}
  BY WaitsAre DEF ClaimMutation, Ready
<1>2. (IsRegistration(s) /\ RegistrationFine(s)) \/ (IsSettlement(s) /\ SettlementFine(s))
  <2>1. Fine(s)
    BY DEF SInv
  <2> QED
    BY <1>1, <2>1, RequestsAre DEF SInv, Fine, ReplacementFine, CancellationFine, Ended
<1>3. CASE Claim(s) \in mutations
  BY <1>3, EndKeepsSInv DEF ClaimMutation, Claim, Ended
<1>4. CASE Claim(s) \notin mutations
  <2> DEFINE next == IF IsRegistration(s) THEN "cycle" ELSE "intent"
             rows == OnlyClaim(s)
  <2>1. writes[s] = Rows({}, {}, {}, {}, {}, {}, {})
    BY <1>1, <1>2, NoRows DEF RegistrationFine, SettlementFine
  <2>2. writes' = [writes EXCEPT ![s] = WithClaim(writes[s], {Claim(s)})]
    BY <1>4 DEF ClaimMutation, Claim, WithClaim
  <2>3. WithClaim(writes[s], {Claim(s)}) = rows
    BY <2>1, RowsWith DEF OnlyClaim
  <2>4. Moves(s, next, exclusive[s], seen[s], rows)
    <3>1. UNCHANGED <<committed, locks, request, seen>> /\ pc' = [pc EXCEPT ![s] = next]
      BY <1>4 DEF ClaimMutation, Claim, Goto, IsRegistration
    <3> QED
      BY <2>2, <2>3, <3>1, Unmoved DEF Moves, Advances, committed, locks
  <2>5. exclusive[s] \in SUBSET LockRows /\ seen[s] \in SUBSET StatementRow
    BY Unmoved
  <2>6. pc'[s] = next /\ exclusive'[s] = exclusive[s] /\ writes'[s] = rows
    BY <2>4, <2>5, MovedSession DEF SInv
  <2>7. /\ Cycle(s)' = Cycle(s) /\ Claim(s)' = Claim(s) /\ OnlyClaim(s)' = OnlyClaim(s)
        /\ (IsRegistration(s)' <=> IsRegistration(s)) /\ (IsSettlement(s)' <=> IsSettlement(s))
        /\ (IsReplacement(s)' <=> IsReplacement(s)) /\ (IsCancellation(s)' <=> IsCancellation(s))
        /\ cardStatus' = cardStatus /\ mutations' = mutations
    BY <2>4, NothingCommitted DEF Moves, Advances, vars
  <2>8. ASSUME IsRegistration(s) PROVE Fine(s)'
    <3>1. RegistrationFine(s)'
      BY <1>1, <1>2, <1>4, <2>6, <2>7, <2>8, OneOperation DEF RegistrationFine, AccountHeld, AccountRow
    <3> QED
      BY <2>7, <2>8, <3>1, OneOperation DEF Fine
  <2>9. ASSUME IsSettlement(s) PROVE Fine(s)'
    <3>1. SettlementFine(s)'
      BY <1>1, <1>2, <1>4, <2>6, <2>7, <2>9, OneOperation DEF SettlementFine
    <3> QED
      BY <2>7, <2>9, <3>1, OneOperation DEF Fine
  <2>10. Fine(s)'
    BY <1>2, <2>8, <2>9
  <2>11. rows.in.mutations = {Claim(s)} /\ rows.in.settlements = {}
    BY RowsAre DEF OnlyClaim
  <2>12. \A o \in Sessions \ {s} :
           /\ exclusive[s] \cap exclusive[o] = {}
           /\ Claim(s) \notin writes[o].in.mutations
    BY <1>1 DEF SInv, Apart, KeyBlockers, Claim
  <2> HIDE DEF next, rows
  <2>13. SInv'
    BY <2>4, <2>5, <2>10, <2>11, <2>12, SessionStep
  <2> QED
    BY <2>4, <2>13 DEF Moves, Advances
<1> QED
  BY <1>3, <1>4

LEMMA LockCycleKeeps ==
  ASSUME SInv, NEW s \in Sessions, LockCycle(s)
  PROVE  SInv' /\ UNCHANGED vars
<1> DEFINE row == CycleRow(Cycle(s))
<1>1. pc[s] = "cycle" /\ ExclusiveBlockers(s, row) = {}
  BY WaitsAre DEF LockCycle, Ready
<1>2. (IsRegistration(s) /\ RegistrationFine(s)) \/ (IsReplacement(s) /\ ReplacementFine(s))
  <2>1. Fine(s)
    BY DEF SInv
  <2> QED
    BY <1>1, <2>1, RequestsAre DEF SInv, Fine, CancellationFine, SettlementFine, Ended
<1>3. CASE IsReplacement(s) /\ seen[s] \cap ActiveStatements(Cycle(s)) = {}
  BY <1>3, EndKeepsSInv DEF LockCycle, IsReplacement, Ended
<1>4. CASE ~ (IsReplacement(s) /\ seen[s] \cap ActiveStatements(Cycle(s)) = {})
  <2> DEFINE next == IF IsReplacement(s) THEN "validate" ELSE "statement"
  <2>0. PICK held : held = exclusive[s] \cup {row}
    OBVIOUS
  <2>1. Moves(s, next, held, seen[s], writes[s])
    <3>1. /\ exclusive' = [exclusive EXCEPT ![s] = held] /\ pc' = [pc EXCEPT ![s] = next]
          /\ UNCHANGED <<committed, shared, request, seen, writes>>
      BY <1>4, <2>0 DEF LockCycle, Take, Goto, IsReplacement
    <3> QED
      BY <3>1, Unmoved DEF Moves, Advances, committed
  <2>2. row \in LockRows /\ held \in SUBSET LockRows /\ seen[s] \in SUBSET StatementRow
    BY <2>0, LockableRows, Unmoved DEF SInv
  <2>3. /\ pc'[s] = next /\ exclusive'[s] = held /\ writes'[s] = writes[s]
        /\ seen'[s] = seen[s]
    BY <2>1, <2>2, MovedSession DEF SInv
  <2>4. /\ Cycle(s)' = Cycle(s) /\ Claim(s)' = Claim(s) /\ OnlyClaim(s)' = OnlyClaim(s)
        /\ (IsRegistration(s)' <=> IsRegistration(s)) /\ (IsSettlement(s)' <=> IsSettlement(s))
        /\ (IsReplacement(s)' <=> IsReplacement(s)) /\ (IsCancellation(s)' <=> IsCancellation(s))
        /\ ActiveStatements(Cycle(s))' = ActiveStatements(Cycle(s))
        /\ cardStatus' = cardStatus /\ mutations' = mutations
    BY <2>1, NothingCommitted DEF Moves, Advances, vars
  <2>5. ASSUME IsRegistration(s) PROVE Fine(s)'
    <3>1. RegistrationFine(s)'
      BY <1>1, <1>2, <2>0, <2>3, <2>4, <2>5, OneOperation
      DEF RegistrationFine, AccountHeld, AccountRow, CycleHeld, CycleRow
    <3> QED
      BY <2>4, <2>5, <3>1, OneOperation DEF Fine
  <2>6. ASSUME IsReplacement(s) PROVE Fine(s)'
    <3>1. seen[s] \subseteq ActiveStatements(Cycle(s))
      BY <1>1, <1>2, <1>4, <2>6, OneOperation DEF ReplacementFine
    <3>2. ReplacementFine(s)'
      BY <1>1, <1>2, <2>0, <2>3, <2>4, <2>6, <3>1, OneOperation DEF ReplacementFine, CycleHeld, CycleRow
    <3> QED
      BY <2>4, <2>6, <3>2, OneOperation DEF Fine
  <2>7. Fine(s)'
    BY <1>2, <2>5, <2>6
  <2> HIDE DEF next, row
  <2> QED
    BY <1>1, <2>0, <2>1, <2>2, <2>7, Granted
<1> QED
  BY <1>3, <1>4

LEMMA InsertStatementKeeps ==
  ASSUME SInv, NEW s \in Sessions, InsertStatement(s)
  PROVE  SInv' /\ UNCHANGED vars
<1>1. pc[s] = "statement"
  BY DEF InsertStatement, Ready
<1>2. IsRegistration(s) /\ RegistrationFine(s)
  <2>1. Fine(s)
    BY DEF SInv
  <2> QED
    BY <1>1, <2>1, RequestsAre DEF SInv, Fine, ReplacementFine, CancellationFine, SettlementFine, Ended
<1>3. CASE \E p \in ActiveStatements(Cycle(s)) : ~ MayReplace(p, request[s].authority)
  BY <1>3, EndKeepsSInv DEF InsertStatement, Cycle, Ended
<1>4. CASE ~ \E p \in ActiveStatements(Cycle(s)) : ~ MayReplace(p, request[s].authority)
  <2> DEFINE next == IF MustReview(s) THEN "review_intent" ELSE "commit"
             rows == Correction(s)
             c == Cycle(s)
  <2>1. writes[s] = OnlyClaim(s)
    BY <1>1, <1>2 DEF RegistrationFine
  <2>2. writes' = [writes EXCEPT ![s] = WithStatements(writes[s], ActiveStatements(c), Corrected(s))]
    BY <1>4 DEF InsertStatement, Cycle, Corrected, WithStatements
  <2>3. WithStatements(writes[s], ActiveStatements(c), Corrected(s)) = rows
    BY <2>1, RowsWithStatements DEF OnlyClaim, Correction
  <2>4. Moves(s, next, exclusive[s], seen[s], rows)
    <3>1. UNCHANGED <<committed, locks, request, seen>> /\ pc' = [pc EXCEPT ![s] = next]
      BY <1>4 DEF InsertStatement, Cycle, Goto
    <3> QED
      BY <2>2, <2>3, <3>1, Unmoved DEF Moves, Advances, committed, locks
  <2>5. exclusive[s] \in SUBSET LockRows /\ seen[s] \in SUBSET StatementRow
    BY Unmoved
  <2>6. pc'[s] = next /\ exclusive'[s] = exclusive[s] /\ writes'[s] = rows
    BY <2>4, <2>5, MovedSession DEF SInv
  <2>7. /\ Cycle(s)' = c /\ Claim(s)' = Claim(s) /\ Correction(s)' = Correction(s) /\ request'[s] = request[s]
        /\ (IsRegistration(s)' <=> IsRegistration(s)) /\ (IsSettlement(s)' <=> IsSettlement(s))
        /\ (IsReplacement(s)' <=> IsReplacement(s)) /\ (IsCancellation(s)' <=> IsCancellation(s))
        /\ ActiveStatements(c)' = ActiveStatements(c) /\ (MustReview(s)' <=> MustReview(s))
        /\ cardStatus' = cardStatus /\ mutations' = mutations
    BY <2>4, NothingCommitted DEF Moves, Advances, vars
  <2>8. RegistrationFine(s)'
    BY <1>1, <1>2, <1>4, <2>6, <2>7
    DEF RegistrationFine, AccountHeld, AccountRow, CycleHeld, CycleRow, MayReplace
  <2>9. Fine(s)'
    BY <1>2, <2>7, <2>8, OneOperation DEF Fine
  <2>10. rows.in.mutations = {Claim(s)} /\ rows.in.settlements = {} /\ writes[s].in.mutations = {Claim(s)}
    BY <2>1, RowsAre DEF Correction, OnlyClaim
  <2>11. \A o \in Sessions \ {s} :
           /\ exclusive[s] \cap exclusive[o] = {}
           /\ rows.in.mutations \cap writes[o].in.mutations = {}
    BY <2>10 DEF SInv, Apart
  <2> HIDE DEF next, rows
  <2>12. SInv'
    BY <2>4, <2>5, <2>9, <2>10, <2>11, SessionStep
  <2> QED
    BY <2>4, <2>12 DEF Moves, Advances
<1> QED
  BY <1>3, <1>4

LEMMA ReviewKeeps ==
  ASSUME SInv, NEW s \in Sessions, ReviewIntent(s)
  PROVE  SInv' /\ UNCHANGED vars
<1> DEFINE row == PlanRow(Cycle(s))
           c == Cycle(s)
<1>1. pc[s] = "review_intent" /\ ExclusiveBlockers(s, row) = {}
  BY WaitsAre DEF ReviewIntent, Ready
<1>2. IsRegistration(s) /\ RegistrationFine(s)
  <2>1. Fine(s)
    BY DEF SInv
  <2> QED
    BY <1>1, <2>1, RequestsAre DEF SInv, Fine, ReplacementFine, CancellationFine, SettlementFine, Ended
<1>3. writes[s] = Correction(s) /\ seen[s] \in SUBSET StatementRow /\ exclusive[s] \in SUBSET LockRows /\ row \in LockRows
  BY <1>1, <1>2, Unmoved, LockableRows DEF RegistrationFine, SInv
<1>4. CASE MustReview(s)
  <2> DEFINE rows == CorrectionAndReview(s)
  <2>1. writes' = [writes EXCEPT ![s] = WithPlan(writes[s], {[intents[c] EXCEPT !.status = "needs_review"]},
                                                 ScheduledFlows(c), FlowsGivenUp(s))]
    BY <1>4, WritesOfPlan DEF ReviewIntent, FlowsGivenUp
  <2>2. WithPlan(writes[s], {[intents[c] EXCEPT !.status = "needs_review"]},
                 ScheduledFlows(c), FlowsGivenUp(s)) = rows
    BY <1>3, RowsWith DEF Correction, CorrectionAndReview
  <2>0. PICK held : held = exclusive[s] \cup {row} /\ held \in SUBSET LockRows
    BY <1>3
  <2>3. Moves(s, "commit", held, seen[s], rows)
    BY <1>4, <2>0, <2>1, <2>2, Unmoved DEF ReviewIntent, Take, Goto, Moves, Advances, committed
  <2>4. pc'[s] = "commit" /\ exclusive'[s] = held /\ writes'[s] = rows
    BY <1>3, <2>0, <2>3, MovedSession DEF SInv
  <2>5. /\ Cycle(s)' = c /\ Claim(s)' = Claim(s) /\ request'[s] = request[s]
        /\ CorrectionAndReview(s)' = CorrectionAndReview(s)
        /\ (IsRegistration(s)' <=> IsRegistration(s)) /\ (IsSettlement(s)' <=> IsSettlement(s))
        /\ (IsReplacement(s)' <=> IsReplacement(s)) /\ (IsCancellation(s)' <=> IsCancellation(s))
        /\ ActiveStatements(c)' = ActiveStatements(c) /\ (MustReview(s)' <=> MustReview(s))
        /\ (HasIntent(c)' <=> HasIntent(c))
        /\ cardStatus' = cardStatus /\ mutations' = mutations
    BY <2>3, NothingCommitted DEF Moves, Advances, vars
  <2>6. PlanHeld(s)'
    BY <1>4, <2>0, <2>4, <2>5 DEF PlanHeld, PlanRow, MustReview, Outgrown
  <2>7. RegistrationFine(s)'
    BY <1>1, <1>2, <1>4, <2>0, <2>4, <2>5, <2>6
    DEF RegistrationFine, AccountHeld, AccountRow, CycleHeld, CycleRow, MayReplace
  <2>8. Fine(s)'
    BY <1>2, <2>5, <2>7, OneOperation DEF Fine
  <2>9. /\ rows.in.mutations = writes[s].in.mutations
        /\ rows.in.settlements = writes[s].in.settlements
    BY <1>3, RowsAre DEF Correction, CorrectionAndReview
  <2> HIDE DEF rows, row
  <2> QED
    BY <1>1, <1>3, <2>0, <2>3, <2>8, <2>9, Granted
<1>5. CASE ~ MustReview(s)
  <2>1. Moves(s, "commit", exclusive[s], seen[s], writes[s])
    BY <1>5, Unmoved DEF ReviewIntent, Goto, Moves, Advances, committed
  <2>2. pc'[s] = "commit" /\ exclusive'[s] = exclusive[s] /\ writes'[s] = writes[s]
    BY <1>3, <2>1, MovedSession DEF SInv
  <2>3. /\ Cycle(s)' = c /\ Claim(s)' = Claim(s) /\ request'[s] = request[s]
        /\ Correction(s)' = Correction(s)
        /\ (IsRegistration(s)' <=> IsRegistration(s)) /\ (IsSettlement(s)' <=> IsSettlement(s))
        /\ (IsReplacement(s)' <=> IsReplacement(s)) /\ (IsCancellation(s)' <=> IsCancellation(s))
        /\ ActiveStatements(c)' = ActiveStatements(c) /\ (MustReview(s)' <=> MustReview(s))
        /\ cardStatus' = cardStatus /\ mutations' = mutations
    BY <2>1, NothingCommitted DEF Moves, Advances, vars
  <2>4. RegistrationFine(s)'
    BY <1>1, <1>2, <1>3, <1>5, <2>2, <2>3
    DEF RegistrationFine, AccountHeld, AccountRow, CycleHeld, CycleRow, MayReplace
  <2>5. Fine(s)'
    BY <1>2, <2>3, <2>4, OneOperation DEF Fine
  <2> QED
    BY <1>3, <2>1, <2>5, OnlyGoes
<1> QED
  BY <1>4, <1>5

-----------------------------------------------------------------------------
(* Replacing and cancelling *)

\* What a request reads of a plan it may replace, when nothing is committed.
LEMMA NothingCommittedOfPlan ==
  ASSUME NEW s, UNCHANGED vars, UNCHANGED request, exclusive[s] \subseteq exclusive'[s]
  PROVE  /\ CycleHeld(s) => CycleHeld(s)'
         /\ PlanHeld(s) => PlanHeld(s)'
         /\ MayPlanAgain(s) => MayPlanAgain(s)'
<1>1. PICK c : c = Cycle(s)
  OBVIOUS
<1>2. SamePlan(c)
  BY DEF vars, SamePlan, FlowsOf, SettlementsOf
<1>3. Cycle(s)' = c /\ Amount(s)' = Amount(s) /\ request'[s] = request[s]
  BY <1>1, NothingCommitted
<1>4. /\ intents'[c] = intents[c] /\ (HasIntent(c)' <=> HasIntent(c))
      /\ SettledAmount(c)' = SettledAmount(c) /\ NextVersion(c)' = NextVersion(c) /\ flows' = flows
  BY <1>2, SamePlanReads DEF vars
<1>5. (CycleHeld(s) => CycleHeld(s)') /\ (PlanHeld(s) => PlanHeld(s)')
  BY <1>1, <1>3, <1>4 DEF CycleHeld, CycleRow, PlanHeld, PlanRow
<1>6. FlowIdFree(c, NextVersion(c), Amount(s))' <=> FlowIdFree(c, NextVersion(c), Amount(s))
  BY <1>1, <1>3, <1>4 DEF FlowIdFree
<1>7. IsPlanned(c, Amount(s), request[s].planned)' <=> IsPlanned(c, Amount(s), request[s].planned)
  BY <1>1, <1>3, <1>4 DEF IsPlanned
<1> QED
  BY <1>1, <1>3, <1>4, <1>5, <1>6, <1>7 DEF MayPlanAgain

LEMMA LockIntentKeeps ==
  ASSUME SInv, NEW s \in Sessions, LockIntent(s)
  PROVE  SInv' /\ UNCHANGED vars
<1> DEFINE row == PlanRow(Cycle(s))
           c == Cycle(s)
<1>1. pc[s] = "intent" /\ ExclusiveBlockers(s, row) = {}
  BY WaitsAre DEF LockIntent, Ready
<1>2. \/ IsReplacement(s) /\ ReplacementFine(s)
      \/ IsCancellation(s) /\ CancellationFine(s)
      \/ IsSettlement(s) /\ SettlementFine(s)
  <2>1. Fine(s)
    BY DEF SInv
  <2> QED
    BY <1>1, <2>1, RequestsAre DEF SInv, Fine, RegistrationFine, Ended
<1>3. seen[s] \in SUBSET StatementRow /\ exclusive[s] \in SUBSET LockRows /\ row \in LockRows
  BY Unmoved, LockableRows DEF SInv
<1>4. ASSUME HasIntent(c)
      PROVE  SInv' /\ UNCHANGED vars
  <2>0. PICK held : held = exclusive[s] \cup {row} /\ held \in SUBSET LockRows
    BY <1>3
  <2>1. Moves(s, "change", held, seen[s], writes[s])
    <3>1. /\ exclusive' = [exclusive EXCEPT ![s] = held] /\ pc' = [pc EXCEPT ![s] = "change"]
          /\ UNCHANGED <<committed, shared, request, seen, writes>>
      BY <1>4, <2>0 DEF LockIntent, Take, Goto
    <3>2. /\ writes = [writes EXCEPT ![s] = writes[s]] /\ seen = [seen EXCEPT ![s] = seen[s]]
          /\ exclusive = [exclusive EXCEPT ![s] = exclusive[s]]
      BY Unmoved
    <3> QED
      BY <3>1, <3>2 DEF Moves, Advances, committed
  <2>2. pc'[s] = "change" /\ exclusive'[s] = held /\ writes'[s] = writes[s]
    BY <2>1, Moved DEF SInv
  <2>3. /\ Cycle(s)' = c /\ Claim(s)' = Claim(s) /\ OnlyClaim(s)' = OnlyClaim(s) /\ Amount(s)' = Amount(s)
        /\ request'[s] = request[s]
        /\ (IsRegistration(s)' <=> IsRegistration(s)) /\ (IsSettlement(s)' <=> IsSettlement(s))
        /\ (IsReplacement(s)' <=> IsReplacement(s)) /\ (IsCancellation(s)' <=> IsCancellation(s))
        /\ (HasIntent(c)' <=> HasIntent(c))
        /\ Plannable(c, Amount(s), request[s].planned)' <=> Plannable(c, Amount(s), request[s].planned)
        /\ mutations' = mutations
    <3>1. UNCHANGED vars /\ UNCHANGED request
      BY <2>1 DEF Moves, Advances
    <3>2. Plannable(c, Amount(s), request[s].planned)' <=> Plannable(c, Amount(s), request[s].planned)
      BY <3>1, NothingCommitted DEF Plannable
    <3> QED
      BY <3>1, <3>2, NothingCommitted DEF vars
  <2>4. PlanHeld(s)' /\ (CycleHeld(s) => CycleHeld(s)')
    BY <1>4, <2>0, <2>2, <2>3 DEF PlanHeld, PlanRow, CycleHeld, CycleRow
  <2>5. IsReplacement(s) => ReplacementFine(s)'
    BY <1>1, <1>2, <2>2, <2>3, <2>4, OneOperation DEF ReplacementFine
  <2>6. IsCancellation(s) => CancellationFine(s)'
    BY <1>1, <1>2, <2>2, <2>3, <2>4, OneOperation DEF CancellationFine
  <2>7. IsSettlement(s) => SettlementFine(s)'
    BY <1>1, <1>2, <2>2, <2>3, <2>4, OneOperation DEF SettlementFine
  <2>8. Fine(s)'
    BY <1>2, <2>3, <2>5, <2>6, <2>7, OneOperation DEF Fine
  <2> QED
    BY <1>1, <1>3, <2>0, <2>1, <2>8, Granted
<1>5. ASSUME ~ HasIntent(c), IsReplacement(s)
      PROVE  SInv' /\ UNCHANGED vars
  <2>1. Moves(s, "first_intent", exclusive[s], seen[s], writes[s])
    BY <1>5, Unmoved DEF LockIntent, Goto, Moves, Advances, committed, locks, IsReplacement
  <2>2. pc'[s] = "first_intent" /\ exclusive'[s] = exclusive[s] /\ writes'[s] = writes[s]
    BY <2>1, Moved DEF SInv
  <2>3. UNCHANGED vars /\ UNCHANGED request
    BY <2>1 DEF Moves, Advances
  <2>4. Plannable(c, Amount(s), request[s].planned)' <=> Plannable(c, Amount(s), request[s].planned)
    BY <2>3, NothingCommitted DEF Plannable
  <2>5. CycleHeld(s) => CycleHeld(s)'
    BY <2>2, <2>3, NothingCommittedOfPlan
  <2>6. ReplacementFine(s)'
    BY <1>1, <1>2, <1>5, <2>2, <2>3, <2>4, <2>5, NothingCommitted, OneOperation DEF ReplacementFine
  <2>7. Fine(s)'
    BY <1>5, <2>3, <2>6, NothingCommitted, OneOperation DEF Fine
  <2> QED
    BY <1>3, <2>1, <2>7, OnlyGoes
<1>6. ASSUME ~ HasIntent(c), ~ IsReplacement(s)
      PROVE  SInv' /\ UNCHANGED vars
  BY <1>6, EndKeepsSInv DEF LockIntent, IsReplacement, Ended
<1> QED
  BY <1>4, <1>5, <1>6

LEMMA ReadStatementKeeps ==
  ASSUME SInv, NEW s \in Sessions, ReadStatement(s)
  PROVE  SInv' /\ UNCHANGED vars
<1> DEFINE c == Cycle(s)
<1>1. pc[s] = "read"
  BY DEF ReadStatement, Ready
<1>2. IsReplacement(s) /\ ReplacementFine(s)
  <2>1. Fine(s)
    BY DEF SInv
  <2> QED
    BY <1>1, <2>1, RequestsAre DEF SInv, Fine, RegistrationFine, CancellationFine, SettlementFine, Ended
<1>3. CASE ActiveStatements(c) = {}
  BY <1>3, EndKeepsSInv DEF ReadStatement, Ended
<1>4. CASE ActiveStatements(c) # {}
  <2>1. PICK found : found = ActiveStatements(c)
    OBVIOUS
  <2>2. found \in SUBSET StatementRow /\ \E u \in found : found = {u}
    <3>1. c \in Cycles /\ LatestIsInForce(c) /\ statements \subseteq StatementRow
      BY RequestsAre DEF SInv, IInv, StatementInv, RowTypes
    <3> QED
      BY <1>4, <2>1, <3>1 DEF LatestIsInForce, ActiveStatements
  <2>3. Moves(s, "cycle", exclusive[s], found, writes[s])
    <3>1. /\ seen' = [seen EXCEPT ![s] = found] /\ pc' = [pc EXCEPT ![s] = "cycle"]
          /\ UNCHANGED <<committed, locks, request, writes>>
      BY <1>4, <2>1 DEF ReadStatement, Goto
    <3>2. /\ writes = [writes EXCEPT ![s] = writes[s]] /\ seen = [seen EXCEPT ![s] = seen[s]]
          /\ exclusive = [exclusive EXCEPT ![s] = exclusive[s]]
      BY Unmoved
    <3> QED
      BY <3>1, <3>2 DEF Moves, Advances, committed, locks
  <2>4. pc'[s] = "cycle" /\ writes'[s] = writes[s] /\ seen'[s] = found
    BY <2>3, Moved DEF SInv
  <2>5. UNCHANGED vars /\ UNCHANGED request
    BY <2>3 DEF Moves, Advances
  <2>6. ReplacementFine(s)'
    BY <1>1, <1>2, <2>2, <2>4 DEF ReplacementFine
  <2>7. Fine(s)'
    BY <1>2, <2>5, <2>6, NothingCommitted, OneOperation DEF Fine
  <2> QED
    BY <2>2, <2>3, <2>7, OnlyGoes
<1> QED
  BY <1>3, <1>4

LEMMA ValidateKeeps ==
  ASSUME SInv, NEW s \in Sessions, Validate(s)
  PROVE  SInv' /\ UNCHANGED vars
<1> DEFINE c == Cycle(s)
<1>1. pc[s] = "validate"
  BY DEF Validate, Ready
<1>2. IsReplacement(s) /\ ReplacementFine(s)
  <2>1. Fine(s)
    BY DEF SInv
  <2> QED
    BY <1>1, <2>1, RequestsAre DEF SInv, Fine, RegistrationFine, CancellationFine, SettlementFine, Ended
<1>3. CASE ~ \E st \in seen[s] : Amount(s) <= st.balance /\ request[s].planned <= st.due
  BY <1>3, EndKeepsSInv DEF Validate, Ended
<1>4. CASE \E st \in seen[s] : Amount(s) <= st.balance /\ request[s].planned <= st.due
  <2>1. Plannable(c, Amount(s), request[s].planned) /\ CycleHeld(s)
    BY <1>1, <1>2, <1>4 DEF ReplacementFine, Plannable
  <2>2. Moves(s, "intent", exclusive[s], seen[s], writes[s])
    BY <1>4, Unmoved DEF Validate, Goto, Moves, Advances, committed, locks
  <2>3. pc'[s] = "intent" /\ exclusive'[s] = exclusive[s] /\ writes'[s] = writes[s]
    BY <2>2, Moved DEF SInv
  <2>4. UNCHANGED vars /\ UNCHANGED request
    BY <2>2 DEF Moves, Advances
  <2>5. Plannable(c, Amount(s), request[s].planned)'
    BY <2>1, <2>4, NothingCommitted DEF Plannable
  <2>6. CycleHeld(s)'
    BY <2>1, <2>3, <2>4, NothingCommittedOfPlan
  <2>7. ReplacementFine(s)'
    BY <1>1, <1>2, <2>3, <2>5, <2>6 DEF ReplacementFine
  <2>8. Fine(s)'
    BY <1>2, <2>4, <2>7, NothingCommitted, OneOperation DEF Fine
  <2> QED
    BY <2>2, <2>8, Unmoved, OnlyGoes
<1> QED
  BY <1>3, <1>4

\* The rows of a plan are written: the session may commit them.
LEMMA PlanWritten ==
  ASSUME SInv, NEW s \in Sessions, writes[s] = NoWrites, NEW rows,
         rows.in.mutations = {}, rows.in.settlements = {},
         Moves(s, "commit", exclusive[s], seen[s], rows), Fine(s)'
  PROVE  SInv' /\ UNCHANGED vars
<1>1. \A o \in Sessions \ {s} : exclusive[s] \cap exclusive[o] = {}
  BY DEF SInv, Apart
<1>2. exclusive[s] \in SUBSET LockRows /\ seen[s] \in SUBSET StatementRow
  BY Unmoved
<1>3. SInv'
  BY <1>1, <1>2, SessionStep
<1> QED
  BY <1>3 DEF Moves, Advances

\* A first plan, or another in place of one that is open and unpaid.
LEMMA ReplacementKeeps ==
  ASSUME SInv, NEW s \in Sessions, InsertIntent(s) \/ (ReplaceVersion(s) /\ pc'[s] = "commit")
  PROVE  SInv' /\ UNCHANGED vars
<1> DEFINE c == Cycle(s)
           rows == PlanAgain(s)
<1>0. SessionShapes /\ Fine(s) /\ c \in Cycles /\ intents \in [Cycles -> IntentRow \cup {NoIntent}]
  BY RequestsAre DEF SInv, IInv, RowTypes
<1>1. pc[s] \in {"first_intent", "change"} /\ IsReplacement(s)
  <2>1. CASE InsertIntent(s)
    BY <1>0, <2>1, RequestsAre
    DEF InsertIntent, Ready, Fine, RegistrationFine, CancellationFine, SettlementFine, Ended
  <2>2. CASE ReplaceVersion(s)
    BY <2>2 DEF ReplaceVersion, Ready, IsReplacement
  <2> QED
    BY <2>1, <2>2
<1>2. ReplacementFine(s) /\ writes[s] = NoWrites /\ CycleHeld(s) /\ Plannable(c, Amount(s), request[s].planned)
  BY <1>0, <1>1 DEF Fine, ReplacementFine
<1>3. /\ Replacement(s, NextVersion(c)) /\ pc' = [pc EXCEPT ![s] = "commit"]
      /\ UNCHANGED <<committed, exclusive, request, seen>>
      /\ HasIntent(c) => /\ PlanHeld(s)
                         /\ intents[c].status \in {"active", "needs_review"}
                         /\ ~ IsPlanned(c, Amount(s), request[s].planned)
                         /\ intents[c].version < MaxVersion
                         /\ SettledAmount(c) = 0
  <2>1. CASE InsertIntent(s)
    <3>1. ~ HasIntent(c)
      BY <1>2, <2>1 DEF InsertIntent, Ready, ReplacementFine
    <3> QED
      BY <2>1, <3>1 DEF InsertIntent, NextVersion, Goto
  <2>2. CASE ReplaceVersion(s) /\ pc'[s] = "commit"
    <3>1. PlanHeld(s) /\ HasIntent(c) /\ pc[s] = "change" /\ s \in DOMAIN pc
      BY <1>0, <1>2, <2>2 DEF ReplaceVersion, Ready, ReplacementFine, PlanHeld, SessionShapes
    <3>2. ~ EndUnchanged(s, "rejected") /\ ~ EndUnchanged(s, "done")
      BY <2>2, <3>1 DEF EndUnchanged, End, Goto
    <3>3. /\ intents[c].status \notin {"cancelled", "settled"}
          /\ ~ IsPlanned(c, Amount(s), request[s].planned)
          /\ SettledAmount(c) = 0 /\ intents[c].version # MaxVersion
          /\ Replacement(s, intents[c].version + 1) /\ Goto(s, "commit")
          /\ UNCHANGED <<committed, locks, request, seen>>
      BY <2>2, <3>2 DEF ReplaceVersion
    <3>4. intents[c] \in IntentRow
      BY <1>0, <3>1 DEF HasIntent
    <3>5. intents[c].status \in {"active", "needs_review"} /\ intents[c].version \in Nat
      BY <3>3, <3>4 DEF IntentRow
    <3>6. intents[c].version <= MaxVersion
      BY <1>0, <3>1, <3>5 DEF SInv, IInv, OpenPlansMayChange, Cancellable
    <3>7. intents[c].version < MaxVersion
      BY <3>3, <3>5, <3>6, DateAssumption
    <3> QED
      BY <3>1, <3>3, <3>5, <3>7 DEF Goto, locks, NextVersion
  <2> QED
    BY <2>1, <2>2
<1>4. FlowIdFree(c, NextVersion(c), Amount(s)) /\ MayPlanAgain(s)
  BY <1>3 DEF Replacement, MayPlanAgain
<1>5. PICK x, y, z : /\ x = {[amount |-> Amount(s), planned |-> request[s].planned, version |-> NextVersion(c),
                              status |-> "active"]}
                     /\ y = ScheduledFlows(c)
                     /\ z = FlowsGivenUp(s) \cup {Flow(c, NextVersion(c), Amount(s), request[s].planned)}
  OBVIOUS
<1>6. writes' = [writes EXCEPT ![s] = WithPlan(writes[s], x, y, z)]
  <2>1. IntentWrites(s, x, y, z)
    BY <1>3, <1>5 DEF Replacement, FlowsGivenUp
  <2> QED
    BY <2>1, WritesOfPlan
<1>7. WithPlan(writes[s], x, y, z) = rows
  <2>1. WithPlan(writes[s], x, y, z) = Rows({}, {}, {}, x, y, z, {})
    BY <1>2, NoRows, RowsWith
  <2> QED
    BY <1>5, <2>1 DEF PlanAgain
<1>8. Moves(s, "commit", exclusive[s], seen[s], rows)
  BY <1>3, <1>6, <1>7, Unmoved DEF Moves, Advances, committed
<1>9. pc'[s] = "commit" /\ exclusive'[s] = exclusive[s] /\ writes'[s] = rows
  BY <1>0, <1>8, Moved
<1>10. UNCHANGED vars /\ UNCHANGED request
  BY <1>8 DEF Moves, Advances
<1>11. Plannable(c, Amount(s), request[s].planned)' /\ CycleHeld(s)' /\ MayPlanAgain(s)'
  <2>1. Plannable(c, Amount(s), request[s].planned)'
    BY <1>2, <1>10, NothingCommitted DEF Plannable
  <2> QED
    BY <1>2, <1>4, <1>9, <1>10, <2>1, NothingCommittedOfPlan
<1>12. ReplacementFine(s)'
  BY <1>9, <1>10, <1>11, NothingCommitted DEF ReplacementFine
<1>13. Fine(s)'
  BY <1>1, <1>10, <1>12, NothingCommitted, OneOperation DEF Fine
<1>14. rows.in.mutations = {} /\ rows.in.settlements = {}
  BY RowsAre DEF PlanAgain
<1> HIDE DEF rows
<1> QED
  BY <1>2, <1>8, <1>13, <1>14, PlanWritten

LEMMA ReplaceVersionKeeps ==
  ASSUME SInv, NEW s \in Sessions, ReplaceVersion(s)
  PROVE  SInv' /\ UNCHANGED vars
<1>1. CASE pc'[s] = "commit"
  BY <1>1, ReplacementKeeps
<1>2. CASE pc'[s] # "commit"
  <2>1. DOMAIN pc = Sessions
    BY DEF SInv, SessionShapes
  <2>2. EndUnchanged(s, "rejected") \/ EndUnchanged(s, "done")
    BY <1>2, <2>1 DEF ReplaceVersion, Goto
  <2> QED
    BY <2>2, EndKeepsSInv DEF Ended
<1> QED
  BY <1>1, <1>2

LEMMA CancelKeeps ==
  ASSUME SInv, NEW s \in Sessions, Cancel(s)
  PROVE  SInv' /\ UNCHANGED vars
<1> DEFINE c == Cycle(s)
           rows == GivingUp(s)
<1>0. SessionShapes /\ Fine(s) /\ c \in Cycles /\ intents \in [Cycles -> IntentRow \cup {NoIntent}]
  BY RequestsAre DEF SInv, IInv, RowTypes
<1>1. pc[s] = "change" /\ IsCancellation(s) /\ CancellationFine(s)
  BY <1>0 DEF Cancel, Ready, IsCancellation, Fine
<1>2. writes[s] = NoWrites /\ PlanHeld(s)
  BY <1>1 DEF CancellationFine
<1>3. CASE intents[c].status \in {"cancelled", "settled"}
  <2>1. EndUnchanged(s, "rejected") \/ EndUnchanged(s, "done")
    BY <1>3 DEF Cancel
  <2> QED
    BY <2>1, EndKeepsSInv DEF Ended
<1>4. CASE intents[c].status \notin {"cancelled", "settled"}
  <2>1. Cancellable(c)
    BY <1>0, <1>2, <1>4 DEF PlanHeld, HasIntent, IntentRow, Cancellable
  <2>2. PICK x, y, z : /\ x = {[intents[c] EXCEPT !.status = "cancelled", !.version = @ + 1]}
                       /\ y = ScheduledFlows(c) /\ z = FlowsGivenUp(s)
    OBVIOUS
  <2>3. /\ IntentWrites(s, x, y, z) /\ pc' = [pc EXCEPT ![s] = "commit"]
        /\ UNCHANGED <<committed, locks, request, seen>>
    BY <1>4, <2>2 DEF Cancel, FlowsGivenUp, Goto
  <2>4. writes' = [writes EXCEPT ![s] = WithPlan(writes[s], x, y, z)]
    BY <2>3, WritesOfPlan
  <2>5. WithPlan(writes[s], x, y, z) = rows
    <3>1. WithPlan(writes[s], x, y, z) = Rows({}, {}, {}, x, y, z, {})
      BY <1>2, NoRows, RowsWith
    <3> QED
      BY <2>2, <3>1 DEF GivingUp
  <2>6. Moves(s, "commit", exclusive[s], seen[s], rows)
    <3>1. writes' = [writes EXCEPT ![s] = rows]
      BY <2>4, <2>5
    <3>2. /\ writes = [writes EXCEPT ![s] = writes[s]] /\ seen = [seen EXCEPT ![s] = seen[s]]
          /\ exclusive = [exclusive EXCEPT ![s] = exclusive[s]]
      BY Unmoved
    <3> HIDE DEF rows
    <3> QED
      BY <2>3, <3>1, <3>2 DEF Moves, Advances, committed, locks
  <2>7. pc'[s] = "commit" /\ exclusive'[s] = exclusive[s] /\ writes'[s] = rows
    BY <1>0, <2>6, Moved
  <2>8. UNCHANGED vars /\ UNCHANGED request
    BY <2>6 DEF Moves, Advances
  <2>9. PlanHeld(s)'
    BY <1>2, <2>7, <2>8, NothingCommittedOfPlan
  <2>10. CancellationFine(s)'
    BY <2>1, <2>7, <2>8, <2>9, NothingCommitted DEF CancellationFine
  <2>11. Fine(s)'
    BY <1>1, <2>8, <2>10, NothingCommitted, OneOperation DEF Fine
  <2>12. rows.in.mutations = {} /\ rows.in.settlements = {}
    BY RowsAre DEF GivingUp
  <2> HIDE DEF rows
  <2> QED
    BY <1>2, <2>6, <2>11, <2>12, PlanWritten
<1> QED
  BY <1>3, <1>4

-----------------------------------------------------------------------------
(* Settling *)

\* Statements of a settlement find it at them.
LEMMA SettlementAt ==
  ASSUME SInv, NEW s \in Sessions, pc[s] \in {"link", "link_cycle", "flow"}
  PROVE  IsSettlement(s) /\ SettlementFine(s)
<1>1. Fine(s)
  BY DEF SInv
<1> QED
  BY <1>1, RequestsAre DEF SInv, Fine, RegistrationFine, ReplacementFine, CancellationFine, Ended

\* What a settlement knows, when nothing is committed.
LEMMA NothingCommittedOfPayment ==
  ASSUME NEW s, UNCHANGED vars, UNCHANGED request, exclusive'[s] = exclusive[s]
  PROVE  /\ PlanHeld(s) => PlanHeld(s)'
         /\ FlowIdFree(Cycle(s), intents[Cycle(s)].version, Left(s))'
              <=> FlowIdFree(Cycle(s), intents[Cycle(s)].version, Left(s))
         /\ settlements' = settlements /\ mutations' = mutations
<1>1. PlanHeld(s) => PlanHeld(s)'
  BY NothingCommittedOfPlan
<1>2. Cycle(s)' = Cycle(s) /\ Left(s)' = Left(s)
  BY NothingCommitted
<1> QED
  BY <1>1, <1>2 DEF vars, FlowIdFree

LEMMA CheckSettlementKeeps ==
  ASSUME SInv, NEW s \in Sessions, CheckSettlement(s)
  PROVE  SInv' /\ UNCHANGED vars
<1> DEFINE c == Cycle(s)
           fits == /\ intents[c].status = "active"
                   /\ \E p \in payments : /\ p.id = request[s].transfer
                                          /\ p.destination = CardOf[c]
                                          /\ FitsRemaining(p, c)
<1>1. pc[s] = "change" /\ IsSettlement(s)
  BY DEF CheckSettlement, Ready
<1>2. SettlementFine(s)
  BY <1>1 DEF SInv, Fine
<1>3. CASE ~ fits
  BY <1>3, EndKeepsSInv DEF CheckSettlement, Ended
<1>4. CASE fits
  <2>1. MayPay(s)
    <3>1. PICK p \in payments : p.id = request[s].transfer /\ p.destination = CardOf[c] /\ FitsRemaining(p, c)
      BY <1>4
    <3>2. Payment(s) \in payments /\ Payment(s).id = request[s].transfer
      BY <3>1 DEF Payment
    <3>3. Payment(s) = p
      BY <3>1, <3>2 DEF SInv, IInv, PaymentsAreDistinct
    <3> QED
      BY <1>4, <3>1, <3>3 DEF MayPay
  <2>2. Moves(s, "link", exclusive[s], seen[s], writes[s])
    <3>1. pc' = [pc EXCEPT ![s] = "link"] /\ UNCHANGED <<committed, locks, request, seen, writes>>
      BY <1>4 DEF CheckSettlement, Goto
    <3> QED
      BY <3>1, Unmoved DEF Moves, Advances, committed, locks
  <2>3. pc'[s] = "link" /\ exclusive'[s] = exclusive[s] /\ writes'[s] = writes[s]
    BY <2>2, Moved DEF SInv
  <2>4. UNCHANGED vars /\ UNCHANGED request
    BY <2>2 DEF Moves, Advances
  <2>5. SettlementFine(s)'
    BY <1>1, <1>2, <2>1, <2>3, <2>4, NothingCommitted, NothingCommittedOfPayment DEF SettlementFine
  <2>6. Fine(s)'
    BY <1>1, <2>4, <2>5, NothingCommitted, OneOperation DEF Fine
  <2> QED
    BY <2>2, <2>6, Unmoved, OnlyGoes
<1> QED
  BY <1>3, <1>4

LEMMA InsertSettlementKeeps ==
  ASSUME SInv, NEW s \in Sessions, InsertSettlement(s)
  PROVE  SInv' /\ UNCHANGED vars
<1> DEFINE c == Cycle(s)
           rows == Linking(s)
<1>1. pc[s] = "link" /\ TransferBlockers(s) = {}
  BY WaitsAre DEF InsertSettlement, Ready
<1>2. IsSettlement(s) /\ SettlementFine(s)
  BY <1>1, SettlementAt
<1>3. writes[s] = OnlyClaim(s) /\ MayPay(s)
  BY <1>1, <1>2 DEF SettlementFine
<1>4. CASE \E n \in settlements : n.transfer = Payment(s).id
  BY <1>4, EndKeepsSInv DEF InsertSettlement, Ended
<1>5. CASE ~ \E n \in settlements : n.transfer = Payment(s).id
  <2>1. Link(s).transfer = request[s].transfer /\ \A n \in settlements : n.transfer # request[s].transfer
    BY <1>3, <1>5 DEF Link, MayPay
  <2>2. PICK x : x = {Link(s)}
    OBVIOUS
  <2>3. /\ writes' = [writes EXCEPT ![s] = WithLink(writes[s], x)] /\ pc' = [pc EXCEPT ![s] = "link_cycle"]
        /\ UNCHANGED <<committed, locks, request, seen>>
    BY <1>5, <2>2 DEF InsertSettlement, Goto, Link, WithLink
  <2>4. WithLink(writes[s], x) = rows
    BY <1>3, <2>2, RowsWith DEF OnlyClaim, Linking
  <2>5. writes' = [writes EXCEPT ![s] = rows]
    BY <2>3, <2>4
  <2>6. rows.in.mutations = writes[s].in.mutations /\ rows.in.settlements = {Link(s)}
    BY <1>3, RowsAre DEF OnlyClaim, Linking
  <2>7. Moves(s, "link_cycle", exclusive[s], seen[s], rows)
    <3> HIDE DEF rows
    <3> QED
      BY <2>3, <2>5, Unmoved DEF Moves, Advances, committed, locks
  <2>8. pc'[s] = "link_cycle" /\ exclusive'[s] = exclusive[s] /\ writes'[s] = rows
    BY <2>7, Moved DEF SInv
  <2>9. UNCHANGED vars /\ UNCHANGED request
    BY <2>7 DEF Moves, Advances
  <2>10. SettlementFine(s)'
    <3>1. rows' = rows
      BY <2>9, NothingCommitted
    <3>2. Claim(s) \notin mutations /\ PlanHeld(s)
      BY <1>1, <1>2 DEF SettlementFine
    <3>3. Claim(s)' \notin mutations' /\ PlanHeld(s)' /\ MayPay(s)' /\ writes'[s] = Linking(s)'
      BY <1>3, <2>8, <2>9, <3>1, <3>2, NothingCommitted, NothingCommittedOfPayment
    <3>4. \A n \in settlements' : n.transfer # request'[s].transfer
      BY <2>1, <2>9 DEF vars
    <3> HIDE DEF rows
    <3> QED
      BY <2>8, <3>3, <3>4 DEF SettlementFine
  <2>11. Fine(s)'
    BY <1>2, <2>9, <2>10, NothingCommitted, OneOperation DEF Fine
  <2>12. \A o \in Sessions \ {s} :
           /\ exclusive[s] \cap exclusive[o] = {}
           /\ rows.in.mutations \cap writes[o].in.mutations = {}
           /\ \A n \in rows.in.settlements, m \in writes[o].in.settlements : n.transfer # m.transfer
    BY <1>1, <2>1, <2>6 DEF SInv, Apart, TransferBlockers
  <2>13. exclusive[s] \in SUBSET LockRows /\ seen[s] \in SUBSET StatementRow
    BY Unmoved
  <2> HIDE DEF rows
  <2>14. SInv'
    BY <2>7, <2>11, <2>12, <2>13, SessionStep
  <2> QED
    BY <2>9, <2>14
<1> QED
  BY <1>4, <1>5

LEMMA CheckForeignKeyKeeps ==
  ASSUME SInv, NEW s \in Sessions, CheckForeignKey(s)
  PROVE  SInv' /\ UNCHANGED vars
<1>1. pc[s] = "link_cycle"
  BY DEF CheckForeignKey, Ready
<1>2. IsSettlement(s) /\ SettlementFine(s)
  BY <1>1, SettlementAt
<1>3. Moves(s, "flow", exclusive[s], seen[s], writes[s])
  <2>1. pc' = [pc EXCEPT ![s] = "flow"] /\ UNCHANGED <<committed, exclusive, request, seen, writes>>
    BY DEF CheckForeignKey, Goto
  <2> QED
    BY <2>1, Unmoved DEF Moves, Advances, committed
<1>4. pc'[s] = "flow" /\ exclusive'[s] = exclusive[s] /\ writes'[s] = writes[s]
  BY <1>3, Moved DEF SInv
<1>5. UNCHANGED vars /\ UNCHANGED request
  BY <1>3 DEF Moves, Advances
<1>6. SettlementFine(s)'
  BY <1>1, <1>2, <1>4, <1>5, NothingCommitted, NothingCommittedOfPayment DEF SettlementFine
<1>7. Fine(s)'
  BY <1>2, <1>5, <1>6, NothingCommitted, OneOperation DEF Fine
<1> QED
  BY <1>3, <1>7, Unmoved, OnlyGoes

LEMMA SettleFlowKeeps ==
  ASSUME SInv, NEW s \in Sessions, SettleFlow(s)
  PROVE  SInv' /\ UNCHANGED vars
<1> DEFINE c == Cycle(s)
<1>1. pc[s] = "flow"
  BY DEF SettleFlow, Ready
<1>2. IsSettlement(s) /\ SettlementFine(s)
  BY <1>1, SettlementAt
<1>3. writes[s] = Linking(s)
  BY <1>1, <1>2 DEF SettlementFine
<1>4. PICK rows : /\ \/ Left(s) = 0 /\ rows = PayingAll(s)
                     \/ /\ Left(s) # 0 /\ FlowIdFree(c, intents[c].version, Left(s))
                        /\ rows = PayingPart(s)
                  /\ writes' = [writes EXCEPT ![s] = rows]
                  /\ rows.in.mutations = writes[s].in.mutations
                  /\ rows.in.settlements = writes[s].in.settlements
  <2>1. ASSUME Left(s) = 0
        PROVE  /\ writes' = [writes EXCEPT ![s] = PayingAll(s)]
               /\ PayingAll(s).in.mutations = writes[s].in.mutations
               /\ PayingAll(s).in.settlements = writes[s].in.settlements
    <3>1. PICK x, y, z : /\ x = {[intents[c] EXCEPT !.status = "settled", !.version = @ + 1]}
                         /\ y = ScheduledFlows(c) /\ z = FlowsEnded(c, "settled", Payment(s).id)
      OBVIOUS
    <3>2. IntentWrites(s, x, y, z)
      BY <2>1, <3>1 DEF SettleFlow, Left
    <3>3. WithPlan(writes[s], x, y, z) = PayingAll(s)
      <4>1. WithPlan(writes[s], x, y, z) = Rows({Claim(s)}, {}, {}, x, y, z, {Link(s)})
        BY <1>3, RowsWith DEF Linking
      <4> QED
        BY <3>1, <4>1 DEF PayingAll
    <3>4. writes' = [writes EXCEPT ![s] = PayingAll(s)]
      BY <3>2, <3>3, WritesOfPlan
    <3> QED
      BY <1>3, <3>4, RowsAre DEF PayingAll, Linking
  <2>2. ASSUME Left(s) # 0
        PROVE  /\ FlowIdFree(c, intents[c].version, Left(s))
               /\ writes' = [writes EXCEPT ![s] = PayingPart(s)]
               /\ PayingPart(s).in.mutations = writes[s].in.mutations
               /\ PayingPart(s).in.settlements = writes[s].in.settlements
    <3>1. PICK x, y, z : /\ x = {} /\ y = ScheduledFlows(c)
                         /\ z = FlowsGivenUp(s) \cup {Flow(c, intents[c].version, Left(s), intents[c].planned)}
      OBVIOUS
    <3>2. IntentWrites(s, x, y, z) /\ FlowIdFree(c, intents[c].version, Left(s))
      BY <2>2, <3>1 DEF SettleFlow, Left, FlowsGivenUp
    <3>3. WithPlan(writes[s], x, y, z) = PayingPart(s)
      <4>1. WithPlan(writes[s], x, y, z) = Rows({Claim(s)}, {}, {}, x, y, z, {Link(s)})
        BY <1>3, RowsWith DEF Linking
      <4> QED
        BY <3>1, <4>1 DEF PayingPart
    <3>4. writes' = [writes EXCEPT ![s] = PayingPart(s)]
      BY <3>2, <3>3, WritesOfPlan
    <3> QED
      BY <1>3, <3>2, <3>4, RowsAre DEF PayingPart, Linking
  <2> QED
    BY <2>1, <2>2
<1>5. Moves(s, "commit", exclusive[s], seen[s], rows)
  <2>1. pc' = [pc EXCEPT ![s] = "commit"] /\ UNCHANGED <<committed, locks, request, seen>>
    BY DEF SettleFlow, Goto
  <2> QED
    BY <1>4, <2>1, Unmoved DEF Moves, Advances, committed, locks
<1>6. pc'[s] = "commit" /\ exclusive'[s] = exclusive[s] /\ writes'[s] = rows
  BY <1>5, Moved DEF SInv
<1>7. UNCHANGED vars /\ UNCHANGED request
  BY <1>5 DEF Moves, Advances
<1>8. SettlementFine(s)'
  <2>1. /\ Claim(s) \notin mutations /\ PlanHeld(s) /\ MayPay(s)
        /\ \A n \in settlements : n.transfer # request[s].transfer
    BY <1>1, <1>2 DEF SettlementFine
  <2>2. /\ Claim(s)' \notin mutations' /\ PlanHeld(s)' /\ MayPay(s)'
        /\ \A n \in settlements' : n.transfer # request'[s].transfer
    BY <1>6, <1>7, <2>1, NothingCommitted, NothingCommittedOfPayment
  <2>3. \/ Left(s)' = 0 /\ rows = PayingAll(s)'
        \/ /\ Left(s)' # 0 /\ FlowIdFree(c, intents[c].version, Left(s))'
           /\ rows = PayingPart(s)'
    BY <1>4, <1>6, <1>7, NothingCommitted, NothingCommittedOfPayment
  <2> QED
    BY <1>6, <2>2, <2>3 DEF SettlementFine
<1>9. Fine(s)'
  BY <1>2, <1>7, <1>8, NothingCommitted, OneOperation DEF Fine
<1>10. \A o \in Sessions \ {s} :
         /\ exclusive[s] \cap exclusive[o] = {}
         /\ rows.in.mutations \cap writes[o].in.mutations = {}
         /\ \A n \in rows.in.settlements, m \in writes[o].in.settlements : n.transfer # m.transfer
  BY <1>4 DEF SInv, Apart
<1>11. exclusive[s] \in SUBSET LockRows /\ seen[s] \in SUBSET StatementRow
  BY Unmoved
<1>12. SInv'
  BY <1>5, <1>9, <1>10, <1>11, SessionStep
<1> QED
  BY <1>7, <1>12

-----------------------------------------------------------------------------
(* Commits *)

LEMMA InitOpenFlows == Init => OpenFlowsSettleNothing
BY DEF Init, OpenFlowsSettleNothing

LEMMA NextPreservesOpenFlows ==
  ASSUME IInv, MoneyInv, OpenFlowsSettleNothing, Next
  PROVE  OpenFlowsSettleNothing'
<1>1. flows \subseteq FlowRow
  BY DEF MoneyInv, TypeOK
<1>2. \A cycle \in Cycles : \A f \in FlowsCancelled(cycle) : f.status # "settled" => f.settledBy = NoKey
  BY <1>1, CancelledFlows DEF OpenFlowsSettleNothing
<1>3. \A cycle, transfer : \A f \in FlowsSettled(cycle, transfer) : f.status # "settled" => f.settledBy = NoKey
  BY <1>1 DEF OpenFlowsSettleNothing, FlowsSettled, FlowRow
<1>4. \A cycle, version, amount, date : Flow(cycle, version, amount, date).settledBy = NoKey
  BY DEF Flow
<1>5. \/ flows' = flows
      \/ \E cycle \in Cycles : flows' = FlowsCancelled(cycle)
      \/ \E cycle \in Cycles : \E version, amount, date :
           flows' = FlowsCancelled(cycle) \cup {Flow(cycle, version, amount, date)}
      \/ \E cycle, transfer : flows' = FlowsSettled(cycle, transfer)
  BY DEF Next, PostTransfer, ArchiveAccount, RegisterStatement, ReplaceIntent, CancelIntent, SettleIntent,
         SettleInFull, SettleInPart
<1> QED
  BY <1>2, <1>3, <1>4, <1>5 DEF OpenFlowsSettleNothing

\* The rows of a transaction, taken from the tables and put into them.
LEMMA CommittedRows ==
  ASSUME NEW s, Commit(s), NEW c, c = Cycle(s), NEW w, w = writes[s]
  PROVE  /\ statements' = (statements \ w.out.statements) \cup w.in.statements
         /\ flows' = (flows \ w.out.flows) \cup w.in.flows
         /\ w.in.intents = {} => intents' = intents
         /\ \A i : w.in.intents = {i} => intents' = [intents EXCEPT ![c] = i]
         /\ settlements' = settlements \cup w.in.settlements
         /\ mutations' = mutations \cup w.in.mutations
         /\ UNCHANGED <<cardStatus, payments>>
<1>1. intents' = IF w.in.intents = {} THEN intents
                 ELSE [intents EXCEPT ![c] = CHOOSE i \in w.in.intents : TRUE]
  BY DEF Commit
<1>2. \A i : w.in.intents = {i} => intents' = [intents EXCEPT ![c] = i]
  <2> SUFFICES ASSUME NEW i, w.in.intents = {i}
               PROVE  intents' = [intents EXCEPT ![c] = i]
    OBVIOUS
  <2>1. (CHOOSE j \in w.in.intents : TRUE) = i
    OBVIOUS
  <2> QED
    BY <1>1, <2>1
<1> QED
  BY <1>1, <1>2 DEF Commit

LEMMA FlowsAsCancelled ==
  ASSUME flows \subseteq FlowRow, OpenFlowsSettleNothing, NEW c
  PROVE  (flows \ ScheduledFlows(c)) \cup FlowsEnded(c, "cancelled", NoKey) = FlowsCancelled(c)
<1>1. \A f \in ScheduledFlows(c) : EndedFlow(f, "cancelled", NoKey) = [f EXCEPT !.status = "cancelled"]
  <2> SUFFICES ASSUME NEW f \in ScheduledFlows(c)
               PROVE  EndedFlow(f, "cancelled", NoKey) = [f EXCEPT !.status = "cancelled"]
    OBVIOUS
  <2>1. f \in FlowRow /\ f.settledBy = NoKey
    BY DEF ScheduledFlows, IsScheduled, OpenFlowsSettleNothing
  <2> QED
    BY <2>1 DEF EndedFlow, FlowRow
<1>2. FlowsEnded(c, "cancelled", NoKey) = {[f EXCEPT !.status = "cancelled"] : f \in ScheduledFlows(c)}
  BY <1>1 DEF FlowsEnded
<1> QED
  BY <1>2 DEF FlowsCancelled, ScheduledFlows

LEMMA FlowsAsSettled ==
  ASSUME NEW c, NEW transfer
  PROVE  (flows \ ScheduledFlows(c)) \cup FlowsEnded(c, "settled", transfer) = FlowsSettled(c, transfer)
BY DEF FlowsSettled, FlowsEnded, EndedFlow, ScheduledFlows

LEMMA StatementsAsCorrected ==
  ASSUME NEW S, NEW active \in SUBSET S, NEW key, NEW new
  PROVE  (S \ active) \cup ({[p EXCEPT !.supersededBy = key] : p \in active} \cup {new})
           = {IF p \in active THEN [p EXCEPT !.supersededBy = key] ELSE p : p \in S} \cup {new}
OBVIOUS

\* What of a cycle a commit may change: its statements under its lock, its plan
\* under the plan's, or under the cycle's while there is none.
Reaches(s, c) ==
  /\ CycleHeld(s) \/ ActiveStatements(c)' = ActiveStatements(c)
  /\ PlanHeld(s) \/ SamePlan(c) \/ (~ HasIntent(c) /\ CycleHeld(s))
  /\ \/ CycleHeld(s)
     \/ intents'[c] = intents[c]
     \/ HasIntent(c) /\ HasIntent(c)' /\ intents'[c].status # "active"

\* The rows that a transaction writes are of its cycle.
OfCycle(w, c) ==
  /\ \A x \in w.out.statements \cup w.in.statements \cup w.out.flows \cup w.in.flows : x.cycle = c
  /\ \A x \in w.in.settlements : x.cycle = c

LEMMA OwnFlows ==
  ASSUME flows \subseteq FlowRow, NEW c
  PROVE  /\ \A f \in ScheduledFlows(c) : f.cycle = c
         /\ \A outcome, transfer : \A f \in FlowsEnded(c, outcome, transfer) : f.cycle = c
         /\ \A version, amount, date : Flow(c, version, amount, date).cycle = c
<1>1. \A f \in ScheduledFlows(c) : f.cycle = c /\ f \in FlowRow
  BY DEF ScheduledFlows, IsScheduled
<1>2. \A outcome, transfer : \A f \in ScheduledFlows(c) : EndedFlow(f, outcome, transfer).cycle = c
  BY <1>1 DEF EndedFlow, FlowRow
<1> QED
  BY <1>1, <1>2 DEF FlowsEnded, Flow

LEMMA OwnStatements ==
  ASSUME statements \subseteq StatementRow, NEW s
  PROVE  \A x \in ActiveStatements(Cycle(s)) \cup Corrected(s) : x.cycle = Cycle(s)
<1>1. \A p \in ActiveStatements(Cycle(s)) : p.cycle = Cycle(s) /\ p \in StatementRow
  BY DEF ActiveStatements
<1>2. \A p \in ActiveStatements(Cycle(s)) : [p EXCEPT !.supersededBy = request[s].key].cycle = Cycle(s)
  BY <1>1 DEF StatementRow
<1>3. \A x \in {[p EXCEPT !.supersededBy = request[s].key] : p \in ActiveStatements(Cycle(s))} : x.cycle = Cycle(s)
  BY <1>2
<1>4. PICK new : new = [id |-> request[s].key, cycle |-> Cycle(s), revision |-> NextRevision(Cycle(s)),
                        authority |-> request[s].authority, balance |-> request[s].balance,
                        due |-> request[s].due, supersededBy |-> NoKey]
  OBVIOUS
<1>5. Corrected(s) = {[p EXCEPT !.supersededBy = request[s].key] : p \in ActiveStatements(Cycle(s))} \cup {new}
  BY <1>4 DEF Corrected
<1>6. new.cycle = Cycle(s)
  BY <1>4
<1> QED
  BY <1>1, <1>3, <1>5, <1>6

\* Another cycle is as it was.
LEMMA OtherCycles ==
  ASSUME SInv, NEW s \in Sessions, Commit(s), OfCycle(writes[s], Cycle(s)), NEW d, d # Cycle(s)
  PROVE  SamePlan(d) /\ ActiveStatements(d)' = ActiveStatements(d)
<1>1. PICK c : c = Cycle(s)
  OBVIOUS
<1>2. PICK w : w = writes[s]
  OBVIOUS
<1>3. /\ statements' = (statements \ w.out.statements) \cup w.in.statements
      /\ flows' = (flows \ w.out.flows) \cup w.in.flows
      /\ settlements' = settlements \cup w.in.settlements
      /\ intents' = IF w.in.intents = {} THEN intents
                    ELSE [intents EXCEPT ![c] = CHOOSE i \in w.in.intents : TRUE]
  BY <1>1, <1>2 DEF Commit
<1>4. \A x \in w.out.statements \cup w.in.statements \cup w.out.flows \cup w.in.flows : x.cycle # d
  BY <1>1, <1>2 DEF OfCycle
<1>5. \A x \in w.in.settlements : x.cycle # d
  BY <1>1, <1>2 DEF OfCycle
<1>6. ActiveStatements(d)' = ActiveStatements(d)
  BY <1>3, <1>4 DEF ActiveStatements
<1>7. FlowsOf(d)' = FlowsOf(d) /\ SettlementsOf(d)' = SettlementsOf(d)
  BY <1>3, <1>4, <1>5 DEF FlowsOf, SettlementsOf
<1>8. intents'[d] = intents[d]
  <2>1. intents \in [Cycles -> IntentRow \cup {NoIntent}]
    BY DEF SInv, IInv, RowTypes
  <2> QED
    BY <1>1, <1>3, <2>1
<1> QED
  BY <1>6, <1>7, <1>8 DEF SamePlan

\* What a session that commits is.
LEMMA Committing ==
  ASSUME SInv, NEW s \in Sessions, NEW c, c = Cycle(s)
  PROVE  /\ Fine(s) /\ SessionShapes /\ IInv /\ MoneyInv /\ OpenFlowsSettleNothing
         /\ c \in Cycles /\ CardOf[c] \in Cards
         /\ flows \subseteq FlowRow /\ statements \subseteq StatementRow
         /\ intents \in [Cycles -> IntentRow \cup {NoIntent}]
         /\ settlements \subseteq SettlementRow /\ payments \subseteq PaymentRow
         /\ (flows \ ScheduledFlows(c)) \cup FlowsGivenUp(s) = FlowsCancelled(c)
<1>1. /\ Fine(s) /\ SessionShapes /\ IInv /\ MoneyInv /\ OpenFlowsSettleNothing
      /\ flows \subseteq FlowRow /\ statements \subseteq StatementRow
      /\ intents \in [Cycles -> IntentRow \cup {NoIntent}]
      /\ settlements \subseteq SettlementRow /\ payments \subseteq PaymentRow
  BY DEF SInv, MoneyInv, TypeOK
<1>2. c \in Cycles /\ CardOf[c] \in Cards
  BY <1>1, RequestsAre
<1>3. (flows \ ScheduledFlows(c)) \cup FlowsGivenUp(s) = FlowsCancelled(c)
  BY <1>1, FlowsAsCancelled DEF FlowsGivenUp
<1> QED
  BY <1>1, <1>2, <1>3

\* The commit of a correction is RegisterStatement: the cycle's lock has kept
\* what it replaces, and its plan's or the cycle's lock what it reviews.
LEMMA RegistrationCommits ==
  ASSUME SInv, NEW s \in Sessions, Commit(s), IsRegistration(s), NEW c, c = Cycle(s)
  PROVE  Next /\ OfCycle(writes[s], c) /\ Reaches(s, c)
<1> DEFINE r == request[s]
<1>0. /\ Fine(s) /\ SessionShapes /\ c \in Cycles /\ flows \subseteq FlowRow /\ statements \subseteq StatementRow
      /\ intents \in [Cycles -> IntentRow \cup {NoIntent}]
      /\ (flows \ ScheduledFlows(c)) \cup FlowsGivenUp(s) = FlowsCancelled(c)
  BY Committing
<1>1. pc[s] = "commit" /\ RegistrationFine(s)
  BY <1>0 DEF Commit, Fine
<1>2. /\ cardStatus[CardOf[c]] = "active" /\ Claim(s) \notin mutations /\ CycleHeld(s)
      /\ \A p \in ActiveStatements(c) : MayReplace(p, r.authority)
      /\ \/ ~ MustReview(s) /\ writes[s] = Correction(s)
         \/ MustReview(s) /\ PlanHeld(s) /\ writes[s] = CorrectionAndReview(s)
  BY <1>1 DEF RegistrationFine
<1>3. PICK d, e, f : /\ writes[s] = Rows({Claim(s)}, ActiveStatements(c), Corrected(s), d, e, f, {})
                     /\ \/ ~ MustReview(s) /\ d = {} /\ e = {} /\ f = {}
                        \/ /\ MustReview(s) /\ PlanHeld(s)
                           /\ d = {[intents[c] EXCEPT !.status = "needs_review"]}
                           /\ e = ScheduledFlows(c) /\ f = FlowsGivenUp(s)
  <2>1. CASE ~ MustReview(s) /\ writes[s] = Correction(s)
    BY <2>1 DEF Correction
  <2>2. CASE MustReview(s) /\ PlanHeld(s) /\ writes[s] = CorrectionAndReview(s)
    BY <2>2 DEF CorrectionAndReview
  <2> QED
    BY <1>2, <2>1, <2>2
<1>4. PICK w : w = writes[s]
  OBVIOUS
<1>5. /\ w.in.mutations = {Claim(s)} /\ w.out.statements = ActiveStatements(c) /\ w.in.statements = Corrected(s)
       /\ w.in.intents = d /\ w.out.flows = e /\ w.in.flows = f /\ w.in.settlements = {}
  BY <1>3, <1>4, RowsAre
<1>6. /\ statements' = (statements \ ActiveStatements(c)) \cup Corrected(s)
      /\ flows' = (flows \ e) \cup f
      /\ d = {} => intents' = intents
      /\ \A i : d = {i} => intents' = [intents EXCEPT ![c] = i]
      /\ settlements' = settlements
      /\ mutations' = mutations \cup {Claim(s)}
      /\ UNCHANGED <<cardStatus, payments>>
  <2>1. /\ statements' = (statements \ w.out.statements) \cup w.in.statements
        /\ flows' = (flows \ w.out.flows) \cup w.in.flows
        /\ settlements' = settlements \cup w.in.settlements
        /\ mutations' = mutations \cup w.in.mutations
        /\ UNCHANGED <<cardStatus, payments>>
    BY <1>4, CommittedRows
  <2>2. /\ w.in.intents = {} => intents' = intents
        /\ \A i : w.in.intents = {i} => intents' = [intents EXCEPT ![c] = i]
    BY <1>4, CommittedRows
  <2> QED
    BY <1>5, <2>1, <2>2
<1>7. statements' = {IF p \in ActiveStatements(c) THEN [p EXCEPT !.supersededBy = r.key] ELSE p : p \in statements}
                      \cup {[id |-> r.key, cycle |-> c, revision |-> NextRevision(c), authority |-> r.authority,
                             balance |-> r.balance, due |-> r.due, supersededBy |-> NoKey]}
  <2>1. ActiveStatements(c) \subseteq statements
    BY DEF ActiveStatements
  <2>2. PICK new : new = [id |-> r.key, cycle |-> c, revision |-> NextRevision(c), authority |-> r.authority,
                          balance |-> r.balance, due |-> r.due, supersededBy |-> NoKey]
    OBVIOUS
  <2>3. Corrected(s) = {[p EXCEPT !.supersededBy = r.key] : p \in ActiveStatements(c)} \cup {new}
    BY <2>2 DEF Corrected
  <2> QED
    BY <1>6, <2>1, <2>2, <2>3, StatementsAsCorrected
<1>8. IF Outgrown(c, r.balance, r.due)
        THEN /\ intents' = [intents EXCEPT ![c].status = "needs_review"]
             /\ flows' = FlowsCancelled(c)
        ELSE UNCHANGED <<intents, flows>>
  <2>1. MustReview(s) <=> Outgrown(c, r.balance, r.due)
    BY DEF MustReview
  <2>2. ASSUME MustReview(s)
        PROVE  intents' = [intents EXCEPT ![c].status = "needs_review"] /\ flows' = FlowsCancelled(c)
    <3>1. PICK i : i = [intents[c] EXCEPT !.status = "needs_review"]
      OBVIOUS
    <3>2. d = {i} /\ e = ScheduledFlows(c) /\ f = FlowsGivenUp(s)
      BY <1>3, <2>2, <3>1
    <3>3. intents' = [intents EXCEPT ![c] = i]
      BY <1>6, <3>2
    <3>4. flows' = FlowsCancelled(c)
      BY <1>0, <1>6, <3>2
    <3> QED
      BY <3>1, <3>3, <3>4
  <2>3. ASSUME ~ MustReview(s)
        PROVE  UNCHANGED <<intents, flows>>
    BY <1>3, <1>6, <2>3
  <2> QED
    BY <2>1, <2>2, <2>3
<1>9. Next
  <2>1. /\ r.key \in Keys /\ r.authority \in {"estimated", "issued"}
        /\ r.balance \in Balances /\ r.due \in Dates
    BY <1>0, RequestsAre
  <2>2. Claim(s) = <<"register_credit_card_statement", r.key>>
    BY DEF Claim, IsRegistration
  <2>4. RegisterStatement(r.key, c, r.authority, r.balance, r.due)
    BY <1>2, <1>6, <1>7, <1>8, <2>2 DEF RegisterStatement, Unclaimed
  <2> QED
    BY <1>0, <2>1, <2>4 DEF Next
<1>10. OfCycle(writes[s], c)
  <2>1. \A x \in ActiveStatements(c) \cup Corrected(s) : x.cycle = c
    BY <1>0, OwnStatements
  <2>2. \A x \in e \cup f : x.cycle = c
    BY <1>0, <1>3, OwnFlows DEF FlowsGivenUp
  <2> QED
    BY <1>4, <1>5, <2>1, <2>2 DEF OfCycle
<1>11. Reaches(s, c)
  <2>1. ~ MustReview(s) => SamePlan(c)
    BY <1>3, <1>6 DEF SamePlan, FlowsOf, SettlementsOf
  <2> QED
    BY <1>2, <2>1 DEF Reaches
<1> QED
  BY <1>9, <1>10, <1>11

\* The commit of a replacement is ReplaceIntent: the cycle's lock has kept the
\* statement, and that there is no plan; or the plan's lock has kept the plan.
LEMMA ReplacementCommits ==
  ASSUME SInv, NEW s \in Sessions, Commit(s), IsReplacement(s), NEW c, c = Cycle(s)
  PROVE  Next /\ OfCycle(writes[s], c) /\ Reaches(s, c)
<1>0. /\ Fine(s) /\ SessionShapes /\ IInv /\ MoneyInv /\ c \in Cycles /\ flows \subseteq FlowRow
      /\ intents \in [Cycles -> IntentRow \cup {NoIntent}] /\ settlements \subseteq SettlementRow
      /\ (flows \ ScheduledFlows(c)) \cup FlowsGivenUp(s) = FlowsCancelled(c)
  BY Committing
<1>1. pc[s] = "commit" /\ ReplacementFine(s)
  BY <1>0 DEF Commit, Fine
<1>2. /\ CycleHeld(s) /\ Plannable(c, Amount(s), request[s].planned)
      /\ MayPlanAgain(s) /\ writes[s] = PlanAgain(s)
  BY <1>1 DEF ReplacementFine
<1>3. PICK version, plan, flow :
        /\ version = NextVersion(c)
        /\ plan = [amount |-> Amount(s), planned |-> request[s].planned, version |-> version, status |-> "active"]
        /\ flow = Flow(c, version, Amount(s), request[s].planned)
  OBVIOUS
<1>4. writes[s] = Rows({}, {}, {}, {plan}, ScheduledFlows(c), FlowsGivenUp(s) \cup {flow}, {})
  BY <1>2, <1>3 DEF PlanAgain
<1>5. PICK w : w = writes[s]
  OBVIOUS
<1>6. /\ w.in.mutations = {} /\ w.out.statements = {} /\ w.in.statements = {} /\ w.in.intents = {plan}
       /\ w.out.flows = ScheduledFlows(c) /\ w.in.flows = FlowsGivenUp(s) \cup {flow} /\ w.in.settlements = {}
  BY <1>4, <1>5, RowsAre
<1>7. /\ flows' = FlowsCancelled(c) \cup {flow}
      /\ intents' = [intents EXCEPT ![c] = plan]
      /\ UNCHANGED <<cardStatus, payments, statements, settlements, mutations>>
  <2>1. /\ statements' = (statements \ w.out.statements) \cup w.in.statements
        /\ flows' = (flows \ w.out.flows) \cup w.in.flows
        /\ settlements' = settlements \cup w.in.settlements
        /\ mutations' = mutations \cup w.in.mutations
        /\ UNCHANGED <<cardStatus, payments>>
    BY <1>5, CommittedRows
  <2>2. /\ w.in.intents = {} => intents' = intents
        /\ \A i : w.in.intents = {i} => intents' = [intents EXCEPT ![c] = i]
    BY <1>5, CommittedRows
  <2>3. flows' = (flows \ ScheduledFlows(c)) \cup (FlowsGivenUp(s) \cup {flow})
    BY <1>6, <2>1
  <2>4. flows' = FlowsCancelled(c) \cup {flow}
    BY <1>0, <2>3
  <2>5. intents' = [intents EXCEPT ![c] = plan]
    BY <1>6, <2>2
  <2>6. UNCHANGED <<cardStatus, payments, statements, settlements, mutations>>
    BY <1>6, <2>1
  <2> QED
    BY <2>4, <2>5, <2>6
<1>8. Amount(s) \in Amounts /\ request[s].planned \in Dates /\ Amount(s) \in Nat /\ Amount(s) > 0
  <2>1. Amount(s) \in Amounts /\ request[s].planned \in Dates
    BY <1>0, RequestsAre
  <2>2. \A a \in Amounts : a \in Nat /\ a > 0
    BY MoneyAssumption
  <2> QED
    BY <2>1, <2>2
<1>9. LifecycleConsistent(c)'
  <2>1. SettledAmount(c) = 0
    <3>1. ~ HasIntent(c) => SettlementsOf(c) = {}
      BY <1>0 DEF IInv, SettlementsArePosted, SettlementsOf
    <3>2. SettlementsOf(c) = {} => SettledAmount(c) = 0
      BY <1>0, SettledIsNatural DEF MoneyInv
    <3> QED
      BY <1>2, <3>1, <3>2 DEF MayPlanAgain
  <2>2. SettledAmount(c)' = 0
    BY <1>7, <2>1, SettledUnchanged
  <2>3. intents'[c] = plan
    BY <1>0, <1>7
  <2>4. plan.amount = Amount(s) /\ plan.planned = request[s].planned /\ plan.status = "active"
    BY <1>3
  <2>5. /\ flow.amount = Amount(s) /\ flow.date = request[s].planned
        /\ flow.cycle = c /\ flow.status = "scheduled"
    BY <1>3 DEF Flow
  <2>6. \A f \in flows' : IsScheduled(f, c) <=> f = flow
    BY <1>0, <1>7, <2>5, CancelledFlows DEF IsScheduled
  <2>7. ScheduledFlows(c)' = {flow} /\ flow \in flows'
    BY <1>7, <2>6 DEF ScheduledFlows, IsScheduled
  <2> QED
    BY <1>8, <2>2, <2>3, <2>4, <2>5, <2>7 DEF LifecycleConsistent
<1>10. Next
  <2>1. ReplaceIntent(c, Amount(s), request[s].planned)
    BY <1>2, <1>3, <1>7, <1>9 DEF ReplaceIntent, MayPlanAgain
  <2> QED
    BY <1>0, <1>8, <2>1 DEF Next
<1>11. OfCycle(writes[s], c)
  <2>1. \A x \in ScheduledFlows(c) \cup (FlowsGivenUp(s) \cup {flow}) : x.cycle = c
    BY <1>0, <1>3, OwnFlows DEF FlowsGivenUp
  <2> QED
    BY <1>5, <1>6, <2>1 DEF OfCycle
<1>12. Reaches(s, c)
  BY <1>2 DEF Reaches, MayPlanAgain
<1> QED
  BY <1>10, <1>11, <1>12

\* The commit of a cancellation is CancelIntent: the plan's lock has kept it.
LEMMA CancellationCommits ==
  ASSUME SInv, NEW s \in Sessions, Commit(s), IsCancellation(s), NEW c, c = Cycle(s)
  PROVE  Next /\ OfCycle(writes[s], c) /\ Reaches(s, c)
<1>0. /\ Fine(s) /\ SessionShapes /\ c \in Cycles /\ flows \subseteq FlowRow
      /\ intents \in [Cycles -> IntentRow \cup {NoIntent}]
      /\ (flows \ ScheduledFlows(c)) \cup FlowsGivenUp(s) = FlowsCancelled(c)
  BY Committing
<1>1. pc[s] = "commit" /\ CancellationFine(s)
  BY <1>0 DEF Commit, Fine
<1>2. PlanHeld(s) /\ HasIntent(c) /\ Cancellable(c) /\ writes[s] = GivingUp(s)
  BY <1>1 DEF CancellationFine, PlanHeld
<1>3. PICK plan : plan = [intents[c] EXCEPT !.status = "cancelled", !.version = @ + 1]
  OBVIOUS
<1>4. writes[s] = Rows({}, {}, {}, {plan}, ScheduledFlows(c), FlowsGivenUp(s), {})
  BY <1>2, <1>3 DEF GivingUp
<1>5. PICK w : w = writes[s]
  OBVIOUS
<1>6. /\ w.in.mutations = {} /\ w.out.statements = {} /\ w.in.statements = {} /\ w.in.intents = {plan}
       /\ w.out.flows = ScheduledFlows(c) /\ w.in.flows = FlowsGivenUp(s) /\ w.in.settlements = {}
  BY <1>4, <1>5, RowsAre
<1>7. /\ flows' = FlowsCancelled(c)
      /\ intents' = [intents EXCEPT ![c] = plan]
      /\ UNCHANGED <<cardStatus, payments, statements, settlements, mutations>>
  <2>1. /\ statements' = (statements \ w.out.statements) \cup w.in.statements
        /\ flows' = (flows \ w.out.flows) \cup w.in.flows
        /\ settlements' = settlements \cup w.in.settlements
        /\ mutations' = mutations \cup w.in.mutations
        /\ UNCHANGED <<cardStatus, payments>>
    BY <1>5, CommittedRows
  <2>2. /\ w.in.intents = {} => intents' = intents
        /\ \A i : w.in.intents = {i} => intents' = [intents EXCEPT ![c] = i]
    BY <1>5, CommittedRows
  <2>3. flows' = FlowsCancelled(c)
    BY <1>0, <1>6, <2>1
  <2>4. intents' = [intents EXCEPT ![c] = plan]
    BY <1>6, <2>2
  <2> QED
    BY <1>6, <2>1, <2>3, <2>4
<1>8. intents' = [intents EXCEPT ![c].status = "cancelled", ![c].version = @ + 1]
  BY <1>3, <1>7
<1>9. CancelIntent(c)
  BY <1>2, <1>7, <1>8 DEF CancelIntent
<1>10. HasIntent(c)' /\ intents'[c].status = "cancelled"
  <2>1. IInv
    BY DEF SInv
  <2> QED
    BY <1>0, <1>2, <1>8, <2>1, EndedPlan
<1>11. OfCycle(writes[s], c)
  <2>1. \A x \in ScheduledFlows(c) \cup FlowsGivenUp(s) : x.cycle = c
    BY <1>0, OwnFlows DEF FlowsGivenUp
  <2> QED
    BY <1>5, <1>6, <2>1 DEF OfCycle
<1>12. Reaches(s, c)
  <2>1. ActiveStatements(c)' = ActiveStatements(c)
    BY <1>7 DEF ActiveStatements
  <2> QED
    BY <1>2, <1>10, <2>1 DEF Reaches
<1> QED
  BY <1>0, <1>9, <1>11, <1>12 DEF Next

\* The commit of a settlement is SettleIntent with the payment it looked at:
\* the plan's lock has kept what is left of the plan.
LEMMA SettlementCommits ==
  ASSUME SInv, NEW s \in Sessions, Commit(s), IsSettlement(s), NEW c, c = Cycle(s)
  PROVE  Next /\ OfCycle(writes[s], c) /\ Reaches(s, c)
<1>0. /\ Fine(s) /\ SessionShapes /\ IInv /\ MoneyInv /\ c \in Cycles /\ flows \subseteq FlowRow
      /\ intents \in [Cycles -> IntentRow \cup {NoIntent}]
      /\ settlements \subseteq SettlementRow /\ payments \subseteq PaymentRow
      /\ (flows \ ScheduledFlows(c)) \cup FlowsGivenUp(s) = FlowsCancelled(c)
  BY Committing
<1>1. pc[s] = "commit" /\ SettlementFine(s)
  BY <1>0 DEF Commit, Fine
<1>2. /\ Claim(s) \notin mutations /\ PlanHeld(s) /\ HasIntent(c) /\ MayPay(s)
      /\ \A n \in settlements : n.transfer # request[s].transfer
      /\ \/ Left(s) = 0 /\ writes[s] = PayingAll(s)
         \/ /\ Left(s) # 0 /\ FlowIdFree(c, intents[c].version, Left(s))
            /\ writes[s] = PayingPart(s)
  BY <1>1 DEF SettlementFine, PlanHeld
<1>3. PICK p : p = Payment(s)
  OBVIOUS
<1>4. /\ intents[c].status = "active"
      /\ p \in payments /\ p.id = request[s].transfer /\ p.destination = CardOf[c] /\ FitsRemaining(p, c)
      /\ Left(s) = Remaining(c) - p.amount
      /\ Link(s) = [id |-> request[s].key, cycle |-> c, transfer |-> p.id, amount |-> p.amount]
  BY <1>2, <1>3 DEF MayPay, Left, Link
<1>5. PICK d, f : /\ writes[s] = Rows({Claim(s)}, {}, {}, d, ScheduledFlows(c), f, {Link(s)})
                  /\ \/ /\ Left(s) = 0 /\ d = {[intents[c] EXCEPT !.status = "settled", !.version = @ + 1]}
                        /\ f = FlowsEnded(c, "settled", p.id)
                     \/ /\ Left(s) # 0 /\ FlowIdFree(c, intents[c].version, Left(s)) /\ d = {}
                        /\ f = FlowsGivenUp(s) \cup {Flow(c, intents[c].version, Left(s), intents[c].planned)}
  <2>1. CASE Left(s) = 0 /\ writes[s] = PayingAll(s)
    BY <1>3, <2>1 DEF PayingAll
  <2>2. CASE Left(s) # 0 /\ FlowIdFree(c, intents[c].version, Left(s)) /\ writes[s] = PayingPart(s)
    BY <1>3, <2>2 DEF PayingPart
  <2> QED
    BY <1>2, <2>1, <2>2
<1>6. PICK w : w = writes[s]
  OBVIOUS
<1>7. /\ w.in.mutations = {Claim(s)} /\ w.out.statements = {} /\ w.in.statements = {} /\ w.in.intents = d
       /\ w.out.flows = ScheduledFlows(c) /\ w.in.flows = f /\ w.in.settlements = {Link(s)}
  BY <1>5, <1>6, RowsAre
<1>8. /\ statements' = statements
      /\ flows' = (flows \ ScheduledFlows(c)) \cup f
      /\ d = {} => intents' = intents
      /\ \A i : d = {i} => intents' = [intents EXCEPT ![c] = i]
      /\ settlements' = settlements \cup {Link(s)}
      /\ mutations' = mutations \cup {Claim(s)}
      /\ UNCHANGED <<cardStatus, payments>>
  BY <1>6, <1>7, CommittedRows
<1>9. UNCHANGED <<cardStatus, payments, statements>>
  BY <1>8
<1>10. \/ SettleInFull(c, p) /\ HasIntent(c)' /\ intents'[c].status # "active"
       \/ SettleInPart(c, p) /\ intents' = intents
  <2>1. ASSUME Left(s) = 0
        PROVE  SettleInFull(c, p) /\ HasIntent(c)' /\ intents'[c].status # "active"
    <3>1. PICK plan : plan = [intents[c] EXCEPT !.status = "settled", !.version = @ + 1]
      OBVIOUS
    <3>2. d = {plan} /\ f = FlowsEnded(c, "settled", p.id)
      BY <1>5, <2>1, <3>1
    <3>3. intents' = [intents EXCEPT ![c] = plan]
      BY <1>8, <3>2
    <3>4. intents' = [intents EXCEPT ![c].status = "settled", ![c].version = @ + 1]
      BY <3>1, <3>3
    <3>5. flows' = FlowsSettled(c, p.id)
      BY <1>8, <3>2, FlowsAsSettled
    <3>6. p.amount = Remaining(c)
      <4>1. Remaining(c) \in Nat
        BY <1>0, <1>2, <1>4, ActivePlan
      <4>2. p.amount \in Nat
        BY <1>0, <1>4, MoneyAssumption DEF PaymentRow
      <4> QED
        BY <1>4, <2>1, <4>1, <4>2
    <3>7. HasIntent(c)' /\ intents'[c].status = "settled"
      BY <1>0, <1>2, <1>4, <3>4, EndedPlan DEF Cancellable
    <3> QED
      BY <3>4, <3>5, <3>6, <3>7 DEF SettleInFull
  <2>2. ASSUME Left(s) # 0
        PROVE  SettleInPart(c, p) /\ intents' = intents
    <3>1. PICK flow : flow = Flow(c, intents[c].version, Left(s), intents[c].planned)
      OBVIOUS
    <3>2. d = {} /\ f = FlowsGivenUp(s) \cup {flow} /\ FlowIdFree(c, intents[c].version, Left(s))
      BY <1>5, <2>2, <3>1
    <3>3. intents' = intents /\ flows' = FlowsCancelled(c) \cup {flow}
      BY <1>0, <1>8, <3>2
    <3> QED
      BY <1>4, <2>2, <3>1, <3>2, <3>3 DEF SettleInPart
  <2> QED
    BY <2>1, <2>2
<1>11. Next
  <2>1. request[s].key \in Keys
    BY <1>0, RequestsAre
  <2>2. Claim(s) = <<"settle_credit_card_payment_intent", request[s].key>>
    BY DEF Claim, IsSettlement
  <2>3. Linked(p, c)
    BY <1>2, <1>4 DEF Linked
  <2>4. SettleIntent(request[s].key, c, p)
    BY <1>2, <1>4, <1>8, <1>9, <1>10, <2>2, <2>3 DEF SettleIntent, Unclaimed
  <2> QED
    BY <1>0, <1>4, <2>1, <2>4 DEF Next
<1>12. OfCycle(writes[s], c)
  <2>1. \A x \in ScheduledFlows(c) \cup f : x.cycle = c
    BY <1>0, <1>5, OwnFlows DEF FlowsGivenUp
  <2>2. Link(s).cycle = c
    BY <1>4
  <2> QED
    BY <1>6, <1>7, <2>1, <2>2 DEF OfCycle
<1>13. Reaches(s, c)
  <2>1. ActiveStatements(c)' = ActiveStatements(c)
    BY <1>9 DEF ActiveStatements
  <2> QED
    BY <1>2, <1>10, <2>1 DEF Reaches
<1> QED
  BY <1>11, <1>12, <1>13

\* Whoever else holds something keeps it through a commit.
LEMMA CommitDisturbsNobody ==
  ASSUME SInv, NEW s \in Sessions, Commit(s), NEW b, b = Cycle(s), OfCycle(writes[s], b), Reaches(s, b),
         PaymentsAreDistinct', NEW o \in Sessions \ {s}, NEW c, c = Cycle(o)
  PROVE  Undisturbed(o, c)
<1>1. Apart(s, o) /\ Apart(o, s)
  BY DEF SInv
<1>2. PICK w : w = writes[s]
  OBVIOUS
<1>3. /\ settlements' = settlements \cup w.in.settlements
      /\ mutations' = mutations \cup w.in.mutations
      /\ cardStatus' = cardStatus /\ payments' = payments
  BY <1>2 DEF Commit
<1>4. c # b => SamePlan(c) /\ ActiveStatements(c)' = ActiveStatements(c)
  BY OtherCycles
<1>5. /\ c = b /\ CycleHeld(o) => ~ CycleHeld(s)
      /\ c = b /\ PlanHeld(o) => ~ PlanHeld(s) /\ HasIntent(b)
  BY <1>1 DEF Apart, CycleHeld, PlanHeld
<1>6. CycleHeld(o) =>
        /\ ActiveStatements(c)' = ActiveStatements(c)
        /\ intents'[c] = intents[c] \/ (HasIntent(c) /\ HasIntent(c)' /\ intents'[c].status # "active")
        /\ ~ HasIntent(c) => SamePlan(c)
  <2>1. CASE c # b
    BY <1>4, <2>1 DEF SamePlan
  <2>2. CASE c = b
    <3>1. PlanHeld(s) => HasIntent(c)
      BY <2>2 DEF PlanHeld
    <3> QED
      BY <1>5, <2>2, <3>1 DEF Reaches
  <2> QED
    BY <2>1, <2>2
<1>7. PlanHeld(o) => SamePlan(c)
  <2>1. CASE c # b
    BY <1>4, <2>1
  <2>2. CASE c = b
    BY <1>5, <2>2 DEF Reaches
  <2> QED
    BY <2>1, <2>2
<1>8. Claim(o) \in writes[o].in.mutations /\ Claim(o) \notin mutations => Claim(o) \notin mutations'
  BY <1>1, <1>2, <1>3 DEF Apart
<1>9. \A n \in writes[o].in.settlements :
        (\A m \in settlements : m.transfer # n.transfer) => \A m \in settlements' : m.transfer # n.transfer
  BY <1>1, <1>2, <1>3 DEF Apart
<1> QED
  BY <1>3, <1>6, <1>7, <1>8, <1>9 DEF Undisturbed

\* A commit is one of the operations of CardPayments.
LEMMA CommitKeeps ==
  ASSUME SInv, NEW s \in Sessions, Commit(s)
  PROVE  SInv' /\ Next
<1>1. PICK b : b = Cycle(s)
  OBVIOUS
<1>2. Next /\ OfCycle(writes[s], b) /\ Reaches(s, b)
  <2>1. IsRegistration(s) \/ IsReplacement(s) \/ IsCancellation(s) \/ IsSettlement(s)
    BY RequestsAre DEF SInv
  <2> QED
    BY <1>1, <2>1, RegistrationCommits, ReplacementCommits, CancellationCommits, SettlementCommits
<1>3. IInv' /\ MoneyInv' /\ OpenFlowsSettleNothing' /\ PaymentsAreDistinct'
  BY <1>2, NextPreservesIInv, NextPreservesMoneyInv, NextPreservesOpenFlows DEF SInv, IInv
<1>4. Advances(s, "done", {}, seen[s], NoWrites)
  <2>1. End(s, "done")
    BY DEF Commit
  <2> QED
    BY <2>1, Unmoved DEF Advances, End, Goto
<1>5. /\ SessionShapes'
      /\ pc'[s] = "done" /\ exclusive'[s] = {} /\ writes'[s] = NoWrites
      /\ \A o \in Sessions \ {s} : SameSession(o)
  <2>1. {} \in SUBSET LockRows /\ seen[s] \in SUBSET StatementRow /\ SessionShapes
    BY Unmoved DEF SInv
  <2> QED
    BY <1>4, <2>1, AdvancedSession
<1>6. Fine(s)'
  BY <1>5 DEF Fine, RegistrationFine, ReplacementFine, CancellationFine, SettlementFine, Ended
<1>7. ASSUME NEW o \in Sessions \ {s}
      PROVE  Fine(o)'
  <2>1. PICK c : c = Cycle(o)
    OBVIOUS
  <2>2. Undisturbed(o, c)
    BY <1>1, <1>2, <1>3, <2>1, CommitDisturbsNobody
  <2> QED
    BY <1>5, <2>1, <2>2, StaysFine DEF SInv
<1>8. ASSUME NEW o \in Sessions, NEW p \in Sessions, o # p
      PROVE  Apart(o, p)'
  <2>1. NoWrites.in.mutations = {} /\ NoWrites.in.settlements = {}
    BY NoRows, RowsAre
  <2>2. Apart(o, p)
    BY <1>8 DEF SInv
  <2> QED
    BY <1>5, <1>8, <2>1, <2>2 DEF Apart, SameSession
<1> QED
  BY <1>2, <1>3, <1>5, <1>6, <1>7, <1>8 DEF SInv

-----------------------------------------------------------------------------
(* Steps of the ledger *)

LEMMA LedgerKeeps ==
  ASSUME SInv, LedgerPosts \/ LedgerArchives
  PROVE  SInv' /\ Next
<1>1. Next /\ UNCHANGED <<exclusive, pc, request, seen, writes>>
  BY DEF LedgerPosts, LedgerArchives, Next, locks
<1>2. IInv' /\ MoneyInv' /\ OpenFlowsSettleNothing' /\ PaymentsAreDistinct'
  BY <1>1, NextPreservesIInv, NextPreservesMoneyInv, NextPreservesOpenFlows DEF SInv, IInv
<1>3. UNCHANGED <<statements, intents, flows, settlements, mutations>> /\ payments \subseteq payments'
  BY DEF LedgerPosts, LedgerArchives, PostTransfer, ArchiveAccount
<1>4. ASSUME NEW s \in Sessions
      PROVE  Fine(s)'
  <2>1. PICK c : c = Cycle(s)
    OBVIOUS
  <2>2. AccountHeld(s) => cardStatus'[CardOf[c]] = cardStatus[CardOf[c]]
    <3>1. CASE LedgerPosts
      BY <3>1 DEF LedgerPosts, PostTransfer
    <3>2. CASE LedgerArchives
      <4>1. PICK card \in Cards : /\ ArchiveAccount(card)
                                  /\ AccountRow(card) \notin exclusive[s]
        BY <3>2 DEF LedgerArchives
      <4>2. AccountHeld(s) => CardOf[c] # card
        BY <2>1, <4>1 DEF AccountHeld
      <4>3. cardStatus \in [Cards -> {"active", "archived"}] /\ CardOf[c] \in Cards
        BY <2>1, RequestsAre DEF SInv, MoneyInv, TypeOK
      <4> QED
        BY <4>1, <4>2, <4>3 DEF ArchiveAccount
    <3> QED
      BY <3>1, <3>2
  <2>3. SamePlan(c) /\ ActiveStatements(c)' = ActiveStatements(c)
    BY <1>3 DEF SamePlan, FlowsOf, SettlementsOf, ActiveStatements
  <2>4. Undisturbed(s, c)
    BY <1>2, <1>3, <2>2, <2>3 DEF Undisturbed, SamePlan
  <2>5. SameSession(s)
    BY <1>1 DEF SameSession
  <2> QED
    BY <2>1, <2>4, <2>5, StaysFine DEF SInv
<1>5. SessionShapes' /\ \A s, o \in Sessions : s # o => Apart(s, o)'
  BY <1>1 DEF SInv, SessionShapes, Apart
<1> QED
  BY <1>1, <1>2, <1>4, <1>5 DEF SInv

-----------------------------------------------------------------------------
(* The specification *)

LEMMA InitSInv == SessionsInit => SInv
<1> SUFFICES ASSUME SessionsInit PROVE SInv
  OBVIOUS
<1>1. Init /\ IInv /\ MoneyInv /\ OpenFlowsSettleNothing
  BY InitIInv, InitMoneyInv, InitOpenFlows DEF SessionsInit
<1>2. SessionShapes
  BY WorkloadAssumption DEF SessionsInit, SessionShapes
<1>3. \A s \in Sessions : pc[s] = "idle" /\ writes[s] = NoWrites /\ exclusive[s] = {}
  BY DEF SessionsInit
<1>4. \A s \in Sessions : Fine(s)
  BY <1>3 DEF Fine, RegistrationFine, ReplacementFine, CancellationFine, SettlementFine, Ended
<1>5. NoWrites.in.mutations = {} /\ NoWrites.in.settlements = {}
  BY NoRows, RowsAre
<1>6. \A s, o \in Sessions : s # o => Apart(s, o)
  BY <1>3, <1>5 DEF Apart
<1> QED
  BY <1>1, <1>2, <1>4, <1>6 DEF SInv

\* Every statement of every session keeps what all of them know; a commit is a
\* step of CardPayments, and nothing else changes a row of it.
LEMMA SessionsFollowPayments == SInv /\ [SessionsNext]_sessionVars => SInv' /\ [Next]_vars
<1> SUFFICES ASSUME SInv, [SessionsNext]_sessionVars PROVE SInv' /\ [Next]_vars
  OBVIOUS
<1>1. ASSUME NEW s \in Sessions, Begin(s)
      PROVE  SInv' /\ [Next]_vars
  BY <1>1, BeginKeeps
<1>2. ASSUME NEW s \in Sessions, Commit(s)
      PROVE  SInv' /\ [Next]_vars
  BY <1>2, CommitKeeps
<1>3. ASSUME NEW s \in Sessions,
             ClaimMutation(s) \/ LockAccount(s) \/ LockCycle(s) \/ InsertStatement(s) \/ ReviewIntent(s)
      PROVE  SInv' /\ [Next]_vars
  BY <1>3, ClaimKeeps, LockAccountKeeps, LockCycleKeeps, InsertStatementKeeps, ReviewKeeps
<1>4. ASSUME NEW s \in Sessions,
             \/ LockIntent(s) \/ ReadStatement(s) \/ Validate(s) \/ InsertIntent(s) \/ ReplaceVersion(s)
             \/ Cancel(s)
      PROVE  SInv' /\ [Next]_vars
  BY <1>4, LockIntentKeeps, ReadStatementKeeps, ValidateKeeps, ReplacementKeeps, ReplaceVersionKeeps,
     CancelKeeps
<1>5. ASSUME NEW s \in Sessions,
             CheckSettlement(s) \/ InsertSettlement(s) \/ CheckForeignKey(s) \/ SettleFlow(s)
      PROVE  SInv' /\ [Next]_vars
  BY <1>5, CheckSettlementKeeps, InsertSettlementKeeps, CheckForeignKeyKeeps, SettleFlowKeeps
<1>6. ASSUME NEW s \in Sessions, BreakDeadlock(s) \/ Fail(s)
      PROVE  SInv' /\ [Next]_vars
  BY <1>6, EndKeepsSInv DEF BreakDeadlock, Fail, Ended
<1>7. CASE LedgerPosts \/ LedgerArchives
  BY <1>7, LedgerKeeps
<1>8. CASE UNCHANGED sessionVars
  <2>1. UNCHANGED <<vars, exclusive, pc, request, seen, writes>>
    BY <1>8 DEF sessionVars, committed, locks
  <2>2. IInv' /\ MoneyInv'
    BY <2>1, NextPreservesIInv, NextPreservesMoneyInv DEF SInv
  <2>3. OpenFlowsSettleNothing'
    BY <2>1 DEF SInv, OpenFlowsSettleNothing, vars
  <2>4. \A s \in Sessions : Fine(s)'
    <3> SUFFICES ASSUME NEW s \in Sessions PROVE Fine(s)'
      OBVIOUS
    <3>1. PICK c : c = Cycle(s)
      OBVIOUS
    <3>2. SamePlan(c) /\ ActiveStatements(c)' = ActiveStatements(c)
      BY <2>1 DEF vars, SamePlan, FlowsOf, SettlementsOf, ActiveStatements
    <3>3. PaymentsAreDistinct'
      BY <2>2 DEF IInv
    <3>4. Undisturbed(s, c) /\ SameSession(s)
      BY <2>1, <3>2, <3>3 DEF Undisturbed, vars, SamePlan, SameSession
    <3> QED
      BY <3>1, <3>4, StaysFine DEF SInv
  <2>5. SessionShapes' /\ \A s, o \in Sessions : s # o => Apart(s, o)'
    BY <2>1 DEF SInv, SessionShapes, Apart
  <2> QED
    BY <2>1, <2>2, <2>3, <2>4, <2>5 DEF SInv
<1> QED
  BY <1>1, <1>2, <1>3, <1>4, <1>5, <1>6, <1>7, <1>8 DEF SessionsNext, Progress, AllServed

LEMMA SessionsKeepSInv == SessionsSpec => []SInv
BY InitSInv, SessionsFollowPayments, PTL DEF SessionsSpec

\* For any number of sessions and any requests: whatever corrections,
\* replacements, cancellations and settlements interleave, fail, or end as the
\* victim of a deadlock, the rows in force change as if each commit were one
\* call that nothing interrupts (the FOR UPDATE locks and their order in
\* RegisterStatement, ReplaceIntent, CancelIntent and SettleIntent).
THEOREM SessionsImplementPayments == SessionsSpec => ImplementsCardPayments
<1>1. SessionsInit => Init
  BY DEF SessionsInit
<1> QED
  BY <1>1, SessionsKeepSInv, SessionsFollowPayments, PTL DEF SessionsSpec, ImplementsCardPayments

\* So after every interleaving the plans fit the statements in force, and what is
\* planned and what is paid add up (the triggers of migrations 0009 and 0015).
THEOREM SessionsReconcile == SessionsSpec => [](PlansFollowTheStatement /\ PlansReconcileWithPayments)
<1>1. SessionsSpec => Spec
  BY SessionsImplementPayments, PTL DEF ImplementsCardPayments, Spec
<1> QED
  BY <1>1, CardPlansFollowTheStatement, CardPlansReconcile, PTL

=============================================================================
