---------------------------- MODULE ScheduleProofs ----------------------------
(***************************************************************************)
(* Theorems of Schedule and ScheduleSessions for every set of keys,        *)
(* transactions and amounts, every finite set of sessions and every        *)
(* workload.                                                               *)
(*                                                                         *)
(* That a changed row stands for the row it was read from needs that a key *)
(* names one row of a table, and that needs that the key of every row is   *)
(* claimed (IInv).  What is collected as the sum of the collections        *)
(* (SumInv) follows each collection into the sum of its receivable.        *)
(*                                                                         *)
(* At its commit a session has its key to itself, still holds the row it   *)
(* read, and nobody else writes a collection for its ledger transaction    *)
(* (SInv): so the commit is the operation of Schedule on the rows as they  *)
(* are then, and the invariants of Schedule hold of the sessions.  The     *)
(* answers follow the claims (AnswerInv), the times of the rows the locks  *)
(* (TimeInv).                                                              *)
(***************************************************************************)
EXTENDS ScheduleSessions, SumTheorems

IsClaimed(operation, key) == \E c \in claims : c[1] = operation /\ c[2] = key

\* A key that is free names no row.
RowsAreClaimed ==
  /\ \A o \in obligations : IsClaimed("create_obligation", o.id)
  /\ \A f \in flows : IsClaimed("create_scheduled_flow", f.id)
  /\ \A r \in receivables : IsClaimed("create_receivable", r.id)
  /\ \A c \in collections : IsClaimed("collect_receivable", c.id)

OneToAKey(rows) == \A x, y \in rows : x.id = y.id => x = y

RowsAreDistinct ==
  /\ OneToAKey(ledger)
  /\ OneToAKey(obligations)
  /\ OneToAKey(flows)
  /\ OneToAKey(receivables)
  /\ OneToAKey(collections)

\* The status of a receivable says how much of it is left (the CHECKs of
\* migration 0004 on receivables).
TellsWhatIsLeft(r) ==
  /\ r.collected <= r.original
  /\ r.status = "open" => r.collected = 0
  /\ r.status = "partially_collected" => 0 < r.collected /\ r.collected < r.original
  /\ r.status = "collected" <=> r.collected = r.original

StatusTellsWhatIsLeft == \A r \in receivables : TellsWhatIsLeft(r)

\* A collection ends within what its receivable has collected, and says whether
\* it completed it.
IsWithin(c, r) ==
  /\ r.id = c.receivable
  /\ After(c) <= r.collected
  /\ c.resulting = "collected" <=> After(c) = r.original

CollectionsAreWithin == \A c \in collections : \E r \in receivables : IsWithin(c, r)

IInv ==
  /\ TypeOK
  /\ RowsAreClaimed
  /\ RowsAreDistinct
  /\ StatusTellsWhatIsLeft
  /\ CollectionsAreWithin
  /\ LinksAreEvidence

\* What is collected is the sum of the collections, of which one ends where
\* the next begins, and the last where the receivable is.
AddsUp(r) ==
  /\ r.collected = SumFunction([c \in CollectionsOf(r) |-> c.amount])
  /\ r.collected = 0 \/ \E d \in CollectionsOf(r) : After(d) = r.collected
  /\ \A c \in CollectionsOf(r) : c.before = 0 \/ \E d \in CollectionsOf(r) : After(d) = c.before

SumInv ==
  /\ IsFiniteSet(collections)
  /\ \A r \in receivables : AddsUp(r)

LEMMA AmountsArePositive ==
  /\ \A n \in Originals : n \in Nat /\ n > 0
  /\ \A n \in Amounts : n \in Nat /\ n > 0
BY AmountAssumption

-----------------------------------------------------------------------------
(* Claims *)

LEMMA UnclaimedNamesNothing ==
  ASSUME NEW operation, NEW key, Unclaimed(operation, key)
  PROVE  ~ IsClaimed(operation, key)
BY DEF Unclaimed, IsClaimed

LEMMA ClaimsStay ==
  ASSUME NEW operation \in Operations, NEW key \in Keys, NEW fingerprint,
         Claimed(operation, key, fingerprint),
         \A c \in claims : c[1] \in Operations /\ c[2] \in Keys
  PROVE  /\ \A c \in claims' : c[1] \in Operations /\ c[2] \in Keys
         /\ IsClaimed(operation, key)'
         /\ \A op, k : IsClaimed(op, k) => IsClaimed(op, k)'
<1>1. claims' = claims \cup {<<operation, key, fingerprint>>}
  BY DEF Claimed
<1>2. \A c \in claims' : c \in claims \/ c = <<operation, key, fingerprint>>
  BY <1>1
<1> DEFINE new == <<operation, key, fingerprint>>
<1>3. new \in claims' /\ new[1] = operation /\ new[2] = key
  BY <1>1
<1> HIDE DEF new
<1>4. \A c \in claims' : c \in claims \/ c = new
  BY <1>2 DEF new
<1>5. \A c \in claims' : c[1] \in Operations /\ c[2] \in Keys
  BY <1>3, <1>4
<1>6. \E c \in claims' : c[1] = operation /\ c[2] = key
  BY <1>3
<1>7. claims \subseteq claims'
  BY <1>1
<1> QED
  BY <1>5, <1>6, <1>7 DEF IsClaimed

\* What all operations but the collection leave of the invariant: they keep the
\* claims, or add one, and change one table.
LEMMA StillClaimed ==
  ASSUME IInv, NEW operation \in Operations, NEW key \in Keys, NEW fingerprint,
         Claimed(operation, key, fingerprint)
  PROVE  /\ \A c \in claims' : c[1] \in Operations /\ c[2] \in Keys
         /\ IsClaimed(operation, key)'
         /\ \A o \in obligations : IsClaimed("create_obligation", o.id)'
         /\ \A f \in flows : IsClaimed("create_scheduled_flow", f.id)'
         /\ \A r \in receivables : IsClaimed("create_receivable", r.id)'
         /\ \A c \in collections : IsClaimed("collect_receivable", c.id)'
BY ClaimsStay DEF IInv, TypeOK, RowsAreClaimed

-----------------------------------------------------------------------------
(* Each operation preserves the invariant *)

LEMMA PostTransactionPreservesIInv ==
  ASSUME IInv, NEW id \in Transactions, NEW effect \in Effects, NEW amount \in Amounts,
         PostTransaction(id, effect, amount)
  PROVE  IInv'
<1>1. /\ \A t \in ledger : t.id # id
      /\ ledger' = ledger \cup {[id |-> id, effect |-> effect, amount |-> amount]}
      /\ UNCHANGED <<obligations, flows, receivables, collections, claims>>
  BY DEF PostTransaction
<1>2. TypeOK'
  BY <1>1 DEF IInv, TypeOK, TransactionRow
<1>3. RowsAreDistinct'
  BY <1>1 DEF IInv, RowsAreDistinct, OneToAKey
<1>4. RowsAreClaimed' /\ StatusTellsWhatIsLeft' /\ CollectionsAreWithin'
  BY <1>1 DEF IInv, RowsAreClaimed, IsClaimed, StatusTellsWhatIsLeft, CollectionsAreWithin
<1>5. LinksAreEvidence'
  BY <1>1 DEF IInv, LinksAreEvidence
<1> QED
  BY <1>2, <1>3, <1>4, <1>5 DEF IInv

LEMMA ObligationsPreserveIInv ==
  ASSUME IInv, NEW key \in Keys,
         \/ CreateObligation(key)
         \/ \E o \in obligations : ArchiveObligation(key, o)
  PROVE  IInv'
<1>1. UNCHANGED <<ledger, flows, receivables, collections>>
  BY DEF CreateObligation, ArchiveObligation
<1>2. /\ \A c \in claims' : c[1] \in Operations /\ c[2] \in Keys
      /\ \A o \in obligations : IsClaimed("create_obligation", o.id)'
      /\ \A f \in flows : IsClaimed("create_scheduled_flow", f.id)'
      /\ \A r \in receivables : IsClaimed("create_receivable", r.id)'
      /\ \A c \in collections : IsClaimed("collect_receivable", c.id)'
      /\ CreateObligation(key) => IsClaimed("create_obligation", key)'
  BY StillClaimed DEF CreateObligation, ArchiveObligation, Operations
<1>3. /\ obligations' \subseteq ObligationRow
      /\ OneToAKey(obligations')
      /\ \A o \in obligations' : IsClaimed("create_obligation", o.id)'
  <2>1. /\ obligations \subseteq ObligationRow
        /\ OneToAKey(obligations)
    BY DEF IInv, TypeOK, RowsAreDistinct
  <2>2. CASE CreateObligation(key)
    <3>1. \A o \in obligations : o.id # key
      BY <2>2, UnclaimedNamesNothing DEF CreateObligation, IInv, RowsAreClaimed
    <3> QED
      BY <1>2, <2>1, <2>2, <3>1 DEF CreateObligation, NewObligation, ObligationRow, OneToAKey
  <2>3. ASSUME NEW o \in obligations, ArchiveObligation(key, o)
        PROVE  /\ obligations' \subseteq ObligationRow
               /\ OneToAKey(obligations')
               /\ \A x \in obligations' : IsClaimed("create_obligation", x.id)'
    <3> DEFINE new == [o EXCEPT !.status = "archived"]
    <3>1. new \in ObligationRow /\ new.id = o.id
      BY <2>1 DEF ObligationRow
    <3>2. obligations' = (obligations \ {o}) \cup {new}
      BY <2>3 DEF ArchiveObligation
    <3> HIDE DEF new
    <3> QED
      BY <1>2, <2>1, <3>1, <3>2 DEF OneToAKey
  <2> QED
    BY <2>2, <2>3
<1>4. TypeOK'
  BY <1>1, <1>2, <1>3 DEF IInv, TypeOK
<1>5. RowsAreClaimed'
  BY <1>1, <1>2, <1>3 DEF RowsAreClaimed
<1>6. RowsAreDistinct'
  BY <1>1, <1>3 DEF IInv, RowsAreDistinct, OneToAKey
<1>7. StatusTellsWhatIsLeft' /\ CollectionsAreWithin' /\ LinksAreEvidence'
  BY <1>1 DEF IInv, StatusTellsWhatIsLeft, CollectionsAreWithin, LinksAreEvidence
<1> QED
  BY <1>4, <1>5, <1>6, <1>7 DEF IInv

LEMMA FlowsPreserveIInv ==
  ASSUME IInv, NEW key \in Keys,
         \/ CreateScheduledFlow(key)
         \/ \E f \in flows : CancelScheduledFlow(key, f)
  PROVE  IInv'
<1>1. UNCHANGED <<ledger, obligations, receivables, collections>>
  BY DEF CreateScheduledFlow, CancelScheduledFlow
<1>2. /\ \A c \in claims' : c[1] \in Operations /\ c[2] \in Keys
      /\ \A o \in obligations : IsClaimed("create_obligation", o.id)'
      /\ \A f \in flows : IsClaimed("create_scheduled_flow", f.id)'
      /\ \A r \in receivables : IsClaimed("create_receivable", r.id)'
      /\ \A c \in collections : IsClaimed("collect_receivable", c.id)'
      /\ CreateScheduledFlow(key) => IsClaimed("create_scheduled_flow", key)'
  BY StillClaimed DEF CreateScheduledFlow, CancelScheduledFlow, Operations
<1>3. /\ flows' \subseteq FlowRow
      /\ OneToAKey(flows')
      /\ \A f \in flows' : IsClaimed("create_scheduled_flow", f.id)'
  <2>1. /\ flows \subseteq FlowRow
        /\ OneToAKey(flows)
    BY DEF IInv, TypeOK, RowsAreDistinct
  <2>2. CASE CreateScheduledFlow(key)
    <3>1. \A f \in flows : f.id # key
      BY <2>2, UnclaimedNamesNothing DEF CreateScheduledFlow, IInv, RowsAreClaimed
    <3> QED
      BY <1>2, <2>1, <2>2, <3>1 DEF CreateScheduledFlow, NewFlow, FlowRow, OneToAKey
  <2>3. ASSUME NEW f \in flows, CancelScheduledFlow(key, f)
        PROVE  /\ flows' \subseteq FlowRow
               /\ OneToAKey(flows')
               /\ \A x \in flows' : IsClaimed("create_scheduled_flow", x.id)'
    <3> DEFINE new == [f EXCEPT !.status = "cancelled"]
    <3>1. new \in FlowRow /\ new.id = f.id
      BY <2>1 DEF FlowRow
    <3>2. flows' = (flows \ {f}) \cup {new}
      BY <2>3 DEF CancelScheduledFlow
    <3> HIDE DEF new
    <3> QED
      BY <1>2, <2>1, <3>1, <3>2 DEF OneToAKey
  <2> QED
    BY <2>2, <2>3
<1>4. TypeOK'
  BY <1>1, <1>2, <1>3 DEF IInv, TypeOK
<1>5. RowsAreClaimed'
  BY <1>1, <1>2, <1>3 DEF RowsAreClaimed
<1>6. RowsAreDistinct'
  BY <1>1, <1>3 DEF IInv, RowsAreDistinct, OneToAKey
<1>7. StatusTellsWhatIsLeft' /\ CollectionsAreWithin' /\ LinksAreEvidence'
  BY <1>1 DEF IInv, StatusTellsWhatIsLeft, CollectionsAreWithin, LinksAreEvidence
<1> QED
  BY <1>4, <1>5, <1>6, <1>7 DEF IInv

\* A receivable that is changed keeps its id and amount and loses nothing of
\* what was collected.
LEMMA ReplacedReceivable ==
  ASSUME IInv, NEW r \in receivables, NEW new \in ReceivableRow,
         new.id = r.id, new.original = r.original, r.collected <= new.collected, TellsWhatIsLeft(new),
         receivables' = (receivables \ {r}) \cup {new}
  PROVE  /\ receivables' \subseteq ReceivableRow
         /\ OneToAKey(receivables')
         /\ \A x \in receivables' : \E y \in receivables : x.id = y.id
         /\ StatusTellsWhatIsLeft'
         /\ \A c \in collections : \E x \in receivables' : IsWithin(c, x)
<1>1. receivables \subseteq ReceivableRow /\ OneToAKey(receivables)
  BY DEF IInv, TypeOK, RowsAreDistinct
<1>2. ASSUME NEW c \in collections PROVE \E x \in receivables' : IsWithin(c, x)
  <2>1. PICK y \in receivables : IsWithin(c, y)
    BY DEF IInv, CollectionsAreWithin
  <2>2. CASE y = r
    <3>1. c \in CollectionRow /\ r \in ReceivableRow
      BY DEF IInv, TypeOK
    <3>2. c.before \in Nat /\ c.amount \in Amounts /\ r.collected \in Nat /\ new.collected \in Nat
      BY <3>1 DEF CollectionRow, ReceivableRow
    <3>3. After(c) \in Nat
      BY <3>2, AmountsArePositive DEF After
    <3> QED
      BY <2>1, <2>2, <3>2, <3>3 DEF IsWithin
  <2>3. CASE y # r
    BY <2>1, <2>3
  <2> QED
    BY <2>2, <2>3
<1>3. \A x \in receivables' : TellsWhatIsLeft(x)
  BY DEF IInv, StatusTellsWhatIsLeft
<1> QED
  BY <1>1, <1>2, <1>3 DEF OneToAKey, StatusTellsWhatIsLeft, TellsWhatIsLeft

LEMMA CollectedRow ==
  ASSUME NEW r \in ReceivableRow, NEW amount \in Amounts
  PROVE  LET new == CollectedReceivable(r, amount) IN
         /\ new \in ReceivableRow /\ new.id = r.id /\ new.original = r.original
         /\ new.collected = r.collected + amount /\ new.status = StatusAfter(r, amount)
         /\ new.collected >= r.collected
<1>1. r.collected \in Nat /\ amount \in Nat
  BY AmountsArePositive DEF ReceivableRow
<1>2. r.collected + amount \in Nat /\ r.collected + amount >= r.collected
  BY <1>1
<1>3. StatusAfter(r, amount) \in {"collected", "partially_collected"}
  BY DEF StatusAfter
<1> QED
  BY <1>2, <1>3 DEF CollectedReceivable, ReceivableRow

LEMMA CreateReceivablePreservesIInv ==
  ASSUME IInv, NEW key \in Keys, NEW original \in Originals, CreateReceivable(key, original)
  PROVE  IInv'
<1> DEFINE new == NewReceivable(key, original)
<1>1. /\ receivables' = receivables \cup {new}
      /\ UNCHANGED <<ledger, obligations, flows, collections>>
  BY DEF CreateReceivable
<1>2. /\ \A c \in claims' : c[1] \in Operations /\ c[2] \in Keys
      /\ \A o \in obligations : IsClaimed("create_obligation", o.id)'
      /\ \A f \in flows : IsClaimed("create_scheduled_flow", f.id)'
      /\ \A r \in receivables : IsClaimed("create_receivable", r.id)'
      /\ \A c \in collections : IsClaimed("collect_receivable", c.id)'
      /\ IsClaimed("create_receivable", key)'
  BY StillClaimed DEF CreateReceivable, Operations
<1>3. \A r \in receivables : r.id # key
  BY UnclaimedNamesNothing DEF CreateReceivable, IInv, RowsAreClaimed
<1>4. new \in ReceivableRow /\ new.id = key /\ TellsWhatIsLeft(new)
  BY AmountAssumption DEF NewReceivable, ReceivableRow, TellsWhatIsLeft
<1> HIDE DEF new
<1>5. TypeOK'
  BY <1>1, <1>2, <1>4 DEF IInv, TypeOK
<1>6. RowsAreClaimed'
  BY <1>1, <1>2, <1>4 DEF RowsAreClaimed
<1>7. RowsAreDistinct'
  BY <1>1, <1>3, <1>4 DEF IInv, RowsAreDistinct, OneToAKey
<1>8. StatusTellsWhatIsLeft' /\ CollectionsAreWithin' /\ LinksAreEvidence'
  <2>1. StatusTellsWhatIsLeft'
    BY <1>1, <1>4 DEF IInv, StatusTellsWhatIsLeft, TellsWhatIsLeft
  <2>2. CollectionsAreWithin' /\ LinksAreEvidence'
    BY <1>1 DEF IInv, CollectionsAreWithin, LinksAreEvidence, IsWithin, After
  <2> QED
    BY <2>1, <2>2
<1> QED
  BY <1>5, <1>6, <1>7, <1>8 DEF IInv

LEMMA CancelReceivablePreservesIInv ==
  ASSUME IInv, NEW key \in Keys, NEW r \in receivables, CancelReceivable(key, r)
  PROVE  IInv'
<1> DEFINE new == [r EXCEPT !.status = "cancelled"]
<1>1. /\ receivables' = (receivables \ {r}) \cup {new}
      /\ UNCHANGED <<ledger, obligations, flows, collections>>
      /\ ~ Final(r)
  BY DEF CancelReceivable
<1>2. /\ \A c \in claims' : c[1] \in Operations /\ c[2] \in Keys
      /\ \A o \in obligations : IsClaimed("create_obligation", o.id)'
      /\ \A f \in flows : IsClaimed("create_scheduled_flow", f.id)'
      /\ \A x \in receivables : IsClaimed("create_receivable", x.id)'
      /\ \A c \in collections : IsClaimed("collect_receivable", c.id)'
  BY StillClaimed DEF CancelReceivable, Operations
<1>3. r \in ReceivableRow /\ TellsWhatIsLeft(r)
  BY DEF IInv, TypeOK, StatusTellsWhatIsLeft
<1>4. /\ new \in ReceivableRow /\ new.id = r.id /\ new.original = r.original
      /\ new.collected = r.collected /\ new.status = "cancelled"
  BY <1>3 DEF ReceivableRow
<1> HIDE DEF new
<1>5. r.collected <= new.collected /\ TellsWhatIsLeft(new)
  BY <1>1, <1>3, <1>4 DEF TellsWhatIsLeft, Final, ReceivableRow
<1>6. /\ receivables' \subseteq ReceivableRow
      /\ OneToAKey(receivables')
      /\ \A x \in receivables' : \E y \in receivables : x.id = y.id
      /\ StatusTellsWhatIsLeft'
      /\ \A c \in collections : \E x \in receivables' : IsWithin(c, x)
  BY <1>1, <1>4, <1>5, ReplacedReceivable
<1>7. TypeOK'
  BY <1>1, <1>2, <1>6 DEF IInv, TypeOK
<1>8. RowsAreClaimed'
  BY <1>1, <1>2, <1>6 DEF RowsAreClaimed
<1>9. RowsAreDistinct'
  BY <1>1, <1>6 DEF IInv, RowsAreDistinct, OneToAKey
<1>10. CollectionsAreWithin' /\ LinksAreEvidence'
  BY <1>1, <1>6 DEF IInv, CollectionsAreWithin, LinksAreEvidence, IsWithin, After
<1> QED
  BY <1>6, <1>7, <1>8, <1>9, <1>10 DEF IInv

LEMMA CollectPreservesIInv ==
  ASSUME IInv, NEW key \in Keys, NEW r \in receivables, NEW amount \in Amounts,
         NEW link \in Transactions \cup {NoLink},
         RecordReceivableCollection(key, r, amount, link)
  PROVE  IInv'
<1> DEFINE new == CollectedReceivable(r, amount)
           row == NewCollection(key, r, amount, link)
<1>1. /\ receivables' = (receivables \ {r}) \cup {new}
      /\ collections' = collections \cup {row}
      /\ UNCHANGED <<ledger, obligations, flows>>
      /\ ~ Final(r) /\ amount <= Outstanding(r)
      /\ Compatible(link, amount) /\ Unlinked(link, r.id)
  BY DEF RecordReceivableCollection
<1>2. /\ \A c \in claims' : c[1] \in Operations /\ c[2] \in Keys
      /\ \A o \in obligations : IsClaimed("create_obligation", o.id)'
      /\ \A f \in flows : IsClaimed("create_scheduled_flow", f.id)'
      /\ \A x \in receivables : IsClaimed("create_receivable", x.id)'
      /\ \A c \in collections : IsClaimed("collect_receivable", c.id)'
      /\ IsClaimed("collect_receivable", key)'
  BY StillClaimed DEF RecordReceivableCollection, Operations
<1>3. /\ r \in ReceivableRow /\ TellsWhatIsLeft(r)
      /\ r.original \in Nat /\ r.collected \in Nat /\ amount \in Nat /\ amount > 0
  <2>1. r \in ReceivableRow /\ TellsWhatIsLeft(r)
    BY DEF IInv, TypeOK, StatusTellsWhatIsLeft
  <2>2. r.original \in Originals /\ r.collected \in Nat
    BY <2>1 DEF ReceivableRow
  <2> QED
    BY <2>1, <2>2, AmountsArePositive
<1>4. /\ new \in ReceivableRow /\ new.id = r.id /\ new.original = r.original
      /\ new.collected = r.collected + amount /\ new.status = StatusAfter(r, amount)
  BY <1>3, CollectedRow
<1>5. /\ row \in CollectionRow /\ row.id = key /\ row.receivable = r.id
      /\ row.amount = amount /\ row.before = r.collected
      /\ row.resulting = StatusAfter(r, amount) /\ row.link = link
  BY <1>3 DEF NewCollection, CollectionRow, ReceivableRow, StatusAfter
<1> HIDE DEF new, row
<1>6. r.collected <= new.collected /\ TellsWhatIsLeft(new)
  BY <1>1, <1>3, <1>4 DEF TellsWhatIsLeft, Outstanding, StatusAfter
<1>7. /\ receivables' \subseteq ReceivableRow
      /\ OneToAKey(receivables')
      /\ \A x \in receivables' : \E y \in receivables : x.id = y.id
      /\ StatusTellsWhatIsLeft'
      /\ \A c \in collections : \E x \in receivables' : IsWithin(c, x)
  BY <1>1, <1>4, <1>6, ReplacedReceivable
<1>8. \A c \in collections : c.id # key
  BY UnclaimedNamesNothing DEF RecordReceivableCollection, IInv, RowsAreClaimed
<1>9. TypeOK'
  BY <1>1, <1>2, <1>5, <1>7 DEF IInv, TypeOK
<1>10. RowsAreClaimed'
  BY <1>1, <1>2, <1>5, <1>7 DEF RowsAreClaimed
<1>11. RowsAreDistinct'
  BY <1>1, <1>5, <1>7, <1>8 DEF IInv, RowsAreDistinct, OneToAKey
<1>12. CollectionsAreWithin'
  <2>1. IsWithin(row, new)
    BY <1>3, <1>4, <1>5 DEF IsWithin, After, StatusAfter, Outstanding
  <2>2. \A c \in collections' : \E x \in receivables' : IsWithin(c, x)
    BY <1>1, <1>7, <2>1
  <2> QED
    BY <2>2 DEF CollectionsAreWithin, IsWithin, After
<1>13. LinksAreEvidence'
  <2>1. ASSUME link # NoLink
        PROVE  /\ \A c \in collections : c.link # link
               /\ [id |-> link, effect |-> "asset_inflow", amount |-> amount] \in ledger
    <3>1. PICK t \in ledger : t.id = link /\ t.amount = amount /\ t.effect = "asset_inflow"
      BY <1>1, <2>1 DEF Compatible
    <3>2. t = [id |-> link, effect |-> "asset_inflow", amount |-> amount]
      BY <3>1 DEF IInv, TypeOK, TransactionRow
    <3> QED
      BY <1>1, <2>1, <3>1, <3>2 DEF Unlinked
  <2> QED
    BY <1>1, <1>5, <2>1 DEF IInv, LinksAreEvidence
<1> QED
  BY <1>7, <1>9, <1>10, <1>11, <1>12, <1>13 DEF IInv

-----------------------------------------------------------------------------
(* Each operation keeps what is collected the sum of the collections *)

\* A receivable whose collections stay, and which is for no other amount, still adds up.
LEMMA StillAddsUp ==
  ASSUME SumInv, UNCHANGED collections,
         \A x \in receivables' : \E r \in receivables : x.id = r.id /\ x.collected = r.collected
  PROVE  SumInv'
<1> SUFFICES ASSUME NEW x \in receivables' PROVE AddsUp(x)'
  BY DEF SumInv
<1>1. PICK r \in receivables : x.id = r.id /\ x.collected = r.collected
  OBVIOUS
<1>2. AddsUp(r)
  BY DEF SumInv
<1>3. CollectionsOf(x)' = CollectionsOf(r)
  BY <1>1 DEF CollectionsOf
<1> QED
  BY <1>1, <1>2, <1>3 DEF AddsUp, After

\* Nothing was collected of a receivable before it was created.
LEMMA CreateReceivableAddsUp ==
  ASSUME IInv, SumInv, NEW key \in Keys, NEW original \in Originals, CreateReceivable(key, original)
  PROVE  SumInv'
<1> PICK new : new = NewReceivable(key, original)
  OBVIOUS
<1>1. /\ receivables' = receivables \cup {new} /\ UNCHANGED collections
      /\ new.id = key /\ new.collected = 0
  BY DEF CreateReceivable, NewReceivable
<1>2. \A r \in receivables : r.id # key
  BY UnclaimedNamesNothing DEF CreateReceivable, IInv, RowsAreClaimed
<1>3. CollectionsOf(new)' = {}
  BY <1>1, <1>2 DEF IInv, CollectionsAreWithin, IsWithin, CollectionsOf
<1>4. SumFunction([c \in {} |-> c.amount]) = 0
  <2>1. [c \in {} |-> c.amount] \in [{} -> Int] /\ IsFiniteSet({})
    BY FS_EmptySet
  <2> QED
    BY <2>1, SumType
<1>5. AddsUp(new)'
  BY <1>1, <1>3, <1>4 DEF AddsUp
<1>6. \A r \in receivables : CollectionsOf(r)' = CollectionsOf(r)
  BY <1>1 DEF CollectionsOf
<1>7. \A r \in receivables : AddsUp(r)'
  BY <1>6 DEF SumInv, AddsUp, After
<1> QED
  BY <1>1, <1>5, <1>7 DEF SumInv

\* A collection begins where the receivable was, and ends where it is then.
LEMMA CollectAddsUp ==
  ASSUME IInv, SumInv, NEW key \in Keys, NEW r \in receivables, NEW amount \in Amounts,
         NEW link \in Transactions \cup {NoLink},
         RecordReceivableCollection(key, r, amount, link)
  PROVE  SumInv'
<1>1. PICK new : new = CollectedReceivable(r, amount)
  OBVIOUS
<1>2. PICK row : row = NewCollection(key, r, amount, link)
  OBVIOUS
<1>3. /\ receivables' = (receivables \ {r}) \cup {new}
      /\ collections' = collections \cup {row}
  BY <1>1, <1>2 DEF RecordReceivableCollection
<1>4. r \in ReceivableRow /\ r.collected \in Nat /\ amount \in Nat
  BY AmountsArePositive DEF IInv, TypeOK, ReceivableRow
<1>5. new.id = r.id /\ new.collected = r.collected + amount
  BY <1>1, <1>4, CollectedRow
<1>6. row.id = key /\ row.receivable = r.id /\ row.amount = amount /\ row.before = r.collected
  BY <1>2 DEF NewCollection
<1>7. row \notin collections
  BY <1>6, UnclaimedNamesNothing DEF RecordReceivableCollection, IInv, RowsAreClaimed
<1>8. IsFiniteSet(collections')
  BY <1>3, FS_AddElement DEF SumInv
<1>9. ASSUME NEW x \in receivables, x # r
      PROVE  AddsUp(x)'
  <2>1. x.id # r.id
    BY <1>9 DEF IInv, RowsAreDistinct, OneToAKey
  <2>2. CollectionsOf(x)' = CollectionsOf(x)
    BY <1>3, <1>6, <2>1 DEF CollectionsOf
  <2> QED
    BY <2>2 DEF SumInv, AddsUp, After
<1>10. AddsUp(new)'
  <2> DEFINE S == CollectionsOf(r)
             f == [c \in S |-> c.amount]
             g == [c \in S \cup {row} |-> c.amount]
  <2>1. CollectionsOf(new)' = S \cup {row} /\ row \notin S
    BY <1>3, <1>5, <1>6, <1>7 DEF CollectionsOf
  <2>2. AddsUp(r)
    BY DEF SumInv
  <2>3. IsFiniteSet(S) /\ f \in [S -> Int]
    <3>1. \A c \in collections : c.amount \in Int
      BY AmountsArePositive DEF IInv, TypeOK, CollectionRow
    <3>2. S \subseteq collections /\ IsFiniteSet(S)
      BY FS_Subset DEF SumInv, CollectionsOf
    <3> QED
      BY <3>1, <3>2
  <2>4. g \in [S \cup {row} -> Int] /\ g[row] = amount /\ \A c \in S : g[c] = f[c]
    BY <1>4, <1>6, <2>3
  <2>5. SumFunction(g) = SumFunction(f) + amount
    <3> HIDE DEF f, g, S
    <3>1. SumFunction(g) = SumFunction(f) + g[row]
      BY <2>1, <2>3, <2>4, SumWith
    <3> QED
      BY <2>4, <3>1
  <2>6. new.collected = SumFunction(g)
    BY <1>5, <2>2, <2>5 DEF AddsUp
  <2>7. After(row) = new.collected
    BY <1>5, <1>6 DEF After
  <2>8. /\ r.collected = 0 \/ \E d \in S : After(d) = r.collected
        /\ \A c \in S : c.before = 0 \/ \E d \in S : After(d) = c.before
    BY <2>2 DEF AddsUp
  <2>9. \A c \in S \cup {row} : c.before = 0 \/ \E d \in S \cup {row} : After(d) = c.before
    BY <1>6, <2>8
  <2>10. AddsUp(new)' <=>
           /\ new.collected = SumFunction(g)
           /\ new.collected = 0 \/ \E d \in S \cup {row} : After(d) = new.collected
           /\ \A c \in S \cup {row} : c.before = 0 \/ \E d \in S \cup {row} : After(d) = c.before
    BY <2>1 DEF AddsUp, After
  <2> HIDE DEF S, g
  <2> QED
    BY <2>6, <2>7, <2>9, <2>10
<1> QED
  BY <1>3, <1>8, <1>9, <1>10 DEF SumInv

LEMMA InvariantsReconcile == IInv /\ SumInv => CollectionsReconcile
<1> SUFFICES ASSUME IInv, SumInv, NEW r \in receivables
             PROVE  /\ r.collected = SumFunction([c \in CollectionsOf(r) |-> c.amount])
                    /\ \A c \in CollectionsOf(r) :
                         /\ c.before = 0 \/ \E d \in CollectionsOf(r) : After(d) = c.before
                         /\ c.resulting = "collected" <=> After(c) = r.original
                    /\ CASE r.status = "open"                -> r.collected = 0
                         [] r.status = "partially_collected" -> r.collected \in 1..r.original - 1
                         [] r.status = "collected"           -> r.collected = r.original
                         [] r.status = "cancelled"           -> r.collected < r.original
  BY DEF CollectionsReconcile
<1>1. AddsUp(r)
  BY DEF SumInv
<1>2. \A c \in CollectionsOf(r) : c.resulting = "collected" <=> After(c) = r.original
  BY DEF IInv, CollectionsAreWithin, IsWithin, RowsAreDistinct, OneToAKey, CollectionsOf
<1>3. (CASE r.status = "open"                -> r.collected = 0
         [] r.status = "partially_collected" -> r.collected \in 1..r.original - 1
         [] r.status = "collected"           -> r.collected = r.original
         [] r.status = "cancelled"           -> r.collected < r.original)
  <2>1. TellsWhatIsLeft(r)
    BY DEF IInv, StatusTellsWhatIsLeft
  <2>2. r \in ReceivableRow
    BY DEF IInv, TypeOK
  <2>3. /\ r.original \in Nat /\ r.collected \in Nat
        /\ r.status \in {"open", "partially_collected", "collected", "cancelled"}
    BY <2>2, AmountsArePositive DEF ReceivableRow
  <2>4. r.status = "partially_collected" => r.collected \in 1..r.original - 1
    BY <2>1, <2>3 DEF TellsWhatIsLeft
  <2>5. r.status = "cancelled" => r.collected < r.original
    BY <2>1, <2>3 DEF TellsWhatIsLeft
  <2>6. (r.status = "open" => r.collected = 0) /\ (r.status = "collected" => r.collected = r.original)
    BY <2>1 DEF TellsWhatIsLeft
  <2>7. CASE r.status = "open"
    BY <2>6, <2>7
  <2>8. CASE r.status = "partially_collected"
    BY <2>4, <2>8
  <2>9. CASE r.status = "collected"
    BY <2>6, <2>9
  <2>10. CASE r.status = "cancelled"
    BY <2>5, <2>10
  <2> QED
    BY <2>3, <2>7, <2>8, <2>9, <2>10
<1> QED
  BY <1>1, <1>2, <1>3 DEF AddsUp

-----------------------------------------------------------------------------
(* Theorems *)

LEMMA InitIInv == Init => IInv
BY DEF Init, IInv, TypeOK, RowsAreClaimed, RowsAreDistinct, OneToAKey, StatusTellsWhatIsLeft,
       CollectionsAreWithin, LinksAreEvidence

LEMMA NextPreservesIInv == IInv /\ [Next]_vars => IInv'
<1> SUFFICES ASSUME IInv, [Next]_vars PROVE IInv'
  OBVIOUS
<1>1. CASE UNCHANGED vars
  BY <1>1 DEF vars, IInv, TypeOK, RowsAreClaimed, IsClaimed, RowsAreDistinct, OneToAKey,
              StatusTellsWhatIsLeft, TellsWhatIsLeft, CollectionsAreWithin, IsWithin, After, LinksAreEvidence
<1>2. CASE \E id \in Transactions, effect \in Effects, amount \in Amounts : PostTransaction(id, effect,
amount)
  BY <1>2, PostTransactionPreservesIInv
<1>3. ASSUME NEW key \in Keys, NEW original \in Originals, CreateReceivable(key, original) PROVE IInv'
  BY <1>3, CreateReceivablePreservesIInv
<1>4. ASSUME NEW key \in Keys, NEW r \in receivables, CancelReceivable(key, r) PROVE IInv'
  BY <1>4, CancelReceivablePreservesIInv
<1>5. ASSUME NEW key \in Keys, NEW r \in receivables, NEW amount \in Amounts,
             NEW link \in Transactions \cup {NoLink}, RecordReceivableCollection(key, r, amount, link)
      PROVE  IInv'
  BY <1>5, CollectPreservesIInv
<1>6. ASSUME NEW key \in Keys, CreateObligation(key) \/ \E o \in obligations : ArchiveObligation(key, o)
      PROVE  IInv'
  BY <1>6, ObligationsPreserveIInv
<1>7. ASSUME NEW key \in Keys, CreateScheduledFlow(key) \/ \E f \in flows : CancelScheduledFlow(key, f)
      PROVE  IInv'
  BY <1>7, FlowsPreserveIInv
<1> QED
  BY <1>1, <1>2, <1>3, <1>4, <1>5, <1>6, <1>7 DEF Next

LEMMA InitSumInv == Init => SumInv
BY FS_EmptySet DEF Init, SumInv

LEMMA NextPreservesSumInv == IInv /\ SumInv /\ [Next]_vars => SumInv'
<1> SUFFICES ASSUME IInv, SumInv, [Next]_vars PROVE SumInv'
  OBVIOUS
<1>1. ASSUME UNCHANGED <<receivables, collections>> PROVE SumInv'
  BY <1>1, StillAddsUp
<1>2. ASSUME NEW key \in Keys, NEW original \in Originals, CreateReceivable(key, original) PROVE SumInv'
  BY <1>2, CreateReceivableAddsUp
<1>3. ASSUME NEW key \in Keys, NEW r \in receivables, CancelReceivable(key, r) PROVE SumInv'
  <2>1. r \in ReceivableRow
    BY DEF IInv, TypeOK
  <2>2. [r EXCEPT !.status = "cancelled"].id = r.id /\ [r EXCEPT !.status = "cancelled"].collected = r.collected
    BY <2>1 DEF ReceivableRow
  <2> QED
    BY <1>3, <2>2, StillAddsUp DEF CancelReceivable
<1>4. ASSUME NEW key \in Keys, NEW r \in receivables, NEW amount \in Amounts,
             NEW link \in Transactions \cup {NoLink}, RecordReceivableCollection(key, r, amount, link)
      PROVE  SumInv'
  BY <1>4, CollectAddsUp
<1> QED
  BY <1>1, <1>2, <1>3, <1>4
     DEF Next, vars, PostTransaction, CreateObligation, ArchiveObligation, CreateScheduledFlow,
         CancelScheduledFlow

LEMMA SpecKeepsInvariants == Spec => [](IInv /\ SumInv)
<1>1. Init => IInv /\ SumInv
  BY InitIInv, InitSumInv
<1>2. (IInv /\ SumInv) /\ [Next]_vars => (IInv /\ SumInv)'
  BY NextPreservesIInv, NextPreservesSumInv
<1> QED
  BY <1>1, <1>2, PTL DEF Spec

\* A ledger transaction is evidence for one collection at most, and of an inflow
\* of exactly its amount (trigger and UNIQUE of migration 0004).
THEOREM ScheduleLinksAreEvidence == Spec => []LinksAreEvidence
<1>1. IInv => LinksAreEvidence
  BY DEF IInv
<1> QED
  BY <1>1, InitIInv, NextPreservesIInv, PTL DEF Spec

\* Rows keep their types, a receivable never collects more than it was for, its
\* status says how much is left, and no collection reaches beyond what its
\* receivable has collected, through every sequence of collections and
\* cancellations (Receivable.RecordCollection and the CHECKs of migration 0004).
THEOREM ScheduleReceivablesAreBounded == Spec => [](TypeOK /\ StatusTellsWhatIsLeft /\ CollectionsAreWithin)
<1>1. IInv => TypeOK /\ StatusTellsWhatIsLeft /\ CollectionsAreWithin
  BY DEF IInv
<1> QED
  BY <1>1, InitIInv, NextPreservesIInv, PTL DEF Spec

\* What is collected of a receivable is the sum of its collections, which follow
\* one another without gap or overlap, and its status says how much is left;
\* cancelling keeps what was collected (Receivable.RecordCollection, the CHECKs
\* and the deferred trigger of migration 0004).
THEOREM ScheduleCollectionsReconcile == Spec => []CollectionsReconcile
BY InvariantsReconcile, SpecKeepsInvariants, PTL

-----------------------------------------------------------------------------
(* What stays *)

OutcomesKept ==
  /\ collections \subseteq collections'
  /\ \A o \in obligations : o.status = "archived" => o \in obligations'
  /\ \A f \in flows : f.status = "cancelled" => f \in flows'
  /\ \A r \in receivables :
       IF r.status \in {"collected", "cancelled"} THEN r \in receivables'
       ELSE \E q \in receivables' : /\ q.id = r.id /\ q.original = r.original
                                    /\ q.collected >= r.collected

LEMMA NextKeepsOutcomes == IInv /\ [Next]_vars => [OutcomesKept]_vars
<1> SUFFICES ASSUME IInv, [Next]_vars PROVE [OutcomesKept]_vars
  OBVIOUS
<1>1. \A r \in receivables : r \in ReceivableRow /\ r.collected \in Nat
  BY DEF IInv, TypeOK, ReceivableRow
<1>2. ASSUME receivables \subseteq receivables'
      PROVE  \A r \in receivables :
               IF r.status \in {"collected", "cancelled"} THEN r \in receivables'
               ELSE \E q \in receivables' : /\ q.id = r.id /\ q.original = r.original
                                            /\ q.collected >= r.collected
  BY <1>1, <1>2
<1>3. ASSUME NEW r \in receivables, ~ Final(r), NEW new \in ReceivableRow,
             new.id = r.id /\ new.original = r.original /\ new.collected >= r.collected,
             receivables' = (receivables \ {r}) \cup {new}
      PROVE  \A x \in receivables :
               IF x.status \in {"collected", "cancelled"} THEN x \in receivables'
               ELSE \E q \in receivables' : /\ q.id = x.id /\ q.original = x.original
                                            /\ q.collected >= x.collected
  BY <1>1, <1>3 DEF Final
<1>4. ASSUME NEW key \in Keys, NEW r \in receivables, CancelReceivable(key, r) PROVE OutcomesKept
  <2>1. [r EXCEPT !.status = "cancelled"] \in ReceivableRow
    BY <1>1 DEF ReceivableRow
  <2> QED
    BY <1>1, <1>3, <1>4, <2>1 DEF CancelReceivable, ReceivableRow, OutcomesKept
<1>5. ASSUME NEW key \in Keys, NEW r \in receivables, NEW amount \in Amounts,
             NEW link \in Transactions \cup {NoLink}, RecordReceivableCollection(key, r, amount, link)
      PROVE  OutcomesKept
  <2> DEFINE new == CollectedReceivable(r, amount)
  <2>1. /\ new \in ReceivableRow
        /\ new.id = r.id /\ new.original = r.original /\ new.collected >= r.collected
    BY <1>1, CollectedRow
  <2> HIDE DEF new
  <2>2. /\ ~ Final(r) /\ receivables' = (receivables \ {r}) \cup {new}
        /\ collections \subseteq collections' /\ UNCHANGED <<obligations, flows>>
    BY <1>5 DEF RecordReceivableCollection, new
  <2> QED
    BY <1>3, <2>1, <2>2 DEF OutcomesKept
<1>6. CASE \E id \in Transactions, effect \in Effects, amount \in Amounts : PostTransaction(id, effect,
amount)
  BY <1>2, <1>6 DEF PostTransaction, OutcomesKept
<1>7. ASSUME NEW key \in Keys,
             \/ CreateObligation(key)
             \/ CreateScheduledFlow(key)
             \/ \E original \in Originals : CreateReceivable(key, original)
             \/ \E o \in obligations : ArchiveObligation(key, o)
             \/ \E f \in flows : CancelScheduledFlow(key, f)
      PROVE  OutcomesKept
  BY <1>2, <1>7 DEF CreateObligation, CreateScheduledFlow, CreateReceivable, ArchiveObligation,
                    CancelScheduledFlow, OutcomesKept
<1> QED
  BY <1>4, <1>5, <1>6, <1>7 DEF Next

\* What is archived, cancelled or collected stays so, collections stay, and
\* what is collected of a receivable only grows (the status conditions of
\* schedule_repository.go).
THEOREM ScheduleOutcomesAreFinal == Spec => OutcomesAreFinal
<1>1. IInv /\ [Next]_vars => [OutcomesKept]_vars
  BY NextKeepsOutcomes
<1> QED
  BY <1>1, InitIInv, NextPreservesIInv, PTL DEF Spec, OutcomesAreFinal, OutcomesKept

-----------------------------------------------------------------------------
(* The commits of the sessions *)

LEMMA CommittedRowsAreSound ==
  /\ Init => IInv
  /\ IInv /\ [Next]_vars => IInv'
BY InitIInv, NextPreservesIInv

-----------------------------------------------------------------------------
(* The invariant of the sessions *)

Fields == Tables \cup {"claims"}

RowTables == {"obligations", "flows", "receivables"}

IsCreation(s) == request[s].operation \in Creations

\* A session past its claim has written it; one that changes a row holds it from its lock on.
Claiming(s) == pc[s] \in {"insert", "change", "link", "commit"}

Locking(s) == pc[s] \in {"claim", "change", "link", "commit"} /\ ~ IsCreation(s)

\* The row that a request makes of row r, and when it may.
Changed(s, r) ==
  CASE request[s].operation = "archive_obligation"    -> [r EXCEPT !.status = "archived"]
    [] request[s].operation = "cancel_scheduled_flow" -> [r EXCEPT !.status = "cancelled"]
    [] request[s].operation = "cancel_receivable"     -> [r EXCEPT !.status = "cancelled"]
    [] request[s].operation = "collect_receivable"    -> CollectedReceivable(r, request[s].amount)

Allowed(s, r) ==
  /\ request[s].operation = "archive_obligation" => r.status = "active"
  /\ request[s].operation = "cancel_scheduled_flow" => r.status = "scheduled"
  /\ request[s].operation = "cancel_receivable" => ~ Final(r)
  /\ request[s].operation = "collect_receivable" =>
       ~ Final(r) /\ request[s].amount <= Outstanding(r)

Collection(s, r) == NewCollection(request[s].key, r, request[s].amount, request[s].link)

PcOK(s) ==
  /\ pc[s] \in {"idle", "row", "claim", "insert", "change", "link", "commit"} \cup Ended
  /\ pc[s] \in {"row", "change"} => ~ IsCreation(s)
  /\ pc[s] = "insert" => IsCreation(s)
  /\ pc[s] = "link" => request[s].operation = "collect_receivable"

LockOK(s) ==
  /\ locks[s] = IF Locking(s) THEN {<<Table(s), request[s].row>>} ELSE {}
  /\ Locking(s) => Target(s) # {}

ClaimOK(s) ==
  /\ writes[s]["claims"] = IF Claiming(s) THEN {Claim(s)} ELSE {}
  /\ Claiming(s) => Unclaimed(request[s].operation, request[s].key)

Writing(s, table) == table = Table(s) /\ pc[s] \in {"link", "commit"}

RowOK(s) ==
  \A table \in RowTables :
    IF ~ Writing(s, table) THEN writes[s][table] = {}
    ELSE IF IsCreation(s) THEN writes[s][table] = {NewRow(s)}
    ELSE \E r \in Target(s) : /\ Allowed(s, r) /\ Fresh(s, r)
                              /\ writes[s][table] = {Changed(s, r)}

CollectionOK(s) ==
  IF pc[s] = "commit" /\ request[s].operation = "collect_receivable"
    THEN /\ \E r \in Target(s) : writes[s]["collections"] = {Collection(s, r)}
         /\ Compatible(request[s].link, request[s].amount)
         /\ Unlinked(request[s].link, request[s].row)
    ELSE writes[s]["collections"] = {}

SessionOK(s) == PcOK(s) /\ LockOK(s) /\ ClaimOK(s) /\ RowOK(s) /\ CollectionOK(s)

\* Two sessions hold no row in common, no key, and no ledger transaction.
Apart(s, o) ==
  /\ locks[s] \cap locks[o] = {}
  /\ Claiming(s) /\ Claiming(o) =>
       request[s].operation # request[o].operation \/ request[s].key # request[o].key
  /\ \A c \in writes[s]["collections"], d \in writes[o]["collections"] : c.link = NoLink \/ c.link # d.link

TimesOK == moment \in [Sessions -> Nat]

HasFields(record) == record = [field \in Fields |-> record[field]]

Shape ==
  /\ request \in [Sessions -> RequestRow]
  /\ pc = [s \in Sessions |-> pc[s]]
  /\ locks = [s \in Sessions |-> locks[s]]
  /\ TimesOK
  /\ writes = [s \in Sessions |-> writes[s]]
  /\ \A s \in Sessions : HasFields(writes[s])

UpdatedOK == updated \in [Tables \X Keys -> Nat]

SInv ==
  /\ IInv
  /\ UpdatedOK
  /\ Shape
  /\ \A s \in Sessions : SessionOK(s)
  /\ \A s, o \in Sessions : s # o => Apart(s, o)

-----------------------------------------------------------------------------

LEMMA RequestsHaveTypes ==
  ASSUME Shape, NEW s \in Sessions
  PROVE  /\ request[s] \in RequestRow
         /\ request[s].operation \in Operations /\ request[s].key \in Keys /\ request[s].row \in Keys
         /\ request[s].original \in Originals /\ request[s].amount \in Amounts
         /\ request[s].link \in Transactions \cup {NoLink}
         /\ Table(s) \in RowTables
         /\ Table(s) = "obligations" <=> request[s].operation \in {"create_obligation", "archive_obligation"}
         /\ Table(s) = "flows" <=> request[s].operation \in {"create_scheduled_flow", "cancel_scheduled_flow"}
<1>1. request[s] \in RequestRow
  BY DEF Shape
<1>2. /\ request[s].operation \in Operations /\ request[s].key \in Keys /\ request[s].row \in Keys
      /\ request[s].original \in Originals /\ request[s].amount \in Amounts
      /\ request[s].link \in Transactions \cup {NoLink}
  BY <1>1 DEF RequestRow
<1> QED
  BY <1>1, <1>2 DEF Table, RowTables

LEMMA Unfolded ==
  /\ CommittedRows("obligations") = obligations
  /\ CommittedRows("flows") = flows
  /\ CommittedRows("receivables") = receivables
  /\ CommittedRows("collections") = collections
  /\ \A table \in Fields : NoWrites[table] = {}
  /\ NoWrites = [field \in Fields |-> {}]
  /\ RowTables \subseteq Fields /\ "collections" \in Fields /\ "claims" \in Fields
  /\ RowTables \subseteq Tables
BY DEF CommittedRows, NoWrites, Fields, Tables, RowTables

\* A session whose own state stays is as it was when no row is committed.
LEMMA SessionStays ==
  ASSUME UNCHANGED <<committed, request>>, NEW s,
         pc'[s] = pc[s], locks'[s] = locks[s], moment'[s] = moment[s], writes'[s] = writes[s]
  PROVE  SessionOK(s)' <=> SessionOK(s)
<1>1. /\ UNCHANGED <<ledger, obligations, flows, receivables, collections, claims, updated>>
      /\ UNCHANGED request
  BY DEF committed
<1>2. /\ IsCreation(s)' <=> IsCreation(s)
      /\ Table(s)' = Table(s) /\ Claim(s)' = Claim(s) /\ NewRow(s)' = NewRow(s)
      /\ \A r : /\ Changed(s, r)' = Changed(s, r)
                /\ Allowed(s, r)' <=> Allowed(s, r)
                /\ Collection(s, r)' = Collection(s, r)
  BY <1>1 DEF IsCreation, Table, Claim, Fingerprint, NewRow, Changed, Allowed, Collection
<1>3. Target(s)' = Target(s)
  BY <1>1, <1>2 DEF Target, CommittedRows
<1>4. PcOK(s)' <=> PcOK(s)
  BY <1>1, <1>2 DEF PcOK
<1>5. LockOK(s)' <=> LockOK(s)
  BY <1>1, <1>2, <1>3 DEF LockOK, Locking
<1>6. ClaimOK(s)' <=> ClaimOK(s)
  BY <1>1, <1>2 DEF ClaimOK, Claiming, Unclaimed
<1>7. RowOK(s)' <=> RowOK(s)
  <2>1. /\ \A table : Writing(s, table)' <=> Writing(s, table)
        /\ \A r : Fresh(s, r)' <=> Fresh(s, r)
    BY <1>1, <1>2 DEF Writing, Fresh
  <2>2. PICK mine : mine = writes[s]
    OBVIOUS
  <2>3. mine = writes'[s]
    BY <2>2
  <2> QED
    BY <1>1, <1>2, <1>3, <2>1, <2>2, <2>3 DEF RowOK
<1>8. CollectionOK(s)' <=> CollectionOK(s)
  BY <1>1, <1>2, <1>3 DEF CollectionOK, Compatible, Unlinked
<1> QED
  BY <1>4, <1>5, <1>6, <1>7, <1>8 DEF SessionOK

\* A step of s that changes nothing of another session.
Untouched(s) ==
  \A o \in Sessions \ {s} : /\ pc'[o] = pc[o] /\ locks'[o] = locks[o]
                            /\ moment'[o] = moment[o] /\ writes'[o] = writes[o]

\* A step of one session that commits nothing.
LEMMA SessionStep ==
  ASSUME SInv, UNCHANGED <<committed, request>>, NEW s \in Sessions, Shape', SessionOK(s)',
         Untouched(s),
         \A o \in Sessions \ {s} : Apart(s, o)'
  PROVE  SInv'
<1>1. UNCHANGED vars /\ request' = request
  BY DEF committed, vars
<1>2. IInv'
  BY <1>1, CommittedRowsAreSound DEF SInv
<1>6. UpdatedOK'
  BY DEF committed, SInv, UpdatedOK
<1>3. ASSUME NEW o \in Sessions, o # s PROVE SessionOK(o)'
  <2>1. SessionOK(o)' <=> SessionOK(o)
    BY <1>3, SessionStays DEF Untouched
  <2> QED
    BY <2>1 DEF SInv
<1>4. ASSUME NEW o \in Sessions, NEW u \in Sessions, o # u PROVE Apart(o, u)'
  <2>1. CASE o = s
    BY <1>4, <2>1
  <2>2. CASE u = s
    <3>1. Apart(s, o)'
      BY <1>4, <2>2
    <3> QED
      BY <2>2, <3>1 DEF Apart
  <2>3. CASE o # s /\ u # s
    <3>1. Apart(o, u)
      BY <1>4 DEF SInv
    <3>2. /\ pc'[o] = pc[o] /\ locks'[o] = locks[o] /\ writes'[o] = writes[o]
          /\ pc'[u] = pc[u] /\ locks'[u] = locks[u] /\ writes'[u] = writes[u]
      BY <2>3 DEF Untouched
    <3> QED
      BY <1>1, <3>1, <3>2 DEF Apart, Claiming
  <2> QED
    BY <2>1, <2>2, <2>3
<1>5. \A o \in Sessions : SessionOK(o)'
  BY <1>3
<1> QED
  BY <1>2, <1>4, <1>5, <1>6 DEF SInv

LEMMA StaysApart ==
  ASSUME SInv, UNCHANGED request, NEW s \in Sessions, NEW o \in Sessions \ {s}, Untouched(s),
         locks'[s] \subseteq locks[s], writes'[s]["collections"] \subseteq writes[s]["collections"],
         Claiming(s)' => Claiming(s)
  PROVE  Apart(s, o)'
<1>1. Apart(s, o)
  BY DEF SInv
<1> QED
  BY <1>1 DEF Apart, Claiming, Untouched

\* What a session has that has written nothing and holds nothing.
LEMMA NothingIsFine ==
  ASSUME NEW s \in Sessions, pc[s] \in {"idle", "row"} \cup Ended, pc[s] = "row" => ~ IsCreation(s),
         locks[s] = {}, \A field \in Fields : writes[s][field] = {}
  PROVE  SessionOK(s)
<1>1. PcOK(s)
  BY DEF PcOK, Ended
<1>2. LockOK(s)
  BY DEF LockOK, Locking, Ended
<1>3. ClaimOK(s)
  BY Unfolded DEF ClaimOK, Claiming, Ended
<1>4. RowOK(s)
  BY Unfolded DEF RowOK, Writing, Ended
<1>5. CollectionOK(s)
  BY Unfolded DEF CollectionOK, Ended
<1> QED
  BY <1>1, <1>2, <1>3, <1>4, <1>5 DEF SessionOK

LEMMA EndOK ==
  ASSUME Shape, NEW s \in Sessions, NEW outcome \in Ended, End(s, outcome)
  PROVE  /\ Shape' /\ SessionOK(s)' /\ request' = request
         /\ pc'[s] = outcome /\ locks'[s] = {} /\ writes'[s] = NoWrites /\ moment' = moment
         /\ Untouched(s)
<1>1. /\ pc' = [pc EXCEPT ![s] = outcome] /\ locks' = [locks EXCEPT ![s] = {}]
      /\ writes' = [writes EXCEPT ![s] = NoWrites] /\ request' = request /\ moment' = moment
  BY DEF End, Goto
<1>2. /\ pc'[s] = outcome /\ locks'[s] = {} /\ writes'[s] = NoWrites
      /\ Untouched(s)
  BY <1>1 DEF Shape, Untouched
<1>3. \A o \in Sessions : HasFields(writes'[o])
  <2>1. HasFields(NoWrites)
    BY Unfolded DEF HasFields
  <2> QED
    BY <1>2, <2>1 DEF Shape, Untouched
<1>4. Shape'
  BY <1>1, <1>3 DEF Shape, TimesOK
<1>5. SessionOK(s)'
  <2>1. /\ pc'[s] \in {"idle", "row"} \cup Ended /\ pc'[s] # "row" /\ locks'[s] = {}
        /\ \A field \in Fields : writes'[s][field] = {}
    BY <1>2, Unfolded DEF Ended
  <2>2. PcOK(s)'
    BY <1>2 DEF PcOK, Ended
  <2>3. LockOK(s)'
    BY <1>2 DEF LockOK, Locking, Ended
  <2>4. ClaimOK(s)'
    BY <1>2, <2>1, Unfolded DEF ClaimOK, Claiming, Ended
  <2>5. RowOK(s)'
    BY <1>2, <2>1, Unfolded DEF RowOK, Writing, Ended
  <2>6. CollectionOK(s)'
    BY <1>2, <2>1, Unfolded DEF CollectionOK, Ended
  <2> QED
    BY <2>2, <2>3, <2>4, <2>5, <2>6 DEF SessionOK
<1> QED
  BY <1>1, <1>2, <1>4, <1>5

LEMMA EndPreservesSInv ==
  ASSUME SInv, NEW s \in Sessions, NEW outcome \in Ended, End(s, outcome), UNCHANGED committed
  PROVE  SInv'
<1>1. /\ Shape' /\ SessionOK(s)' /\ request' = request
      /\ pc'[s] = outcome /\ locks'[s] = {} /\ writes'[s] = NoWrites
      /\ Untouched(s)
  BY EndOK DEF SInv
<1>2. /\ locks'[s] \subseteq locks[s] /\ writes'[s]["collections"] \subseteq writes[s]["collections"]
      /\ ~ Claiming(s)'
  BY <1>1, Unfolded DEF Claiming, Ended
<1>3. \A o \in Sessions \ {s} : Apart(s, o)'
  BY <1>1, <1>2, StaysApart
<1> QED
  BY <1>1, <1>3, SessionStep

LEMMA LatestMoment ==
  ASSUME NEW numbers, IsFiniteSet(numbers), numbers # {}
  PROVE  numbers \subseteq Nat => Max(numbers) \in Nat /\ \A n \in numbers : n <= Max(numbers)
<1>1. HAVE numbers \subseteq Nat
<1>2. numbers \subseteq Int
  BY <1>1
<1>3. PICK n \in numbers : \A m \in numbers : m <= n
  BY <1>2, GreatestNumber
<1>4. \A m \in numbers : m \in Nat /\ n >= m
  BY <1>1, <1>3
<1>5. Max(numbers) \in numbers /\ \A m \in numbers : Max(numbers) >= m
  BY <1>4 DEF Max
<1> QED
  BY <1>4, <1>5

-----------------------------------------------------------------------------
(* Statements *)

LEMMA Refused ==
  ASSUME SInv, NEW s \in Sessions, Reject(s)
  PROVE  SInv'
BY EndPreservesSInv DEF Reject, Ended

LEMMA Failed ==
  ASSUME SInv, NEW s \in Sessions, Fail(s)
  PROVE  SInv'
BY EndPreservesSInv DEF Fail, Ended

LEMMA SessionIs ==
  ASSUME SInv, NEW s \in Sessions
  PROVE  /\ PcOK(s) /\ LockOK(s) /\ ClaimOK(s) /\ RowOK(s) /\ CollectionOK(s)
         /\ Shape
         /\ HasFields(writes[s])
BY DEF SInv, SessionOK, Shape

\* What a session is about does not change while nothing is committed.
LEMMA SameRequest ==
  ASSUME UNCHANGED <<committed, request>>, NEW s
  PROVE  /\ UNCHANGED <<ledger, obligations, flows, receivables, collections, claims, updated>>
         /\ IsCreation(s)' <=> IsCreation(s)
         /\ Table(s)' = Table(s) /\ Claim(s)' = Claim(s) /\ NewRow(s)' = NewRow(s)
         /\ Target(s)' = Target(s)
         /\ \A r : /\ Changed(s, r)' = Changed(s, r)
                   /\ Allowed(s, r)' <=> Allowed(s, r)
                   /\ Collection(s, r)' = Collection(s, r)
<1>1. /\ UNCHANGED <<ledger, obligations, flows, receivables, collections, claims, updated>>
      /\ UNCHANGED request
  BY DEF committed
<1>2. /\ IsCreation(s)' <=> IsCreation(s)
      /\ Table(s)' = Table(s) /\ Claim(s)' = Claim(s) /\ NewRow(s)' = NewRow(s)
      /\ \A r : /\ Changed(s, r)' = Changed(s, r)
                /\ Allowed(s, r)' <=> Allowed(s, r)
                /\ Collection(s, r)' = Collection(s, r)
  BY <1>1 DEF IsCreation, Table, Claim, Fingerprint, NewRow, Changed, Allowed, Collection
<1>3. Target(s)' = Target(s)
  BY <1>1, <1>2 DEF Target, CommittedRows
<1> QED
  BY <1>1, <1>2, <1>3

LEMMA Begun ==
  ASSUME SInv, NEW s \in Sessions, Begin(s)
  PROVE  SInv'
<1> DEFINE time == Max({moment[o] : o \in Sessions}) + 1
           step == IF request[s].operation \in Creations THEN "claim" ELSE "row"
<1>1. /\ pc[s] = "idle" /\ moment' = [moment EXCEPT ![s] = time] /\ pc' = [pc EXCEPT ![s] = step]
      /\ UNCHANGED <<committed, request>> /\ request' = request /\ UNCHANGED <<locks, writes>>
  BY DEF Begin, Goto
<1>2. time \in Nat
  <2>1. {moment[o] : o \in Sessions} \subseteq Nat /\ {moment[o] : o \in Sessions} # {}
    BY DEF SInv, Shape, TimesOK
  <2>2. IsFiniteSet({moment[o] : o \in Sessions})
    <3>1. moment \in [Sessions -> Nat]
      BY DEF SInv, Shape, TimesOK
    <3>2. {moment[o] : o \in Sessions} = Range(moment)
      BY <3>1 DEF Range
    <3>3. moment \in Surjection(Sessions, {moment[o] : o \in Sessions})
      BY <3>1 DEF Surjection
    <3> QED
      BY <3>3, SessionAssumption, FS_Surjection
  <2>3. PICK times : times = {moment[o] : o \in Sessions}
    OBVIOUS
  <2>4. Max(times) \in Nat
    BY <2>1, <2>2, <2>3, LatestMoment
  <2> QED
    BY <2>3, <2>4
<1> HIDE DEF time
<1>3. /\ PcOK(s) /\ LockOK(s) /\ ClaimOK(s) /\ RowOK(s) /\ CollectionOK(s) /\ Shape
      /\ HasFields(writes[s])
  BY SessionIs
<1>4. /\ pc'[s] = step /\ locks'[s] = locks[s] /\ writes'[s] = writes[s]
      /\ Untouched(s)
  BY <1>1, <1>3 DEF Shape, TimesOK, Untouched
<1>7. Shape'
  BY <1>1, <1>2, <1>3 DEF Shape, TimesOK
<1>8. step \in {"claim", "row"} /\ (step = "claim" <=> IsCreation(s))
  BY DEF step, IsCreation
<1> HIDE DEF step
<1>5. SessionOK(s)'
  <2>1. /\ locks[s] = {} /\ \A field \in Fields : writes[s][field] = {}
    <3>1. locks[s] = {}
      BY <1>1, <1>3 DEF LockOK, Locking
    <3>2. writes[s]["claims"] = {}
      BY <1>1, <1>3 DEF ClaimOK, Claiming
    <3>3. \A table \in RowTables : writes[s][table] = {}
      BY <1>1, <1>3 DEF RowOK, Writing
    <3>4. writes[s]["collections"] = {}
      BY <1>1, <1>3 DEF CollectionOK
    <3> QED
      BY <3>1, <3>2, <3>3, <3>4 DEF Fields, Tables, RowTables
  <2>2. IsCreation(s)' <=> IsCreation(s)
    BY <1>1, SameRequest
  <2>3. PcOK(s)'
    BY <1>4, <1>8, <2>2 DEF PcOK
  <2>4. LockOK(s)'
    BY <1>4, <1>8, <2>1, <2>2 DEF LockOK, Locking
  <2>5. ClaimOK(s)'
    BY <1>4, <1>8, <2>1, Unfolded DEF ClaimOK, Claiming
  <2>6. RowOK(s)'
    BY <1>4, <1>8, <2>1, Unfolded DEF RowOK, Writing
  <2>7. CollectionOK(s)'
    BY <1>4, <1>8, <2>1, Unfolded DEF CollectionOK
  <2> QED
    BY <2>3, <2>4, <2>5, <2>6, <2>7 DEF SessionOK
<1>6. \A o \in Sessions \ {s} : Apart(s, o)'
  <2>1. ~ Claiming(s)'
    BY <1>4, <1>8 DEF Claiming
  <2> QED
    BY <1>1, <1>4, <2>1, StaysApart
<1> QED
  BY <1>1, <1>4, <1>5, <1>6, <1>7, SessionStep

LEMMA RowLocked ==
  ASSUME SInv, NEW s \in Sessions, LockRow(s)
  PROVE  SInv'
<1>1. Ready(s, "row")
  BY DEF LockRow
<1>2. CASE Target(s) = {}
  BY <1>2, Refused DEF LockRow
<1>3. CASE Target(s) # {}
  <2> DEFINE held == {<<Table(s), request[s].row>>}
  <2>1. /\ locks' = [locks EXCEPT ![s] = held] /\ pc' = [pc EXCEPT ![s] = "claim"]
        /\ UNCHANGED <<committed, request>> /\ request' = request /\ UNCHANGED <<moment, writes>>
    BY <1>3 DEF LockRow, Goto
  <2>2. /\ PcOK(s) /\ LockOK(s) /\ ClaimOK(s) /\ RowOK(s) /\ CollectionOK(s) /\ Shape
        /\ HasFields(writes[s])
    BY SessionIs
  <2>3. /\ pc'[s] = "claim" /\ locks'[s] = held /\ writes'[s] = writes[s]
        /\ Untouched(s) /\ Shape'
    BY <2>1, <2>2 DEF Shape, TimesOK, Untouched
  <2>4. pc[s] = "row" /\ ~ IsCreation(s)
    BY <1>1, <2>2 DEF Ready, PcOK
  <2>5. SessionOK(s)'
    <3>1. /\ IsCreation(s)' <=> IsCreation(s)
          /\ Table(s)' = Table(s) /\ Target(s)' = Target(s) /\ request' = request
      BY <2>1, SameRequest
    <3>2. PcOK(s)'
      BY <2>3, <3>1 DEF PcOK
    <3>3. LockOK(s)'
      BY <1>3, <2>3, <2>4, <3>1 DEF LockOK, Locking
    <3>4. ClaimOK(s)'
      BY <2>2, <2>3, <2>4 DEF ClaimOK, Claiming
    <3>5. RowOK(s)'
      <4>1. \A table \in RowTables : writes[s][table] = {}
        BY <2>2, <2>4 DEF RowOK, Writing
      <4> QED
        BY <2>3, <4>1 DEF RowOK, Writing
    <3>6. CollectionOK(s)'
      BY <2>2, <2>3, <2>4 DEF CollectionOK
    <3> QED
      BY <3>2, <3>3, <3>4, <3>5, <3>6 DEF SessionOK
  <2>6. ASSUME NEW o \in Sessions \ {s} PROVE Apart(s, o)'
    <3>1. <<Table(s), request[s].row>> \notin locks[o]
      <4>1. WaitsFor(s) = {}
        BY <1>1 DEF Ready
      <4>2. WaitsFor(s) = UNION {Holders(s, <<Table(s), r.id>>) : r \in Target(s)}
        BY <2>4 DEF WaitsFor
      <4>3. PICK r \in Target(s) : r.id = request[s].row
        BY <1>3 DEF Target
      <4>4. Holders(s, <<Table(s), r.id>>) = {}
        BY <4>1, <4>2
      <4> QED
        BY <4>3, <4>4 DEF Holders
    <3>2. locks'[s] \cap locks'[o] = {}
      BY <2>3, <2>6, <3>1 DEF Untouched
    <3>3. writes'[s]["collections"] = {}
      BY <2>2, <2>3, <2>4 DEF CollectionOK
    <3>4. ~ Claiming(s)'
      BY <2>3 DEF Claiming
    <3> QED
      BY <3>2, <3>3, <3>4 DEF Apart
  <2> QED
    BY <2>1, <2>3, <2>5, <2>6, SessionStep
<1> QED
  BY <1>2, <1>3

LEMMA FreshKeyClaimed ==
  ASSUME SInv, NEW s \in Sessions, Ready(s, "claim"), UNCHANGED <<committed, locks, request, moment, answer>>,
         Unclaimed(request[s].operation, request[s].key),
         writes' = [writes EXCEPT ![s].claims = {Claim(s)}],
         Goto(s, IF request[s].operation \in Creations THEN "insert" ELSE "change")
  PROVE  SInv'
<1> DEFINE step == IF request[s].operation \in Creations THEN "insert" ELSE "change"
<1>1. /\ pc' = [pc EXCEPT ![s] = step] /\ pc[s] = "claim" /\ WaitsFor(s) = {}
      /\ UNCHANGED <<committed, request>> /\ request' = request /\ locks' = locks /\ moment' = moment
  BY DEF Goto, Ready
<1>2. /\ PcOK(s) /\ LockOK(s) /\ ClaimOK(s) /\ RowOK(s) /\ CollectionOK(s) /\ Shape
      /\ HasFields(writes[s])
  BY SessionIs
<1>3. step \in {"insert", "change"} /\ (step = "insert" <=> IsCreation(s))
  BY DEF step, IsCreation
<1> HIDE DEF step
<1>4. /\ pc'[s] = step /\ locks'[s] = locks[s]
      /\ writes'[s] = [writes[s] EXCEPT !["claims"] = {Claim(s)}]
      /\ Untouched(s)
  BY <1>1, <1>2 DEF Shape, TimesOK, Untouched
<1>5. /\ writes'[s]["claims"] = {Claim(s)}
      /\ \A field \in Fields \ {"claims"} : writes'[s][field] = writes[s][field]
      /\ HasFields(writes'[s])
  BY <1>2, <1>4 DEF HasFields, Fields
<1>6. Shape'
  <2>1. \A o \in Sessions : HasFields(writes'[o])
    BY <1>2, <1>4, <1>5 DEF Shape, Untouched
  <2> QED
    BY <1>1, <1>2, <2>1 DEF Shape, TimesOK
<1>7. SessionOK(s)'
  <2>1. /\ UNCHANGED <<ledger, obligations, flows, receivables, collections, claims, updated>>
        /\ IsCreation(s)' <=> IsCreation(s)
        /\ Table(s)' = Table(s) /\ Claim(s)' = Claim(s) /\ Target(s)' = Target(s)
    BY <1>1, SameRequest
  <2>2. PcOK(s)'
    BY <1>3, <1>4, <2>1 DEF PcOK
  <2>3. LockOK(s)'
    BY <1>1, <1>2, <1>3, <1>4, <2>1 DEF LockOK, Locking
  <2>4. ClaimOK(s)'
    BY <1>1, <1>3, <1>4, <1>5, <2>1 DEF ClaimOK, Claiming, Unclaimed
  <2>5. RowOK(s)'
    <3>1. \A table \in RowTables : writes[s][table] = {} /\ table \in Fields \ {"claims"}
      BY <1>1, <1>2 DEF RowOK, Writing, RowTables, Fields, Tables
    <3> QED
      BY <1>3, <1>4, <1>5, <3>1 DEF RowOK, Writing
  <2>6. CollectionOK(s)'
    BY <1>1, <1>2, <1>3, <1>4, <1>5 DEF CollectionOK, Fields, Tables
  <2> QED
    BY <2>2, <2>3, <2>4, <2>5, <2>6 DEF SessionOK
<1>8. ASSUME NEW o \in Sessions \ {s} PROVE Apart(s, o)'
  <2>1. Apart(s, o) /\ ClaimOK(o)
    BY SessionIs DEF SInv
  <2>2. Claiming(o) => request[s].operation # request[o].operation \/ request[s].key # request[o].key
    <3>1. SUFFICES ASSUME Claiming(o)
                   PROVE  request[s].operation # request[o].operation \/ request[s].key # request[o].key
      OBVIOUS
    <3>2. writes[o]["claims"] = {Claim(o)}
      BY <2>1, <3>1 DEF ClaimOK
    <3>3. KeyBlockers(s) = {}
      BY <1>1 DEF WaitsFor
    <3>4. <<Claim(o)[1], Claim(o)[2]>> # <<Claim(s)[1], Claim(s)[2]>>
      BY <1>8, <3>2, <3>3 DEF KeyBlockers
    <3> QED
      BY <3>4 DEF Claim
  <2>3. writes'[s]["collections"] = writes[s]["collections"]
    BY <1>5 DEF Fields, Tables
  <2>4. pc'[o] = pc[o] /\ locks'[o] = locks[o] /\ writes'[o] = writes[o]
    BY <1>4 DEF Untouched
  <2> QED
    BY <1>1, <1>4, <2>1, <2>2, <2>3, <2>4 DEF Apart, Claiming
<1> QED
  BY <1>1, <1>4, <1>6, <1>7, <1>8, SessionStep

LEMMA KeyClaimed ==
  ASSUME SInv, NEW s \in Sessions, ClaimMutation(s)
  PROVE  SInv'
<1>1. CASE /\ Ready(s, "claim") /\ Unclaimed(request[s].operation, request[s].key)
           /\ writes' = [writes EXCEPT ![s].claims = {Claim(s)}]
           /\ Goto(s, IF request[s].operation \in Creations THEN "insert" ELSE "change")
           /\ UNCHANGED <<committed, locks, request, moment, answer>>
  BY <1>1, FreshKeyClaimed
<1>2. CASE End(s, "done") /\ UNCHANGED committed
  BY <1>2, EndPreservesSInv DEF Ended
<1>3. CASE Reject(s)
  BY <1>3, Refused
<1> QED
  BY <1>1, <1>2, <1>3 DEF ClaimMutation

\* A session writes one row of a table.
LEMMA Wrote ==
  ASSUME Shape, NEW s \in Sessions, NEW table \in Fields, NEW row, Write(s, table, row),
         NEW step, Goto(s, step),
         UNCHANGED <<committed, locks, request, moment>>
  PROVE  /\ pc'[s] = step /\ locks'[s] = locks[s] /\ moment'[s] = moment[s] /\ request' = request
         /\ writes'[s][table] = {row}
         /\ \A field \in Fields \ {table} : writes'[s][field] = writes[s][field]
         /\ Untouched(s) /\ Shape'
<1>1. /\ pc' = [pc EXCEPT ![s] = step] /\ writes' = [writes EXCEPT ![s][table] = {row}]
      /\ request' = request /\ locks' = locks /\ moment' = moment
  BY DEF Goto, Write
<1>2. HasFields(writes[s])
  BY DEF Shape
<1>3. /\ pc'[s] = step /\ writes'[s] = [writes[s] EXCEPT ![table] = {row}]
      /\ Untouched(s)
  BY <1>1 DEF Shape, TimesOK, Untouched
<1>4. /\ writes'[s][table] = {row}
      /\ \A field \in Fields \ {table} : writes'[s][field] = writes[s][field]
      /\ HasFields(writes'[s])
  BY <1>2, <1>3 DEF HasFields
<1>5. Shape'
  <2>1. \A o \in Sessions : HasFields(writes'[o])
    BY <1>3, <1>4 DEF Shape, Untouched
  <2> QED
    BY <1>1, <2>1 DEF Shape, TimesOK
<1> QED
  BY <1>1, <1>3, <1>4, <1>5

LEMMA RowInserted ==
  ASSUME SInv, NEW s \in Sessions, InsertRow(s)
  PROVE  SInv'
<1>1. /\ pc[s] = "insert" /\ Write(s, Table(s), NewRow(s)) /\ Goto(s, "commit")
      /\ UNCHANGED <<committed, locks, request, moment>> /\ UNCHANGED <<committed, request>>
  BY DEF InsertRow, Ready
<1>2. /\ PcOK(s) /\ LockOK(s) /\ ClaimOK(s) /\ RowOK(s) /\ CollectionOK(s) /\ Shape
      /\ HasFields(writes[s])
  BY SessionIs
<1>3. Table(s) \in RowTables /\ Table(s) \in Fields /\ Table(s) \notin {"claims", "collections"}
  BY <1>2, RequestsHaveTypes, Unfolded DEF RowTables
<1>4. /\ pc'[s] = "commit" /\ locks'[s] = locks[s] /\ moment'[s] = moment[s] /\ request' = request
      /\ writes'[s][Table(s)] = {NewRow(s)}
      /\ \A field \in Fields \ {Table(s)} : writes'[s][field] = writes[s][field]
      /\ Untouched(s) /\ Shape'
  <2>1. PICK table, row : table \in Fields /\ table = Table(s) /\ row = NewRow(s)
    BY <1>3
  <2>2. Write(s, table, row)
    BY <1>1, <2>1
  <2>3. /\ pc'[s] = "commit" /\ locks'[s] = locks[s] /\ moment'[s] = moment[s] /\ request' = request
        /\ writes'[s][table] = {row}
        /\ \A field \in Fields \ {table} : writes'[s][field] = writes[s][field]
        /\ Untouched(s) /\ Shape'
    BY <1>1, <1>2, <2>1, <2>2, Wrote
  <2> QED
    BY <2>1, <2>3
<1>5. SessionOK(s)'
  <2>1. /\ UNCHANGED <<ledger, obligations, flows, receivables, collections, claims, updated>>
        /\ IsCreation(s)' <=> IsCreation(s)
        /\ Table(s)' = Table(s) /\ Claim(s)' = Claim(s) /\ Target(s)' = Target(s) /\ NewRow(s)' = NewRow(s)
    BY <1>1, SameRequest
  <2>2. IsCreation(s)
    BY <1>1, <1>2 DEF PcOK
  <2>3. PcOK(s)'
    BY <1>4, <2>1, <2>2 DEF PcOK
  <2>4. LockOK(s)'
    BY <1>1, <1>2, <1>4, <2>1, <2>2 DEF LockOK, Locking
  <2>5. ClaimOK(s)'
    BY <1>1, <1>2, <1>3, <1>4, <2>1, Unfolded DEF ClaimOK, Claiming, Unclaimed
  <2>6. RowOK(s)'
    <3>1. \A table \in RowTables : table # Table(s) => writes[s][table] = {}
      BY <1>2 DEF RowOK, Writing
    <3>2. \A table \in RowTables : Writing(s, table)' <=> table = Table(s)
      BY <1>4, <2>1 DEF Writing
    <3>3. \A table \in RowTables : table # Table(s) => writes'[s][table] = {}
      BY <1>4, <3>1, Unfolded
    <3> QED
      BY <1>4, <2>1, <2>2, <3>2, <3>3 DEF RowOK
  <2>7. CollectionOK(s)'
    <3>1. request[s].operation # "collect_receivable"
      BY <2>2 DEF IsCreation, Creations
    <3>2. writes[s]["collections"] = {}
      BY <1>1, <1>2 DEF CollectionOK
    <3> QED
      BY <1>3, <1>4, <3>1, <3>2, Unfolded DEF CollectionOK
  <2> QED
    BY <2>3, <2>4, <2>5, <2>6, <2>7 DEF SessionOK
<1>6. \A o \in Sessions \ {s} : Apart(s, o)'
  <2>1. writes'[s]["collections"] = writes[s]["collections"]
    BY <1>3, <1>4, Unfolded
  <2>2. Claiming(s)
    BY <1>1 DEF Claiming
  <2> QED
    BY <1>4, <2>1, <2>2, StaysApart
<1> QED
  BY <1>1, <1>4, <1>5, <1>6, SessionStep

LEMMA RowChanged ==
  ASSUME SInv, NEW s \in Sessions, pc[s] = "change", NEW r \in Target(s),
         NEW allowed, allowed => Allowed(s, r), NEW new, new = Changed(s, r), Change(s, r, allowed, new)
  PROVE  SInv'
<1>1. CASE Reject(s)
  BY <1>1, Refused
<1>2. CASE ~ Reject(s)
  <2> DEFINE step == IF request[s].operation = "collect_receivable" THEN "link" ELSE "commit"
  <2>1. /\ allowed /\ Fresh(s, r) /\ Write(s, Table(s), new) /\ Goto(s, step)
        /\ UNCHANGED <<committed, locks, request, moment>> /\ UNCHANGED <<committed, request>>
    BY <1>2 DEF Change
  <2>2. /\ PcOK(s) /\ LockOK(s) /\ ClaimOK(s) /\ RowOK(s) /\ CollectionOK(s) /\ Shape
        /\ HasFields(writes[s])
    BY SessionIs
  <2>3. Table(s) \in RowTables /\ Table(s) \in Fields /\ Table(s) \notin {"claims", "collections"}
    BY <2>2, RequestsHaveTypes, Unfolded DEF RowTables
  <2>4. /\ step \in {"link", "commit"} /\ (step = "link" <=> request[s].operation = "collect_receivable")
    OBVIOUS
  <2> HIDE DEF step
  <2>5. /\ pc'[s] = step /\ locks'[s] = locks[s] /\ moment'[s] = moment[s] /\ request' = request
        /\ writes'[s][Table(s)] = {new}
        /\ \A field \in Fields \ {Table(s)} : writes'[s][field] = writes[s][field]
        /\ Untouched(s) /\ Shape'
    <3>1. PICK table, row : table \in Fields /\ table = Table(s) /\ row = new
      BY <2>3
    <3>2. Write(s, table, row)
      BY <2>1, <3>1
    <3>3. PICK next : next = step
      OBVIOUS
    <3>4. Goto(s, next)
      BY <2>1, <3>3
    <3>5. /\ pc'[s] = next /\ locks'[s] = locks[s] /\ moment'[s] = moment[s] /\ request' = request
          /\ writes'[s][table] = {row}
          /\ \A field \in Fields \ {table} : writes'[s][field] = writes[s][field]
          /\ Untouched(s) /\ Shape'
      BY <2>1, <2>2, <3>1, <3>2, <3>4, Wrote
    <3> QED
      BY <3>1, <3>3, <3>5
  <2>6. SessionOK(s)'
    <3>1. /\ UNCHANGED <<ledger, obligations, flows, receivables, collections, claims, updated>>
          /\ IsCreation(s)' <=> IsCreation(s)
          /\ Table(s)' = Table(s) /\ Claim(s)' = Claim(s) /\ Target(s)' = Target(s)
          /\ \A q : Changed(s, q)' = Changed(s, q) /\ (Allowed(s, q)' <=> Allowed(s, q))
      BY <2>1, SameRequest
    <3>2. ~ IsCreation(s)
      BY <2>2 DEF PcOK
    <3>3. PcOK(s)'
      BY <2>4, <2>5, <3>1, <3>2 DEF PcOK
    <3>4. LockOK(s)'
      BY <2>2, <2>4, <2>5, <3>1, <3>2 DEF LockOK, Locking
    <3>5. ClaimOK(s)'
      BY <2>2, <2>3, <2>4, <2>5, <3>1, Unfolded DEF ClaimOK, Claiming, Unclaimed
    <3>6. RowOK(s)'
      <4>1. \A table \in RowTables : table # Table(s) => writes[s][table] = {}
        BY <2>2 DEF RowOK, Writing
      <4>2. \A table \in RowTables : Writing(s, table)' <=> table = Table(s)
        BY <2>4, <2>5, <3>1 DEF Writing
      <4>3. \A table \in RowTables : table # Table(s) => writes'[s][table] = {}
        BY <2>5, <4>1, Unfolded
      <4>4. r \in Target(s)' /\ Allowed(s, r)' /\ Fresh(s, r)' /\ writes'[s][Table(s)] = {Changed(s, r)'}
        BY <2>1, <2>5, <3>1 DEF Fresh
      <4> QED
        BY <3>1, <3>2, <4>2, <4>3, <4>4 DEF RowOK
    <3>7. CollectionOK(s)'
      <4>1. writes[s]["collections"] = {}
        BY <2>2 DEF CollectionOK
      <4> QED
        BY <2>3, <2>4, <2>5, <4>1, Unfolded DEF CollectionOK
    <3> QED
      BY <3>3, <3>4, <3>5, <3>6, <3>7 DEF SessionOK
  <2>7. \A o \in Sessions \ {s} : Apart(s, o)'
    <3>1. writes'[s]["collections"] = writes[s]["collections"]
      BY <2>3, <2>5, Unfolded
    <3>2. Claiming(s)
      BY DEF Claiming
    <3> QED
      BY <2>5, <3>1, <3>2, StaysApart
  <2> QED
    BY <2>1, <2>5, <2>6, <2>7, SessionStep
<1> QED
  BY <1>1, <1>2

LEMMA RowsChanged ==
  ASSUME SInv, NEW s \in Sessions,
         ArchiveLockedObligation(s) \/ CancelLockedFlow(s) \/ CancelLockedReceivable(s) \/ UpdateReceivable(s)
  PROVE  SInv'
<1>1. CASE ArchiveLockedObligation(s)
  <2>1. pc[s] = "change" /\ request[s].operation = "archive_obligation"
    BY <1>1 DEF ArchiveLockedObligation, IsChange, Ready
  <2>2. PICK o \in Target(s) : Change(s, o, o.status = "active", [o EXCEPT !.status = "archived"])
    BY <1>1 DEF ArchiveLockedObligation
  <2>3. [o EXCEPT !.status = "archived"] = Changed(s, o) /\ (o.status = "active" => Allowed(s, o))
    BY <2>1 DEF Changed, Allowed
  <2>4. PICK allowed, new : /\ new = [o EXCEPT !.status = "archived"] /\ (allowed => o.status = "active")
                            /\ Change(s, o, allowed, new)
    BY <2>2
  <2> QED
    BY <2>1, <2>3, <2>4, RowChanged
<1>2. CASE CancelLockedFlow(s)
  <2>1. pc[s] = "change" /\ request[s].operation = "cancel_scheduled_flow"
    BY <1>2 DEF CancelLockedFlow, IsChange, Ready
  <2>2. PICK f \in Target(s) : Change(s, f, f.status = "scheduled", [f EXCEPT !.status = "cancelled"])
    BY <1>2 DEF CancelLockedFlow
  <2>3. [f EXCEPT !.status = "cancelled"] = Changed(s, f) /\ (f.status = "scheduled" => Allowed(s, f))
    BY <2>1 DEF Changed, Allowed
  <2>4. PICK allowed, new : /\ new = [f EXCEPT !.status = "cancelled"] /\ (allowed => f.status = "scheduled")
                            /\ Change(s, f, allowed, new)
    BY <2>2
  <2> QED
    BY <2>1, <2>3, <2>4, RowChanged
<1>3. CASE CancelLockedReceivable(s)
  <2>1. pc[s] = "change" /\ request[s].operation = "cancel_receivable"
    BY <1>3 DEF CancelLockedReceivable, IsChange, Ready
  <2>2. PICK r \in Target(s) : Change(s, r, ~ Final(r), [r EXCEPT !.status = "cancelled"])
    BY <1>3 DEF CancelLockedReceivable
  <2>3. [r EXCEPT !.status = "cancelled"] = Changed(s, r) /\ (~ Final(r) => Allowed(s, r))
    BY <2>1 DEF Changed, Allowed
  <2>4. PICK allowed, new : /\ new = [r EXCEPT !.status = "cancelled"] /\ (allowed => ~ Final(r))
                            /\ Change(s, r, allowed, new)
    BY <2>2
  <2> QED
    BY <2>1, <2>3, <2>4, RowChanged
<1>4. CASE UpdateReceivable(s)
  <2>1. pc[s] = "change" /\ request[s].operation = "collect_receivable"
    BY <1>4 DEF UpdateReceivable, IsChange, Ready
  <2>2. PICK r \in Target(s) :
          Change(s, r, ~ Final(r) /\ request[s].amount <= Outstanding(r),
                 CollectedReceivable(r, request[s].amount))
    BY <1>4 DEF UpdateReceivable
  <2>3. /\ CollectedReceivable(r, request[s].amount) = Changed(s, r)
        /\ ~ Final(r) /\ request[s].amount <= Outstanding(r) => Allowed(s, r)
    BY <2>1 DEF Changed, Allowed
  <2>4. PICK allowed, new : /\ new = CollectedReceivable(r, request[s].amount)
                            /\ allowed => ~ Final(r) /\ request[s].amount <= Outstanding(r)
                            /\ Change(s, r, allowed, new)
    BY <2>2
  <2> QED
    BY <2>1, <2>3, <2>4, RowChanged
<1> QED
  BY <1>1, <1>2, <1>3, <1>4

LEMMA CollectionInserted ==
  ASSUME SInv, NEW s \in Sessions, InsertCollection(s)
  PROVE  SInv'
<1>1. CASE Reject(s)
  BY <1>1, Refused
<1>2. CASE ~ Reject(s)
  <2>1. /\ pc[s] = "link" /\ WaitsFor(s) = {} /\ Goto(s, "commit")
        /\ Compatible(request[s].link, request[s].amount) /\ Unlinked(request[s].link, request[s].row)
        /\ \E r \in Target(s) : Write(s, "collections", Collection(s, r))
        /\ UNCHANGED <<committed, locks, request, moment>> /\ UNCHANGED <<committed, request>>
    BY <1>2 DEF InsertCollection, Ready, Collection
  <2>2. /\ PcOK(s) /\ LockOK(s) /\ ClaimOK(s) /\ RowOK(s) /\ CollectionOK(s) /\ Shape
        /\ HasFields(writes[s])
    BY SessionIs
  <2>3. PICK r \in Target(s) : Write(s, "collections", Collection(s, r))
    BY <2>1
  <2>4. /\ pc'[s] = "commit" /\ locks'[s] = locks[s] /\ moment'[s] = moment[s] /\ request' = request
        /\ writes'[s]["collections"] = {Collection(s, r)}
        /\ \A field \in Fields \ {"collections"} : writes'[s][field] = writes[s][field]
        /\ Untouched(s) /\ Shape'
    <3>1. PICK row : row = Collection(s, r)
      OBVIOUS
    <3>2. PICK table \in Fields : table = "collections"
      BY Unfolded
    <3>3. Write(s, table, row)
      BY <2>3, <3>1, <3>2
    <3>4. /\ pc'[s] = "commit" /\ locks'[s] = locks[s] /\ moment'[s] = moment[s] /\ request' = request
          /\ writes'[s][table] = {row}
          /\ \A field \in Fields \ {table} : writes'[s][field] = writes[s][field]
          /\ Untouched(s) /\ Shape'
      BY <2>1, <2>2, <3>2, <3>3, Wrote
    <3> QED
      BY <3>1, <3>2, <3>4
  <2>5. request[s].operation = "collect_receivable" /\ ~ IsCreation(s)
    BY <2>1, <2>2 DEF PcOK, IsCreation, Creations
  <2>6. SessionOK(s)'
    <3>1. /\ UNCHANGED <<ledger, obligations, flows, receivables, collections, claims, updated>>
          /\ IsCreation(s)' <=> IsCreation(s)
          /\ Table(s)' = Table(s) /\ Claim(s)' = Claim(s) /\ Target(s)' = Target(s)
          /\ \A q : /\ Changed(s, q)' = Changed(s, q) /\ (Allowed(s, q)' <=> Allowed(s, q))
                    /\ Collection(s, q)' = Collection(s, q)
      BY <2>1, SameRequest
    <3>2. PcOK(s)'
      BY <2>4, <2>5, <3>1 DEF PcOK
    <3>3. LockOK(s)'
      BY <2>1, <2>2, <2>4, <3>1 DEF LockOK, Locking
    <3>4. ClaimOK(s)'
      BY <2>1, <2>2, <2>4, <3>1, Unfolded DEF ClaimOK, Claiming, Unclaimed
    <3>5. RowOK(s)'
      <4>1. /\ \A table \in RowTables : table \in Fields \ {"collections"}
            /\ \A table : Writing(s, table)' <=> Writing(s, table)
            /\ \A q : Fresh(s, q)' <=> Fresh(s, q)
        BY <2>1, <2>4, <3>1, Unfolded DEF RowTables, Writing, Fresh
      <4>2. \A table \in RowTables : writes'[s][table] = writes[s][table]
        BY <2>4, <4>1
      <4>3. \A table \in RowTables : Writing(s, table) <=> table = Table(s)
        BY <2>1 DEF Writing
      <4>4. \A table \in RowTables : table # Table(s) => writes[s][table] = {}
        BY <2>2, <4>3 DEF RowOK
      <4>5. Table(s) \in RowTables
        BY <2>2, RequestsHaveTypes
      <4>6. PICK q \in Target(s) : Allowed(s, q) /\ Fresh(s, q) /\ writes[s][Table(s)] = {Changed(s, q)}
        BY <2>2, <2>5, <4>3, <4>5 DEF RowOK
      <4>7. q \in Target(s)' /\ Allowed(s, q)' /\ Fresh(s, q)' /\ writes'[s][Table(s)] = {Changed(s, q)'}
        BY <3>1, <4>1, <4>2, <4>5, <4>6
      <4>8. \A table \in RowTables : table # Table(s) => writes'[s][table] = {}
        BY <4>2, <4>4
      <4> QED
        BY <2>5, <3>1, <4>1, <4>3, <4>7, <4>8 DEF RowOK
    <3>6. CollectionOK(s)'
      BY <2>1, <2>4, <2>5, <3>1 DEF CollectionOK, Compatible, Unlinked
    <3> QED
      BY <3>2, <3>3, <3>4, <3>5, <3>6 DEF SessionOK
  <2>7. ASSUME NEW o \in Sessions \ {s} PROVE Apart(s, o)'
    <3>1. Apart(s, o) /\ Claiming(s)
      BY <2>1 DEF SInv, Claiming
    <3>2. pc'[o] = pc[o] /\ locks'[o] = locks[o] /\ writes'[o] = writes[o]
      BY <2>4 DEF Untouched
    <3>3. LinkBlockers(s) = {}
      BY <2>1 DEF WaitsFor
    <3>4. \A c \in writes[o]["collections"] : request[s].link = NoLink \/ request[s].link # c.link
      BY <2>7, <3>3 DEF LinkBlockers
    <3>5. Collection(s, r).link = request[s].link
      BY DEF Collection, NewCollection
    <3>6. \A c \in writes'[s]["collections"], d \in writes'[o]["collections"] :
            c.link = NoLink \/ c.link # d.link
      BY <2>4, <3>2, <3>4, <3>5
    <3> QED
      BY <2>4, <3>1, <3>2, <3>6 DEF Apart, Claiming
  <2> QED
    BY <2>1, <2>4, <2>6, <2>7, SessionStep
<1> QED
  BY <1>1, <1>2

LEMMA TransactionPosted ==
  ASSUME SInv, LedgerPosts
  PROVE  SInv' /\ [Next]_vars
<1>1. PICK s \in Sessions, effect \in Effects, amount \in Amounts :
        request[s].link # NoLink /\ PostTransaction(request[s].link, effect, amount)
  BY DEF LedgerPosts
<1>2. UNCHANGED <<updated, locks, pc, request, moment, writes>>
  BY DEF LedgerPosts
<1>3. /\ ledger \subseteq ledger'
      /\ UNCHANGED <<obligations, flows, receivables, collections, claims>>
  BY <1>1 DEF PostTransaction
<1>4. Next
  <2>1. request[s].link \in Transactions
    BY <1>1, RequestsHaveTypes DEF SInv
  <2>2. effect \in Effects
    BY DEF Effects
  <2> QED
    BY <1>1, <2>1, <2>2 DEF Next
<1>5. IInv'
  BY <1>4, CommittedRowsAreSound DEF SInv
<1>6. Shape' /\ UpdatedOK'
  BY <1>2 DEF SInv, Shape, TimesOK, UpdatedOK
<1>7. ASSUME NEW o \in Sessions PROVE SessionOK(o)'
  <2>1. /\ PcOK(o) /\ LockOK(o) /\ ClaimOK(o) /\ RowOK(o) /\ CollectionOK(o)
    BY SessionIs
  <2>2. /\ IsCreation(o)' <=> IsCreation(o)
        /\ Table(o)' = Table(o) /\ Claim(o)' = Claim(o) /\ NewRow(o)' = NewRow(o)
        /\ \A r : /\ Changed(o, r)' = Changed(o, r)
                  /\ Allowed(o, r)' <=> Allowed(o, r)
                  /\ Collection(o, r)' = Collection(o, r)
    BY <1>2 DEF IsCreation, Table, Claim, Fingerprint, NewRow, Changed, Allowed, Collection
  <2>3. Target(o)' = Target(o)
    BY <1>2, <1>3, <2>2 DEF Target, CommittedRows
  <2>4. PcOK(o)'
    BY <1>2, <2>1, <2>2 DEF PcOK
  <2>5. LockOK(o)'
    BY <1>2, <2>1, <2>2, <2>3 DEF LockOK, Locking
  <2>6. ClaimOK(o)'
    BY <1>2, <1>3, <2>1, <2>2 DEF ClaimOK, Claiming, Unclaimed
  <2>7. RowOK(o)'
    <3>1. /\ \A table : Writing(o, table)' <=> Writing(o, table)
          /\ \A r : Fresh(o, r)' <=> Fresh(o, r)
      BY <1>2, <2>2 DEF Writing, Fresh
    <3>2. PICK mine : mine = writes[o]
      OBVIOUS
    <3>3. mine = writes'[o]
      BY <1>2, <3>2
    <3> QED
      BY <2>1, <2>2, <2>3, <3>1, <3>2, <3>3 DEF RowOK
  <2>8. CollectionOK(o)'
    <3>1. Compatible(request[o].link, request[o].amount) =>
            Compatible(request[o].link, request[o].amount)'
      BY <1>2, <1>3 DEF Compatible
    <3>2. Unlinked(request[o].link, request[o].row) => Unlinked(request[o].link, request[o].row)'
      BY <1>2, <1>3 DEF Unlinked
    <3> QED
      BY <1>2, <2>1, <2>2, <2>3, <3>1, <3>2 DEF CollectionOK
  <2> QED
    BY <2>4, <2>5, <2>6, <2>7, <2>8 DEF SessionOK
<1>8. \A o, u \in Sessions : o # u => Apart(o, u)'
  BY <1>2 DEF SInv, Apart, Claiming
<1> QED
  BY <1>4, <1>5, <1>6, <1>7, <1>8 DEF SInv

-----------------------------------------------------------------------------
(* Commits *)

LEMMA MergedRows ==
  ASSUME NEW rows
  PROVE  /\ Merged(rows, {}) = rows
         /\ \A n : (\A r \in rows : r.id # n.id) => Merged(rows, {n}) = rows \cup {n}
         /\ \A n : \A r \in rows :
              OneToAKey(rows) /\ n.id = r.id => Merged(rows, {n}) = (rows \ {r}) \cup {n}
         /\ \A new : new \subseteq Merged(rows, new)
BY DEF Merged, OneToAKey

\* What a session commits.
LEMMA CommitIs ==
  ASSUME NEW s \in Sessions, Commit(s)
  PROVE  /\ pc[s] = "commit" /\ End(s, "done") /\ ledger' = ledger /\ answer' = answer
         /\ obligations' = Merged(obligations, writes[s]["obligations"])
         /\ flows' = Merged(flows, writes[s]["flows"])
         /\ receivables' = Merged(receivables, writes[s]["receivables"])
         /\ collections' = Merged(collections, writes[s]["collections"])
         /\ claims' = claims \cup writes[s]["claims"]
         /\ updated' = [row \in DOMAIN updated |-> IF row \in Written(s) THEN moment[s] ELSE updated[row]]
BY DEF Commit

LEMMA CreationCommits ==
  ASSUME SInv, NEW s \in Sessions, Commit(s), IsCreation(s)
  PROVE  Next
<1>1. /\ PcOK(s) /\ ClaimOK(s) /\ RowOK(s) /\ CollectionOK(s) /\ Shape
  BY SessionIs
<1>2. /\ pc[s] = "commit" /\ ledger' = ledger
      /\ obligations' = Merged(obligations, writes[s]["obligations"])
      /\ flows' = Merged(flows, writes[s]["flows"])
      /\ receivables' = Merged(receivables, writes[s]["receivables"])
      /\ collections' = Merged(collections, writes[s]["collections"])
      /\ claims' = claims \cup writes[s]["claims"]
  BY CommitIs
<1>3. claims' = claims \cup {Claim(s)} /\ Unclaimed(request[s].operation, request[s].key)
  BY <1>1, <1>2 DEF ClaimOK, Claiming
<1>4. collections' = collections
  <2>1. writes[s]["collections"] = {}
    BY <1>1 DEF CollectionOK, IsCreation, Creations
  <2> QED
    BY <1>2, <2>1, MergedRows
<1>5. \A table \in RowTables : writes[s][table] = IF table = Table(s) THEN {NewRow(s)} ELSE {}
  BY <1>1, <1>2 DEF RowOK, Writing
<1>6. request[s].key \in Keys /\ request[s].original \in Originals
  BY <1>1, RequestsHaveTypes
<1>7. ~ IsClaimed(request[s].operation, request[s].key)
  BY <1>3 DEF Unclaimed, IsClaimed
<1>8. CASE request[s].operation = "create_obligation"
  <2>1. Table(s) = "obligations" /\ NewRow(s) = NewObligation(request[s].key)
        /\ Claim(s) = <<"create_obligation", request[s].key, <<>>>>
    BY <1>8 DEF Table, NewRow, Claim, Fingerprint, Creations
  <2>2. /\ writes[s]["obligations"] = {NewObligation(request[s].key)}
        /\ writes[s]["flows"] = {} /\ writes[s]["receivables"] = {}
    BY <1>5, <2>1 DEF RowTables
  <2>3. \A o \in obligations : o.id # NewObligation(request[s].key).id
    BY <1>7, <1>8 DEF SInv, IInv, RowsAreClaimed, NewObligation
  <2>4. obligations' = obligations \cup {NewObligation(request[s].key)}
    BY <1>2, <2>2, <2>3, MergedRows
  <2>5. UNCHANGED <<ledger, flows, receivables, collections>>
    BY <1>2, <1>4, <2>2, MergedRows
  <2>6. CreateObligation(request[s].key)
    BY <1>3, <1>8, <2>1, <2>4, <2>5 DEF CreateObligation, Claimed
  <2> QED
    BY <1>6, <2>6 DEF Next
<1>9. CASE request[s].operation = "create_scheduled_flow"
  <2>1. Table(s) = "flows" /\ NewRow(s) = NewFlow(request[s].key)
        /\ Claim(s) = <<"create_scheduled_flow", request[s].key, <<>>>>
    BY <1>9 DEF Table, NewRow, Claim, Fingerprint, Creations
  <2>2. /\ writes[s]["flows"] = {NewFlow(request[s].key)}
        /\ writes[s]["obligations"] = {} /\ writes[s]["receivables"] = {}
    BY <1>5, <2>1 DEF RowTables
  <2>3. \A o \in flows : o.id # NewFlow(request[s].key).id
    BY <1>7, <1>9 DEF SInv, IInv, RowsAreClaimed, NewFlow
  <2>4. flows' = flows \cup {NewFlow(request[s].key)}
    BY <1>2, <2>2, <2>3, MergedRows
  <2>5. UNCHANGED <<ledger, obligations, receivables, collections>>
    BY <1>2, <1>4, <2>2, MergedRows
  <2>6. CreateScheduledFlow(request[s].key)
    BY <1>3, <1>9, <2>1, <2>4, <2>5 DEF CreateScheduledFlow, Claimed
  <2> QED
    BY <1>6, <2>6 DEF Next
<1>10. CASE request[s].operation = "create_receivable"
  <2> DEFINE new == NewReceivable(request[s].key, request[s].original)
  <2>1. Table(s) = "receivables" /\ NewRow(s) = new
        /\ Claim(s) = <<"create_receivable", request[s].key, <<request[s].original>>>>
    <3>1. Table(s) = "receivables"
      BY <1>10 DEF Table
    <3>2. NewRow(s) = new
      BY <1>10 DEF NewRow
    <3>3. Fingerprint(s) = <<request[s].original>>
      BY <1>10 DEF Fingerprint, Creations
    <3> QED
      BY <1>10, <3>1, <3>2, <3>3 DEF Claim
  <2>2. /\ writes[s]["receivables"] = {new}
        /\ writes[s]["obligations"] = {} /\ writes[s]["flows"] = {}
    BY <1>5, <2>1 DEF RowTables
  <2>3. \A o \in receivables : o.id # new.id
    BY <1>7, <1>10 DEF SInv, IInv, RowsAreClaimed, NewReceivable
  <2> HIDE DEF new
  <2>4. receivables' = receivables \cup {new}
    BY <1>2, <2>2, <2>3, MergedRows
  <2>5. UNCHANGED <<ledger, obligations, flows, collections>>
    BY <1>2, <1>4, <2>2, MergedRows
  <2>6. CreateReceivable(request[s].key, request[s].original)
    BY <1>3, <1>10, <2>1, <2>4, <2>5 DEF CreateReceivable, Claimed, new
  <2> QED
    BY <1>6, <2>6 DEF Next
<1> QED
  BY <1>8, <1>9, <1>10 DEF IsCreation, Creations

LEMMA ChangeCommits ==
  ASSUME SInv, NEW s \in Sessions, Commit(s), ~ IsCreation(s)
  PROVE  Next
<1>1. /\ PcOK(s) /\ ClaimOK(s) /\ RowOK(s) /\ CollectionOK(s) /\ Shape
  BY SessionIs
<1>2. /\ pc[s] = "commit" /\ ledger' = ledger
      /\ obligations' = Merged(obligations, writes[s]["obligations"])
      /\ flows' = Merged(flows, writes[s]["flows"])
      /\ receivables' = Merged(receivables, writes[s]["receivables"])
      /\ collections' = Merged(collections, writes[s]["collections"])
      /\ claims' = claims \cup writes[s]["claims"]
  BY CommitIs
<1>3. claims' = claims \cup {Claim(s)} /\ Unclaimed(request[s].operation, request[s].key)
  BY <1>1, <1>2 DEF ClaimOK, Claiming
<1>4. /\ request[s].key \in Keys /\ request[s].amount \in Amounts
      /\ request[s].link \in Transactions \cup {NoLink} /\ request[s].operation \in Operations
      /\ Table(s) \in RowTables
  BY <1>1, RequestsHaveTypes
<1>5. \A table \in RowTables : Writing(s, table) <=> table = Table(s)
  BY <1>2 DEF Writing
<1>6. PICK r \in Target(s) : Allowed(s, r) /\ writes[s][Table(s)] = {Changed(s, r)}
  BY <1>1, <1>4, <1>5 DEF RowOK
<1>7. \A table \in RowTables : table # Table(s) => writes[s][table] = {}
  BY <1>1, <1>5 DEF RowOK
<1>8. r.id = request[s].row
  BY DEF Target
<1>9. CASE request[s].operation = "archive_obligation"
  <2> DEFINE new == [r EXCEPT !.status = "archived"]
  <2>1. Table(s) = "obligations" /\ Changed(s, r) = new /\ r.status = "active"
        /\ Claim(s) = <<"archive_obligation", request[s].key, <<r.id>>>>
    BY <1>6, <1>8, <1>9 DEF Table, Changed, Claim, Fingerprint, Creations, Allowed
  <2>2. r \in obligations /\ OneToAKey(obligations)
    BY <2>1 DEF Target, CommittedRows, SInv, IInv, RowsAreDistinct
  <2>3. new.id = r.id
    BY <2>2 DEF SInv, IInv, TypeOK, ObligationRow
  <2>4. writes[s]["collections"] = {}
    BY <1>1, <1>9 DEF CollectionOK
  <2>5. writes[s]["obligations"] = {new} /\ writes[s]["flows"] = {} /\ writes[s]["receivables"] = {}
    BY <1>6, <1>7, <2>1 DEF RowTables
  <2> HIDE DEF new
  <2>6. obligations' = (obligations \ {r}) \cup {new}
    BY <1>2, <2>2, <2>3, <2>5, MergedRows
  <2>7. UNCHANGED <<ledger, flows, receivables, collections>>
    BY <1>2, <2>4, <2>5, MergedRows
  <2>8. ArchiveObligation(request[s].key, r)
    BY <1>3, <1>9, <2>1, <2>6, <2>7 DEF ArchiveObligation, Claimed, new
  <2> QED
    BY <1>4, <2>2, <2>8 DEF Next
<1>10. CASE request[s].operation = "cancel_scheduled_flow"
  <2> DEFINE new == [r EXCEPT !.status = "cancelled"]
  <2>1. Table(s) = "flows" /\ Changed(s, r) = new /\ r.status = "scheduled"
        /\ Claim(s) = <<"cancel_scheduled_flow", request[s].key, <<r.id>>>>
    BY <1>6, <1>8, <1>10 DEF Table, Changed, Claim, Fingerprint, Creations, Allowed
  <2>2. r \in flows /\ OneToAKey(flows)
    BY <2>1 DEF Target, CommittedRows, SInv, IInv, RowsAreDistinct
  <2>3. new.id = r.id
    BY <2>2 DEF SInv, IInv, TypeOK, FlowRow
  <2>4. writes[s]["collections"] = {}
    BY <1>1, <1>10 DEF CollectionOK
  <2>5. writes[s]["flows"] = {new} /\ writes[s]["obligations"] = {} /\ writes[s]["receivables"] = {}
    BY <1>6, <1>7, <2>1 DEF RowTables
  <2> HIDE DEF new
  <2>6. flows' = (flows \ {r}) \cup {new}
    BY <1>2, <2>2, <2>3, <2>5, MergedRows
  <2>7. UNCHANGED <<ledger, obligations, receivables, collections>>
    BY <1>2, <2>4, <2>5, MergedRows
  <2>8. CancelScheduledFlow(request[s].key, r)
    BY <1>3, <1>10, <2>1, <2>6, <2>7 DEF CancelScheduledFlow, Claimed, new
  <2> QED
    BY <1>4, <2>2, <2>8 DEF Next
<1>11. CASE request[s].operation = "cancel_receivable"
  <2> DEFINE new == [r EXCEPT !.status = "cancelled"]
  <2>1. Table(s) = "receivables" /\ Changed(s, r) = new /\ ~ Final(r)
        /\ Claim(s) = <<"cancel_receivable", request[s].key, <<r.id>>>>
    BY <1>6, <1>8, <1>11 DEF Table, Changed, Claim, Fingerprint, Creations, Allowed
  <2>2. r \in receivables /\ OneToAKey(receivables)
    BY <2>1 DEF Target, CommittedRows, SInv, IInv, RowsAreDistinct
  <2>3. new.id = r.id
    BY <2>2 DEF SInv, IInv, TypeOK, ReceivableRow
  <2>4. writes[s]["collections"] = {}
    BY <1>1, <1>11 DEF CollectionOK
  <2>5. writes[s]["receivables"] = {new} /\ writes[s]["obligations"] = {} /\ writes[s]["flows"] = {}
    BY <1>6, <1>7, <2>1 DEF RowTables
  <2> HIDE DEF new
  <2>6. receivables' = (receivables \ {r}) \cup {new}
    BY <1>2, <2>2, <2>3, <2>5, MergedRows
  <2>7. UNCHANGED <<ledger, obligations, flows, collections>>
    BY <1>2, <2>4, <2>5, MergedRows
  <2>8. CancelReceivable(request[s].key, r)
    BY <1>3, <1>11, <2>1, <2>6, <2>7 DEF CancelReceivable, Claimed, new
  <2> QED
    BY <1>4, <2>2, <2>8 DEF Next
<1>12. CASE request[s].operation = "collect_receivable"
  <2> DEFINE new == CollectedReceivable(r, request[s].amount)
             row == NewCollection(request[s].key, r, request[s].amount, request[s].link)
  <2>1. /\ Table(s) = "receivables" /\ Changed(s, r) = new
        /\ ~ Final(r) /\ request[s].amount <= Outstanding(r)
        /\ Claim(s) = <<"collect_receivable", request[s].key, <<r.id, request[s].amount, request[s].link>>>>
    BY <1>6, <1>8, <1>12 DEF Table, Changed, Claim, Fingerprint, Creations, Allowed
  <2>2. r \in receivables /\ OneToAKey(receivables)
    BY <2>1 DEF Target, CommittedRows, SInv, IInv, RowsAreDistinct
  <2>3. new.id = r.id
    BY <2>2 DEF SInv, IInv, TypeOK, ReceivableRow, CollectedReceivable
  <2>4. writes[s]["collections"] = {row}
    <3>1. PICK q \in Target(s) : writes[s]["collections"] = {Collection(s, q)}
      BY <1>1, <1>2, <1>12 DEF CollectionOK
    <3>2. q = r
      BY <2>1, <2>2 DEF Target, CommittedRows, OneToAKey
    <3> QED
      BY <3>1, <3>2 DEF Collection
  <2>5. writes[s]["receivables"] = {new} /\ writes[s]["obligations"] = {} /\ writes[s]["flows"] = {}
    BY <1>6, <1>7, <2>1 DEF RowTables
  <2>6. \A c \in collections : c.id # row.id
    <3>1. ~ IsClaimed("collect_receivable", request[s].key)
      BY <1>3, <1>12 DEF Unclaimed, IsClaimed
    <3> QED
      BY <3>1 DEF SInv, IInv, RowsAreClaimed, NewCollection
  <2>7. Compatible(request[s].link, request[s].amount) /\ Unlinked(request[s].link, r.id)
    BY <1>1, <1>2, <1>8, <1>12 DEF CollectionOK
  <2> HIDE DEF new, row
  <2>8. receivables' = (receivables \ {r}) \cup {new} /\ collections' = collections \cup {row}
    <3>1. receivables' = (receivables \ {r}) \cup {new}
      BY <1>2, <2>2, <2>3, <2>5, MergedRows
    <3>2. collections' = Merged(collections, {row})
      BY <1>2, <2>4
    <3>3. Merged(collections, {row}) = collections \cup {row}
      BY <2>6, MergedRows
    <3> QED
      BY <3>1, <3>2, <3>3
  <2>9. UNCHANGED <<ledger, obligations, flows>>
    BY <1>2, <2>5, MergedRows
  <2>10. RecordReceivableCollection(request[s].key, r, request[s].amount, request[s].link)
    BY <1>3, <1>12, <2>1, <2>7, <2>8, <2>9 DEF RecordReceivableCollection, Claimed, new, row
  <2> QED
    BY <1>4, <2>2, <2>10 DEF Next
<1> QED
  BY <1>4, <1>9, <1>10, <1>11, <1>12 DEF IsCreation, Creations, Operations

LEMMA CommitIsAStep ==
  ASSUME SInv, NEW s \in Sessions, Commit(s)
  PROVE  Next
BY CreationCommits, ChangeCommits

LEMMA ChangedRow ==
  ASSUME SInv, NEW s \in Sessions, ~ IsCreation(s), NEW r \in Target(s)
  PROVE  Changed(s, r).id = request[s].row
<1>1. r.id = request[s].row
  BY DEF Target
<1>2. TypeOK
  BY DEF SInv, IInv
<1>3. request[s].operation \in Operations
  BY RequestsHaveTypes DEF SInv
<1>4. CASE request[s].operation = "archive_obligation"
  <2>1. r \in obligations
    BY <1>4 DEF Target, Table, CommittedRows
  <2> QED
    BY <1>1, <1>2, <1>4, <2>1 DEF TypeOK, ObligationRow, Changed
<1>5. CASE request[s].operation = "cancel_scheduled_flow"
  <2>1. r \in flows
    BY <1>5 DEF Target, Table, CommittedRows
  <2> QED
    BY <1>1, <1>2, <1>5, <2>1 DEF TypeOK, FlowRow, Changed
<1>6. CASE request[s].operation = "cancel_receivable"
  <2>1. r \in receivables
    BY <1>6 DEF Target, Table, CommittedRows
  <2> QED
    BY <1>1, <1>2, <1>6, <2>1 DEF TypeOK, ReceivableRow, Changed
<1>7. CASE request[s].operation = "collect_receivable"
  <2>1. r \in receivables
    BY <1>7 DEF Target, Table, CommittedRows
  <2> QED
    BY <1>1, <1>2, <1>7, <2>1 DEF TypeOK, ReceivableRow, Changed, CollectedReceivable
<1> QED
  BY <1>3, <1>4, <1>5, <1>6, <1>7 DEF Operations, IsCreation, Creations

\* A row that another session holds is not written.
LEMMA HeldRowIsNotWritten ==
  ASSUME SInv, NEW s \in Sessions, NEW o \in Sessions, s # o, pc[s] = "commit", Locking(o)
  PROVE  \A n \in writes[s][Table(o)] : n.id # request[o].row
<1>1. /\ PcOK(s) /\ LockOK(s) /\ ClaimOK(s) /\ RowOK(s)
      /\ LockOK(o) /\ Apart(s, o) /\ Shape
  BY SessionIs DEF SInv
<1>2. Table(o) \in RowTables /\ Table(s) \in RowTables
  BY <1>1, RequestsHaveTypes
<1>3. CASE Table(o) # Table(s)
  BY <1>1, <1>2, <1>3 DEF RowOK, Writing
<1>4. CASE Table(o) = Table(s) /\ IsCreation(s)
  <2>1. writes[s][Table(o)] = {NewRow(s)}
    BY <1>1, <1>2, <1>4 DEF RowOK, Writing
  <2>2. NewRow(s).id = request[s].key
    BY <1>4 DEF IsCreation, Creations, NewRow, NewObligation, NewFlow, NewReceivable
  <2>3. PICK r \in Target(o) : TRUE
    BY <1>1 DEF LockOK
  <2>4. r \in CommittedRows(Table(s)) /\ r.id = request[o].row
    BY <1>4 DEF Target
  <2>5. ~ IsClaimed(request[s].operation, request[s].key)
    BY <1>1 DEF ClaimOK, Claiming, Unclaimed, IsClaimed
  <2>6. RowsAreClaimed
    BY DEF SInv, IInv
  <2>7. r.id # request[s].key
    <3>1. CASE request[s].operation = "create_obligation"
      <4>1. r \in obligations
        BY <2>4, <3>1 DEF Table, CommittedRows
      <4> QED
        BY <2>5, <2>6, <3>1, <4>1 DEF RowsAreClaimed
    <3>2. CASE request[s].operation = "create_scheduled_flow"
      <4>1. r \in flows
        BY <2>4, <3>2 DEF Table, CommittedRows
      <4> QED
        BY <2>5, <2>6, <3>2, <4>1 DEF RowsAreClaimed
    <3>3. CASE request[s].operation = "create_receivable"
      <4>1. r \in receivables
        BY <2>4, <3>3 DEF Table, CommittedRows
      <4> QED
        BY <2>5, <2>6, <3>3, <4>1 DEF RowsAreClaimed
    <3> QED
      BY <1>4, <3>1, <3>2, <3>3 DEF IsCreation, Creations
  <2> QED
    BY <2>1, <2>2, <2>4, <2>7
<1>5. CASE Table(o) = Table(s) /\ ~ IsCreation(s)
  <2>1. PICK r \in Target(s) : writes[s][Table(s)] = {Changed(s, r)}
    BY <1>1, <1>2, <1>5 DEF RowOK, Writing
  <2>2. Changed(s, r).id = request[s].row
    BY <1>5, <2>1, ChangedRow
  <2>3. <<Table(s), request[s].row>> \in locks[s] /\ <<Table(o), request[o].row>> \in locks[o]
    BY <1>1, <1>5 DEF LockOK, Locking
  <2>4. request[s].row # request[o].row
    BY <1>1, <1>5, <2>3 DEF Apart
  <2> QED
    BY <1>5, <2>1, <2>2, <2>4
<1> QED
  BY <1>3, <1>4, <1>5

\* What a session reads when another commits.
LEMMA OthersReadTheSame ==
  ASSUME SInv, NEW s \in Sessions, NEW o \in Sessions, s # o, Commit(s)
  PROVE  /\ request' = request
         /\ IsCreation(o)' <=> IsCreation(o)
         /\ Table(o)' = Table(o) /\ Claim(o)' = Claim(o) /\ NewRow(o)' = NewRow(o)
         /\ Locking(o) => Target(o)' = Target(o)
         /\ \A r : /\ Changed(o, r)' = Changed(o, r)
                   /\ Allowed(o, r)' <=> Allowed(o, r)
                   /\ Collection(o, r)' = Collection(o, r)
<1>1. /\ pc[s] = "commit" /\ End(s, "done") /\ request' = request
      /\ obligations' = Merged(obligations, writes[s]["obligations"])
      /\ flows' = Merged(flows, writes[s]["flows"])
      /\ receivables' = Merged(receivables, writes[s]["receivables"])
  BY CommitIs DEF End
<1>2. /\ IsCreation(o)' <=> IsCreation(o)
      /\ Table(o)' = Table(o) /\ Claim(o)' = Claim(o) /\ NewRow(o)' = NewRow(o)
      /\ \A r : /\ Changed(o, r)' = Changed(o, r)
                /\ Allowed(o, r)' <=> Allowed(o, r)
                /\ Collection(o, r)' = Collection(o, r)
  BY <1>1 DEF IsCreation, Table, Claim, Fingerprint, NewRow, Changed, Allowed, Collection
<1>3. ASSUME Locking(o) PROVE Target(o)' = Target(o)
  <2>1. \A n \in writes[s][Table(o)] : n.id # request[o].row
    BY <1>1, <1>3, HeldRowIsNotWritten
  <2>2. Table(o) \in RowTables
    BY RequestsHaveTypes DEF SInv
  <2>3. CommittedRows(Table(o))' = Merged(CommittedRows(Table(o)), writes[s][Table(o)])
    <3>1. CASE Table(o) = "obligations"
      BY <1>1, <1>2, <3>1 DEF CommittedRows
    <3>2. CASE Table(o) = "flows"
      BY <1>1, <1>2, <3>2 DEF CommittedRows
    <3>3. CASE Table(o) = "receivables"
      BY <1>1, <1>2, <3>3 DEF CommittedRows
    <3> QED
      BY <2>2, <3>1, <3>2, <3>3 DEF RowTables
  <2>4. PICK rows, new : rows = CommittedRows(Table(o)) /\ new = writes[s][Table(o)]
    OBVIOUS
  <2>5. CommittedRows(Table(o))' = Merged(rows, new)
    BY <2>3, <2>4
  <2>6. {r \in Merged(rows, new) : r.id = request[o].row} = {r \in rows : r.id = request[o].row}
    BY <2>1, <2>4 DEF Merged
  <2>7. Target(o)' = {r \in CommittedRows(Table(o))' : r.id = request[o].row}
    BY <1>1, <1>2 DEF Target
  <2> QED
    BY <2>4, <2>5, <2>6, <2>7 DEF Target
<1> QED
  BY <1>1, <1>2, <1>3

LEMMA OthersAreFine ==
  ASSUME SInv, NEW s \in Sessions, NEW o \in Sessions, s # o, Commit(s)
  PROVE  SessionOK(o)'
<1>1. /\ PcOK(o) /\ LockOK(o) /\ ClaimOK(o) /\ RowOK(o) /\ CollectionOK(o)
      /\ Apart(s, o) /\ Apart(o, s) /\ Shape
  BY SessionIs DEF SInv
<1>2. /\ pc[s] = "commit" /\ End(s, "done") /\ ledger' = ledger
      /\ collections' = Merged(collections, writes[s]["collections"])
      /\ claims' = claims \cup writes[s]["claims"]
      /\ updated' = [row \in DOMAIN updated |-> IF row \in Written(s) THEN moment[s] ELSE updated[row]]
  BY CommitIs
<1>3. /\ request' = request
      /\ IsCreation(o)' <=> IsCreation(o)
      /\ Table(o)' = Table(o) /\ Claim(o)' = Claim(o) /\ NewRow(o)' = NewRow(o)
      /\ Locking(o) => Target(o)' = Target(o)
      /\ \A r : /\ Changed(o, r)' = Changed(o, r)
                /\ Allowed(o, r)' <=> Allowed(o, r)
                /\ Collection(o, r)' = Collection(o, r)
  BY OthersReadTheSame
<1>4. pc'[o] = pc[o] /\ locks'[o] = locks[o] /\ moment'[o] = moment[o] /\ writes'[o] = writes[o]
  <2>1. Untouched(s)
    BY <1>1, <1>2, EndOK DEF Ended
  <2> QED
    BY <2>1 DEF Untouched
<1>5. PcOK(o)'
  BY <1>1, <1>3, <1>4 DEF PcOK
<1>6. LockOK(o)'
  BY <1>1, <1>3, <1>4 DEF LockOK, Locking
<1>7. ClaimOK(o)'
  <2>1. ASSUME Claiming(o) PROVE Unclaimed(request[o].operation, request[o].key)'
    <3>1. writes[s]["claims"] = {Claim(s)} /\ Claiming(s)
      BY <1>2, SessionIs DEF ClaimOK, Claiming
    <3>2. request[s].operation # request[o].operation \/ request[s].key # request[o].key
      BY <1>1, <2>1, <3>1 DEF Apart
    <3>3. Unclaimed(request[o].operation, request[o].key)
      BY <1>1, <2>1 DEF ClaimOK
    <3>4. <<Claim(s)[1], Claim(s)[2]>> # <<request[o].operation, request[o].key>>
      BY <3>2 DEF Claim
    <3>5. claims' = claims \cup {Claim(s)}
      BY <1>2, <3>1
    <3> QED
      BY <1>3, <3>3, <3>4, <3>5 DEF Unclaimed
  <2>2. (Claiming(o)' <=> Claiming(o)) /\ writes'[o]["claims"] = writes[o]["claims"]
    BY <1>4 DEF Claiming
  <2> QED
    BY <1>1, <1>3, <2>1, <2>2 DEF ClaimOK
<1>8. RowOK(o)'
  <2>1. /\ \A table : Writing(o, table)' <=> Writing(o, table)
        /\ \A table : writes'[o][table] = writes[o][table]
    BY <1>3, <1>4 DEF Writing
  <2>2. ASSUME Locking(o), NEW r \in Target(o), Fresh(o, r) PROVE Fresh(o, r)'
    <3>1. r.id = request[o].row
      BY DEF Target
    <3>2. \A n \in writes[s][Table(o)] : n.id # request[o].row
      BY <1>2, <2>2, HeldRowIsNotWritten
    <3>3. <<Table(o), r.id>> \notin Written(s)
      BY <3>1, <3>2 DEF Written
    <3>4. <<Table(o), r.id>> \in DOMAIN updated
      <4>1. Table(o) \in Tables /\ request[o].row \in Keys
        BY <1>1, RequestsHaveTypes, Unfolded
      <4>2. DOMAIN updated = Tables \X Keys
        BY DEF SInv, UpdatedOK
      <4> QED
        BY <3>1, <4>1, <4>2
    <3>5. updated'[<<Table(o), r.id>>] = updated[<<Table(o), r.id>>]
      BY <1>2, <3>3, <3>4
    <3> QED
      BY <1>3, <1>4, <2>2, <3>5 DEF Fresh
  <2>3. ASSUME NEW table \in RowTables
        PROVE  (IF ~ Writing(o, table) THEN writes[o][table] = {}
                ELSE IF IsCreation(o) THEN writes[o][table] = {NewRow(o)}
                ELSE \E r \in Target(o) : /\ Allowed(o, r) /\ Fresh(o, r)
                                          /\ writes[o][table] = {Changed(o, r)})'
    <3>1. CASE ~ Writing(o, table)
      BY <1>1, <2>1, <3>1 DEF RowOK
    <3>2. CASE Writing(o, table) /\ IsCreation(o)
      BY <1>1, <1>3, <2>1, <3>2 DEF RowOK
    <3>3. CASE Writing(o, table) /\ ~ IsCreation(o)
      <4>1. PICK r \in Target(o) : /\ Allowed(o, r) /\ Fresh(o, r)
                                   /\ writes[o][table] = {Changed(o, r)}
        BY <1>1, <3>3 DEF RowOK
      <4>2. Locking(o)
        BY <3>3 DEF Locking, Writing
      <4>3. r \in Target(o)' /\ Allowed(o, r)' /\ Fresh(o, r)' /\ writes'[o][table] = {Changed(o, r)'}
        BY <1>3, <2>1, <2>2, <4>1, <4>2
      <4> QED
        BY <1>3, <2>1, <3>3, <4>3
    <3> QED
      BY <3>1, <3>2, <3>3
  <2> QED
    BY <2>3 DEF RowOK
<1>9. CollectionOK(o)'
  <2>1. CASE ~ (pc[o] = "commit" /\ request[o].operation = "collect_receivable")
    BY <1>1, <1>3, <1>4, <2>1 DEF CollectionOK
  <2>2. CASE pc[o] = "commit" /\ request[o].operation = "collect_receivable"
    <3>1. PICK r \in Target(o) : writes[o]["collections"] = {Collection(o, r)}
      BY <1>1, <2>2 DEF CollectionOK
    <3>2. Locking(o)
      BY <2>2 DEF Locking, IsCreation, Creations
    <3>3. r \in Target(o)' /\ writes'[o]["collections"] = {Collection(o, r)'}
      BY <1>3, <1>4, <3>1, <3>2
    <3>4. Compatible(request[o].link, request[o].amount)'
      BY <1>1, <1>2, <1>3, <2>2 DEF CollectionOK, Compatible
    <3>5. Unlinked(request[o].link, request[o].row)'
      <4>1. Unlinked(request[o].link, request[o].row)
        BY <1>1, <2>2 DEF CollectionOK
      <4>2. Collection(o, r) \in writes[o]["collections"] /\ Collection(o, r).link = request[o].link
        BY <3>1 DEF Collection, NewCollection
      <4>3. request[o].link # NoLink => \A d \in writes[s]["collections"] : d.link # request[o].link
        BY <1>1, <4>2 DEF Apart
      <4>4. \A c \in collections' : c \in collections \/ c \in writes[s]["collections"]
        BY <1>2 DEF Merged
      <4> QED
        BY <1>3, <4>1, <4>3, <4>4 DEF Unlinked
    <3> QED
      BY <1>3, <1>4, <2>2, <3>3, <3>4, <3>5 DEF CollectionOK
  <2> QED
    BY <2>1, <2>2
<1> QED
  BY <1>5, <1>6, <1>7, <1>8, <1>9 DEF SessionOK

LEMMA Committed ==
  ASSUME SInv, NEW s \in Sessions, Commit(s)
  PROVE  SInv'
<1>1. /\ pc[s] = "commit" /\ End(s, "done")
      /\ updated' = [row \in DOMAIN updated |-> IF row \in Written(s) THEN moment[s] ELSE updated[row]]
  BY CommitIs
<1>2. /\ Shape' /\ SessionOK(s)' /\ request' = request
      /\ pc'[s] = "done" /\ locks'[s] = {} /\ writes'[s] = NoWrites
      /\ Untouched(s)
  BY <1>1, EndOK DEF SInv, Ended
<1>3. IInv'
  <2>1. [Next]_vars
    BY CommitIsAStep
  <2> QED
    BY <2>1, CommittedRowsAreSound DEF SInv
<1>4. UpdatedOK'
  <2>1. moment[s] \in Nat
    BY DEF SInv, Shape, TimesOK
  <2> QED
    BY <1>1, <2>1 DEF SInv, UpdatedOK
<1>5. \A o \in Sessions : SessionOK(o)'
  BY <1>2, OthersAreFine
<1>6. ASSUME NEW o \in Sessions, o # s PROVE Apart(s, o)' /\ Apart(o, s)'
  <2>1. /\ locks'[s] \subseteq locks[s] /\ writes'[s]["collections"] \subseteq writes[s]["collections"]
        /\ ~ Claiming(s)' /\ writes'[s]["collections"] = {}
    BY <1>2, Unfolded DEF Claiming
  <2>2. Apart(s, o)'
    BY <1>2, <1>6, <2>1, StaysApart
  <2> QED
    BY <1>2, <2>1, <2>2 DEF Apart
<1>7. ASSUME NEW o \in Sessions, NEW u \in Sessions, o # u, o # s, u # s PROVE Apart(o, u)'
  <2>1. Apart(o, u)
    BY <1>7 DEF SInv
  <2>2. /\ pc'[o] = pc[o] /\ locks'[o] = locks[o] /\ writes'[o] = writes[o]
        /\ pc'[u] = pc[u] /\ locks'[u] = locks[u] /\ writes'[u] = writes[u]
    BY <1>2, <1>7 DEF Untouched
  <2> QED
    BY <1>2, <2>1, <2>2 DEF Apart, Claiming
<1> QED
  BY <1>2, <1>3, <1>4, <1>5, <1>6, <1>7 DEF SInv

LEMMA InitSInv == SessionsInit => SInv
<1> SUFFICES ASSUME SessionsInit PROVE SInv
  OBVIOUS
<1>1. /\ locks = [s \in Sessions |-> {}] /\ pc = [s \in Sessions |-> "idle"] /\ request \in Workloads
      /\ moment = [s \in Sessions |-> 0] /\ writes = [s \in Sessions |-> NoWrites]
      /\ updated = [row \in Tables \X Keys |-> 0]
  BY DEF SessionsInit
<1>2. IInv
  BY CommittedRowsAreSound DEF SessionsInit
<1>3. UpdatedOK
  BY <1>1 DEF UpdatedOK
<1>4. Shape
  <2>1. request \in [Sessions -> RequestRow]
    BY <1>1, WorkloadAssumption DEF RequestRow
  <2>2. HasFields(NoWrites)
    BY Unfolded DEF HasFields
  <2> QED
    BY <1>1, <2>1, <2>2 DEF Shape, TimesOK
<1>5. ASSUME NEW s \in Sessions PROVE SessionOK(s)
  BY <1>1, <1>5, NothingIsFine, Unfolded
<1>6. \A s, o \in Sessions : Apart(s, o)
  <2>1. NoWrites["collections"] = {}
    BY Unfolded
  <2> QED
    BY <1>1, <2>1 DEF Apart, Claiming
<1> QED
  BY <1>2, <1>3, <1>4, <1>5, <1>6 DEF SInv

\* Every step keeps the invariant, and is an operation of Schedule or changes no committed row.
LEMMA NextPreservesSInv == SInv /\ [SessionsNext]_sessionVars => SInv' /\ [Next]_vars
<1> SUFFICES ASSUME SInv, [SessionsNext]_sessionVars PROVE SInv' /\ [Next]_vars
  OBVIOUS
<1>1. ASSUME UNCHANGED committed PROVE UNCHANGED vars
  BY <1>1 DEF committed, vars
<1>2. CASE UNCHANGED sessionVars
  <2>1. UNCHANGED <<ledger, obligations, flows, receivables, collections, claims, updated>>
        /\ UNCHANGED <<locks, pc, request, moment, writes>> /\ UNCHANGED committed
    BY <1>2 DEF sessionVars, committed
  <2>2. IInv' /\ UNCHANGED vars
    BY <1>1, <2>1, CommittedRowsAreSound DEF SInv
  <2>3. \A s \in Sessions : SessionOK(s)' <=> SessionOK(s)
    BY <2>1, SessionStays
  <2>4. UpdatedOK' /\ Shape'
    BY <2>1 DEF SInv, UpdatedOK, Shape, TimesOK
  <2>5. \A s, o \in Sessions : s # o => Apart(s, o)'
    BY <2>1 DEF SInv, Apart, Claiming
  <2> QED
    BY <2>2, <2>3, <2>4, <2>5 DEF SInv
<1>3. ASSUME NEW s \in Sessions, Begin(s) PROVE SInv' /\ [Next]_vars
  BY <1>1, <1>3, Begun DEF Begin
<1>4. ASSUME NEW s \in Sessions, LockRow(s) PROVE SInv' /\ [Next]_vars
  BY <1>1, <1>4, RowLocked DEF LockRow, Reject
<1>5. ASSUME NEW s \in Sessions, ClaimMutation(s) PROVE SInv' /\ [Next]_vars
  BY <1>1, <1>5, KeyClaimed DEF ClaimMutation, Reject
<1>6. ASSUME NEW s \in Sessions, InsertRow(s) PROVE SInv' /\ [Next]_vars
  BY <1>1, <1>6, RowInserted DEF InsertRow
<1>7. ASSUME NEW s \in Sessions,
             ArchiveLockedObligation(s) \/ CancelLockedFlow(s) \/ CancelLockedReceivable(s)
             \/ UpdateReceivable(s)
      PROVE  SInv' /\ [Next]_vars
  BY <1>1, <1>7, RowsChanged
     DEF ArchiveLockedObligation, CancelLockedFlow, CancelLockedReceivable, UpdateReceivable, Change, Reject
<1>8. ASSUME NEW s \in Sessions, InsertCollection(s) PROVE SInv' /\ [Next]_vars
  BY <1>1, <1>8, CollectionInserted DEF InsertCollection, Reject
<1>9. ASSUME NEW s \in Sessions, Commit(s) PROVE SInv' /\ [Next]_vars
  BY <1>9, Committed, CommitIsAStep
<1>10. ASSUME NEW s \in Sessions, Fail(s) PROVE SInv' /\ [Next]_vars
  BY <1>1, <1>10, Failed DEF Fail
<1>11. CASE LedgerPosts
  BY <1>11, TransactionPosted
<1> QED
  BY <1>2, <1>3, <1>4, <1>5, <1>6, <1>7, <1>8, <1>9, <1>10, <1>11 DEF SessionsNext, Progress, AllServed

-----------------------------------------------------------------------------
(* Theorems *)

\* Concurrent requests, whatever their statements interleave and whichever fail,
\* change the committed rows as the atomic operations of Schedule do
\* (the transactions of schedule_repository.go at READ COMMITTED).
THEOREM SessionsImplementSchedule == SessionsSpec => ImplementsSchedule
<1>1. SessionsInit => Init
  BY DEF SessionsInit
<1> QED
  BY <1>1, InitSInv, NextPreservesSInv, PTL DEF SessionsSpec, ImplementsSchedule

\* What is collected of a receivable is the sum of its collections, and a ledger
\* transaction is evidence for one of them, under every interleaving of
\* collections and cancellations (RecordReceivableCollection).
THEOREM SessionsReconcileCollections == SessionsSpec => []CommittedCollectionsReconcile
<1>1. SessionsInit => SInv /\ SumInv
  BY InitSInv, InitSumInv DEF SessionsInit
<1>2. (SInv /\ SumInv) /\ [SessionsNext]_sessionVars => (SInv /\ SumInv)'
  <2> SUFFICES ASSUME SInv, SumInv, [SessionsNext]_sessionVars PROVE SInv' /\ SumInv'
    OBVIOUS
  <2>1. SInv' /\ [Next]_vars
    BY NextPreservesSInv
  <2>2. IInv
    BY DEF SInv
  <2> QED
    BY <2>1, <2>2, NextPreservesSumInv
<1>3. SInv /\ SumInv => CommittedCollectionsReconcile
  BY InvariantsReconcile DEF SInv, IInv, CommittedCollectionsReconcile
<1> QED
  BY <1>1, <1>2, <1>3, PTL DEF SessionsSpec

LEMMA WritesHaveTypes ==
  ASSUME SInv, NEW s \in Sessions
  PROVE  /\ writes[s]["receivables"] \subseteq ReceivableRow
         /\ writes[s]["collections"] \subseteq CollectionRow
<1>1. /\ PcOK(s) /\ RowOK(s) /\ CollectionOK(s) /\ Shape /\ TypeOK
  BY SessionIs DEF SInv, IInv
<1>2. /\ request[s].key \in Keys /\ request[s].original \in Originals /\ request[s].amount \in Amounts
      /\ request[s].row \in Keys /\ request[s].link \in Transactions \cup {NoLink}
      /\ request[s].operation \in Operations
  BY <1>1, RequestsHaveTypes
<1>3. request[s].amount \in Nat
  BY <1>2, AmountAssumption
<1>4. \A r \in Target(s) : Table(s) = "receivables" => r \in ReceivableRow
  BY <1>1 DEF Target, CommittedRows, TypeOK, ReceivableRow
<1>5. writes[s]["receivables"] \subseteq ReceivableRow
  <2>1. CASE ~ Writing(s, "receivables")
    BY <1>1, <2>1 DEF RowOK, RowTables
  <2>2. CASE Writing(s, "receivables") /\ IsCreation(s)
    <3>1. request[s].operation = "create_receivable"
      BY <1>1, <2>2 DEF Writing, Table, IsCreation, Creations
    <3>2. NewRow(s) = NewReceivable(request[s].key, request[s].original)
      BY <3>1 DEF NewRow
    <3>3. writes[s]["receivables"] = {NewRow(s)}
      BY <1>1, <2>2 DEF RowOK, RowTables
    <3> QED
      BY <1>2, <3>2, <3>3 DEF NewReceivable, ReceivableRow
  <2>3. CASE Writing(s, "receivables") /\ ~ IsCreation(s)
    <3>1. PICK r \in Target(s) : writes[s]["receivables"] = {Changed(s, r)}
      BY <1>1, <2>3 DEF RowOK, RowTables
    <3>2. r \in ReceivableRow
      BY <1>4, <2>3 DEF Writing
    <3>3. request[s].operation \in {"collect_receivable", "cancel_receivable"}
      BY <1>2, <2>3 DEF Writing, Table, IsCreation, Creations, Operations
    <3>4. CASE request[s].operation = "cancel_receivable"
      <4>1. Changed(s, r) = [r EXCEPT !.status = "cancelled"]
        BY <3>4 DEF Changed
      <4>2. Changed(s, r) \in ReceivableRow
        BY <3>2, <4>1 DEF ReceivableRow
      <4> QED
        BY <3>1, <4>2
    <3>5. CASE request[s].operation = "collect_receivable"
      <4>1. Changed(s, r) = CollectedReceivable(r, request[s].amount)
        BY <3>5 DEF Changed
      <4>2. StatusAfter(r, request[s].amount) \in {"collected", "partially_collected"}
        BY DEF StatusAfter
      <4>3. PICK amount \in Nat, status \in {"collected", "partially_collected"} :
              Changed(s, r) = [[r EXCEPT !.collected = @ + amount] EXCEPT !.status = status]
        BY <1>3, <4>1, <4>2 DEF CollectedReceivable
      <4>4. r.collected + amount \in Nat
        BY <3>2 DEF ReceivableRow
      <4>5. Changed(s, r) \in ReceivableRow
        BY <3>2, <4>3, <4>4 DEF ReceivableRow
      <4> QED
        BY <3>1, <4>5
    <3> QED
      BY <3>3, <3>4, <3>5
  <2> QED
    BY <2>1, <2>2, <2>3
<1>6. writes[s]["collections"] \subseteq CollectionRow
  <2>1. CASE ~ (pc[s] = "commit" /\ request[s].operation = "collect_receivable")
    BY <1>1, <2>1 DEF CollectionOK
  <2>2. CASE pc[s] = "commit" /\ request[s].operation = "collect_receivable"
    <3>1. PICK r \in Target(s) : writes[s]["collections"] = {Collection(s, r)}
      BY <1>1, <2>2 DEF CollectionOK
    <3>2. r \in ReceivableRow
      BY <1>4, <2>2 DEF Table
    <3>3. StatusAfter(r, request[s].amount) \in {"collected", "partially_collected"}
      BY DEF StatusAfter
    <3>4. Collection(s, r) \in CollectionRow
      BY <1>2, <3>2, <3>3 DEF ReceivableRow, CollectionRow, Collection, NewCollection
    <3> QED
      BY <3>1, <3>4
  <2> QED
    BY <2>1, <2>2
<1> QED
  BY <1>5, <1>6

\* Committed and uncommitted rows keep their types, and two requests never hold
\* one row (SELECT ... FOR UPDATE in schedule_repository.go).
THEOREM SessionTypes == SessionsSpec => []SessionTypeOK
<1>1. SInv => SessionTypeOK
  <2> SUFFICES ASSUME SInv PROVE SessionTypeOK
    OBVIOUS
  <2>1. TypeOK
    BY DEF SInv, IInv, TypeOK, TransactionRow, ObligationRow, FlowRow, ReceivableRow, CollectionRow,
           Operations, Effects
  <2>2. pc \in [Sessions -> {"idle", "row", "claim", "insert", "change", "link", "commit"} \cup Ended]
    <3>1. \A s \in Sessions : PcOK(s)
      BY SessionIs
    <3> QED
      BY <3>1 DEF SInv, Shape, PcOK
  <2>3. \A s \in Sessions : \A row \in locks[s] : Holders(s, row) = {}
    BY DEF SInv, Apart, Holders
  <2> QED
    BY <2>1, <2>2, <2>3, WritesHaveTypes DEF SessionTypeOK
<1> QED
  BY <1>1, InitSInv, NextPreservesSInv, PTL DEF SessionsSpec

-----------------------------------------------------------------------------
(* Times of rows *)

\* A row that was never written has no time.
TimeInv ==
  \A table \in Tables, key \in Keys :
    updated[<<table, key>>] = 0 \/ \E r \in CommittedRows(table) : r.id = key

LEMMA CommittedTables ==
  ASSUME NEW s \in Sessions, Commit(s), NEW table \in Tables
  PROVE  CommittedRows(table)' = Merged(CommittedRows(table), writes[s][table])
<1>1. /\ obligations' = Merged(obligations, writes[s]["obligations"])
      /\ flows' = Merged(flows, writes[s]["flows"])
      /\ receivables' = Merged(receivables, writes[s]["receivables"])
      /\ collections' = Merged(collections, writes[s]["collections"])
  BY CommitIs
<1>2. CASE table = "obligations"
  BY <1>1, <1>2 DEF CommittedRows
<1>3. CASE table = "flows"
  BY <1>1, <1>3 DEF CommittedRows
<1>4. CASE table = "receivables"
  BY <1>1, <1>4 DEF CommittedRows
<1>5. CASE table = "collections"
  BY <1>1, <1>5 DEF CommittedRows
<1> QED
  BY <1>2, <1>3, <1>4, <1>5 DEF Tables

LEMMA CommitPreservesTimeInv ==
  ASSUME SInv, TimeInv, NEW s \in Sessions, Commit(s)
  PROVE  TimeInv'
<1> SUFFICES ASSUME NEW table \in Tables, NEW key \in Keys
             PROVE  updated'[<<table, key>>] = 0 \/ \E r \in CommittedRows(table)' : r.id = key
  BY DEF TimeInv
<1>1. CommittedRows(table)' = Merged(CommittedRows(table), writes[s][table])
  BY CommittedTables
<1>2. updated' = [row \in DOMAIN updated |-> IF row \in Written(s) THEN moment[s] ELSE updated[row]]
  BY CommitIs
<1>3. <<table, key>> \in DOMAIN updated
  BY DEF SInv, UpdatedOK
<1>4. PICK rows, new : rows = CommittedRows(table) /\ new = writes[s][table]
  OBVIOUS
<1>5. CommittedRows(table)' = Merged(rows, new)
  BY <1>1, <1>4
<1>6. CASE <<table, key>> \in Written(s)
  <2>1. \E n \in new : n.id = key
    BY <1>4, <1>6 DEF Written
  <2> QED
    BY <1>5, <2>1 DEF Merged
<1>7. CASE <<table, key>> \notin Written(s)
  <2>1. updated'[<<table, key>>] = updated[<<table, key>>]
    BY <1>2, <1>3, <1>7
  <2>2. (\E r \in rows : r.id = key) => \E r \in Merged(rows, new) : r.id = key
    BY DEF Merged
  <2> QED
    BY <1>4, <1>5, <2>1, <2>2 DEF TimeInv
<1> QED
  BY <1>6, <1>7

\* A session never writes a row with a time older than the row's.
LEMMA WrittenLater ==
  ASSUME SInv, TimeInv, NEW s \in Sessions, pc[s] = "commit", NEW row \in Written(s)
  PROVE  updated[row] <= moment[s]
<1>1. /\ PcOK(s) /\ LockOK(s) /\ ClaimOK(s) /\ RowOK(s) /\ CollectionOK(s) /\ Shape
  BY SessionIs
<1>2. moment[s] \in Nat
  BY <1>1 DEF Shape, TimesOK
<1>10. PICK table \in Tables : \E n \in writes[s][table] : row = <<table, n.id>>
  BY DEF Written
<1>3. PICK n \in writes[s][table] : row = <<table, n.id>>
  BY <1>10
<1>4. request[s].key \in Keys /\ request[s].operation \in Operations /\ Table(s) \in RowTables
  BY <1>1, RequestsHaveTypes
<1>5. ~ IsClaimed(request[s].operation, request[s].key)
  BY <1>1 DEF ClaimOK, Claiming, Unclaimed, IsClaimed
<1>6. RowsAreClaimed
  BY DEF SInv, IInv
<1>7. CASE table = "collections"
  <2>1. request[s].operation = "collect_receivable"
    BY <1>1, <1>3, <1>7 DEF CollectionOK
  <2>2. n.id = request[s].key
    BY <1>1, <1>3, <1>7, <2>1 DEF CollectionOK, Collection, NewCollection
  <2>3. \A c \in CommittedRows(table) : c.id # request[s].key
    BY <1>5, <1>6, <1>7, <2>1 DEF RowsAreClaimed, CommittedRows
  <2>4. updated[<<table, request[s].key>>] = 0
    BY <1>4, <2>3 DEF TimeInv
  <2> QED
    BY <1>2, <1>3, <2>2, <2>4
<1>8. CASE table \in RowTables /\ IsCreation(s)
  <2>1. n = NewRow(s) /\ table = Table(s)
    BY <1>1, <1>3, <1>8 DEF RowOK, Writing
  <2>2. n.id = request[s].key
    BY <1>8, <2>1 DEF IsCreation, Creations, NewRow, NewObligation, NewFlow, NewReceivable
  <2>3. \A r \in CommittedRows(table) : r.id # request[s].key
    <3>1. CASE request[s].operation = "create_obligation"
      BY <1>5, <1>6, <2>1, <3>1 DEF RowsAreClaimed, CommittedRows, Table
    <3>2. CASE request[s].operation = "create_scheduled_flow"
      BY <1>5, <1>6, <2>1, <3>2 DEF RowsAreClaimed, CommittedRows, Table
    <3>3. CASE request[s].operation = "create_receivable"
      BY <1>5, <1>6, <2>1, <3>3 DEF RowsAreClaimed, CommittedRows, Table
    <3> QED
      BY <1>8, <3>1, <3>2, <3>3 DEF IsCreation, Creations
  <2>4. updated[<<table, request[s].key>>] = 0
    BY <1>4, <2>3 DEF TimeInv
  <2> QED
    BY <1>2, <1>3, <2>2, <2>4
<1>9. CASE table \in RowTables /\ ~ IsCreation(s)
  <2>1. table = Table(s)
    BY <1>1, <1>3, <1>9 DEF RowOK, Writing
  <2>2. PICK r \in Target(s) : Fresh(s, r) /\ writes[s][Table(s)] = {Changed(s, r)}
    BY <1>1, <1>3, <1>9, <2>1 DEF RowOK, Writing
  <2>3. r.id = request[s].row /\ request[s].row \in Keys
    BY <1>1, RequestsHaveTypes DEF Target
  <2>4. n.id = request[s].row
    <3>1. n = Changed(s, r)
      BY <1>3, <2>1, <2>2
    <3> QED
      BY <1>9, <3>1, ChangedRow
  <2>5. updated[<<table, r.id>>] \in Nat /\ moment[s] >= updated[<<table, r.id>>]
    BY <1>3, <2>1, <2>2, <2>3 DEF SInv, UpdatedOK, Fresh
  <2> QED
    BY <1>2, <1>3, <2>3, <2>4, <2>5
<1> QED
  BY <1>3, <1>7, <1>8, <1>9 DEF Tables, RowTables

LEMMA InitTimeInv == SessionsInit => TimeInv
BY DEF SessionsInit, TimeInv

TimesGrow == \A row \in DOMAIN updated : updated[row] <= updated'[row]

LEMMA NextPreservesTimeInv == SInv /\ TimeInv /\ [SessionsNext]_sessionVars => TimeInv' /\ [TimesGrow]_updated
<1> SUFFICES ASSUME SInv, TimeInv, [SessionsNext]_sessionVars PROVE TimeInv' /\ [TimesGrow]_updated
  OBVIOUS
<1>1. ASSUME UNCHANGED <<obligations, flows, receivables, collections>>, updated' = updated
      PROVE  TimeInv' /\ [TimesGrow]_updated
  BY <1>1 DEF TimeInv, CommittedRows
<1>2. ASSUME UNCHANGED committed PROVE TimeInv' /\ [TimesGrow]_updated
  BY <1>1, <1>2 DEF committed
<1>3. CASE LedgerPosts
  BY <1>1, <1>3 DEF LedgerPosts, PostTransaction
<1>4. ASSUME NEW s \in Sessions, Commit(s) PROVE TimeInv' /\ [TimesGrow]_updated
  <2>1. /\ pc[s] = "commit"
        /\ updated' = [row \in DOMAIN updated |-> IF row \in Written(s) THEN moment[s] ELSE updated[row]]
    BY <1>4, CommitIs
  <2>2. ASSUME NEW row \in DOMAIN updated PROVE updated[row] <= updated'[row]
    <3>1. updated[row] \in Nat
      BY DEF SInv, UpdatedOK
    <3>2. CASE row \in Written(s)
      <4>1. updated[row] <= moment[s]
        BY <2>1, <3>2, WrittenLater
      <4>2. updated'[row] = moment[s]
        BY <2>1, <2>2, <3>2
      <4> QED
        BY <4>1, <4>2
    <3>3. CASE row \notin Written(s)
      <4>1. updated'[row] = updated[row]
        BY <2>1, <2>2, <3>3
      <4> QED
        BY <3>1, <4>1
    <3> QED
      BY <3>2, <3>3
  <2> QED
    BY <1>4, <2>2, CommitPreservesTimeInv DEF TimesGrow
<1>5. ASSUME NEW s \in Sessions, Begin(s) \/ Fail(s) PROVE UNCHANGED committed
  BY <1>5 DEF Begin, Fail
<1>6. ASSUME NEW s \in Sessions, LockRow(s) \/ ClaimMutation(s) \/ InsertRow(s) PROVE UNCHANGED committed
  BY <1>6 DEF LockRow, ClaimMutation, InsertRow, Reject
<1>7. ASSUME NEW s \in Sessions,
             \/ ArchiveLockedObligation(s) \/ CancelLockedFlow(s) \/ CancelLockedReceivable(s)
             \/ UpdateReceivable(s) \/ InsertCollection(s)
      PROVE  UNCHANGED committed
  BY <1>7 DEF ArchiveLockedObligation, CancelLockedFlow, CancelLockedReceivable, UpdateReceivable,
              InsertCollection,
              Change, Reject
<1>8. CASE UNCHANGED sessionVars
  BY <1>2, <1>8 DEF sessionVars
<1> QED
  BY <1>2, <1>3, <1>4, <1>5, <1>6, <1>7, <1>8 DEF SessionsNext, Progress, AllServed

\* What one step of the sessions leaves of what is settled.
\* What is archived, cancelled or collected stays so under every interleaving,
\* and no row is written with a time older than the one it has (the checks of
\* updated_at that follow SELECT ... FOR UPDATE).
THEOREM SessionsKeepHistory == SessionsSpec => HistoryIsKept
<1>1. SessionsInit => SInv /\ TimeInv
  BY InitSInv, InitTimeInv
<1>2. (SInv /\ TimeInv) /\ [SessionsNext]_sessionVars =>
        (SInv /\ TimeInv)' /\ [TimesGrow]_updated /\ [OutcomesKept]_vars
  BY NextPreservesSInv, NextPreservesTimeInv, NextKeepsOutcomes DEF SInv
<1>3. SessionsSpec => [][TimesGrow]_updated /\ [][OutcomesKept]_vars
  BY <1>1, <1>2, PTL DEF SessionsSpec
<1> QED
  BY <1>3 DEF HistoryIsKept, OutcomesAreFinal, TimesGrow, OutcomesKept

-----------------------------------------------------------------------------
(* Answers *)

OneClaimAKey == \A c, d \in claims : c[1] = d[1] /\ c[2] = d[2] => c = d

IsCollection(s) == request[s].operation = "collect_receivable"

\* What the request of s asks for has been done.
Settled(s) ==
  IF IsCreation(s) THEN \E r \in CommittedRows(Table(s)) :
                          r.id = request[s].key /\ OriginalResult(Table(s), r) = NewRow(s)
  ELSE IF IsCollection(s) THEN \E c \in collections : c.id = request[s].key
  ELSE \E r \in Target(s) : r.status \in {"archived", "cancelled"}

\* The answer of s is the original result: of a creation and of a collection
\* what it inserted, of an archival or a cancellation the row, which is final.
Answered(s) ==
  IF IsCreation(s) THEN answer[s] = NewRow(s)
  ELSE IF IsCollection(s) THEN answer[s] \in collections /\ answer[s].id = request[s].key
  ELSE answer[s] \in Target(s) /\ answer[s].status \in {"archived", "cancelled"}

\* The answer of s is what it is about to commit.
Drafted(s) ==
  IF IsCreation(s) THEN answer[s] = NewRow(s)
  ELSE answer[s] \in writes[s][IF IsCollection(s) THEN "collections" ELSE Table(s)]

AnswerOK(s) ==
  /\ Claim(s) \in claims => Settled(s)
  /\ pc[s] = "done" => Claim(s) \in claims /\ Answered(s)
  /\ pc[s] = "commit" => Drafted(s)

AnswerShape == answer = [s \in Sessions |-> answer[s]]

AnswerInv == AnswerShape /\ OneClaimAKey /\ \A s \in Sessions : AnswerOK(s)

\* What a request asks for does not depend on the committed rows.
LEMMA SameAsked ==
  ASSUME request' = request, NEW s
  PROVE  /\ IsCreation(s)' <=> IsCreation(s)
         /\ IsCollection(s)' <=> IsCollection(s)
         /\ Table(s)' = Table(s) /\ Claim(s)' = Claim(s) /\ NewRow(s)' = NewRow(s)
BY DEF IsCreation, IsCollection, Table, Claim, Fingerprint, NewRow

\* Requests that make the same claim ask for the same.
LEMMA SameClaimAsksTheSame ==
  ASSUME Shape, NEW s \in Sessions, NEW o \in Sessions, Claim(s) = Claim(o)
  PROVE  /\ request[s].operation = request[o].operation /\ request[s].key = request[o].key
         /\ IsCreation(s) <=> IsCreation(o)
         /\ IsCollection(s) <=> IsCollection(o)
         /\ Table(s) = Table(o)
         /\ IsCreation(s) => NewRow(s) = NewRow(o)
         /\ ~ IsCreation(s) /\ ~ IsCollection(s) => request[s].row = request[o].row
<1>1. request[s].operation = request[o].operation /\ request[s].key = request[o].key
      /\ Fingerprint(s) = Fingerprint(o)
  BY DEF Claim
<1>2. request[s].operation \in Operations /\ request[o].operation \in Operations
  BY RequestsHaveTypes
<1>3. /\ IsCreation(s) <=> IsCreation(o)
      /\ IsCollection(s) <=> IsCollection(o)
      /\ Table(s) = Table(o)
  BY <1>1 DEF IsCreation, IsCollection, Table
<1>4. IsCreation(s) => NewRow(s) = NewRow(o)
  <2>1. CASE request[s].operation = "create_receivable"
    <3>1. <<request[s].original>> = <<request[o].original>>
      BY <1>1, <2>1 DEF Fingerprint
    <3>2. request[s].original = request[o].original
      BY <3>1
    <3> QED
      BY <1>1, <2>1, <3>2 DEF NewRow
  <2>2. CASE request[s].operation \in {"create_obligation", "create_scheduled_flow"}
    BY <1>1, <2>2 DEF NewRow
  <2> QED
    BY <2>1, <2>2 DEF IsCreation, Creations
<1>5. ~ IsCreation(s) /\ ~ IsCollection(s) => request[s].row = request[o].row
  <2>1. SUFFICES ASSUME ~ IsCreation(s), ~ IsCollection(s) PROVE request[s].row = request[o].row
    OBVIOUS
  <2>2. <<request[s].row>> = <<request[o].row>>
    BY <1>1, <1>2, <2>1 DEF Fingerprint, IsCreation, IsCollection, Creations, Operations
  <2> QED
    BY <2>2
<1> QED
  BY <1>1, <1>3, <1>4, <1>5

-----------------------------------------------------------------------------
(* What was settled stays *)

\* A step leaves every row that is final, and one with the id of every row.
RowsStay(table) ==
  \A r \in CommittedRows(table) :
    /\ \E q \in CommittedRows(table)' : q.id = r.id /\ (table = "receivables" => q.original = r.original)
    /\ table # "collections" /\ r.status \in {"archived", "cancelled"} => r \in CommittedRows(table)'

LEMMA OnlyCommitsWrite ==
  ASSUME [SessionsNext]_sessionVars
  PROVE  (\E s \in Sessions : Commit(s)) \/ UNCHANGED <<obligations, flows, receivables, collections>>
<1>1. ASSUME UNCHANGED committed PROVE UNCHANGED <<obligations, flows, receivables, collections>>
  BY <1>1 DEF committed
<1>2. CASE LedgerPosts
  BY <1>2 DEF LedgerPosts, PostTransaction
<1>3. ASSUME NEW s \in Sessions, Begin(s) \/ Fail(s) PROVE UNCHANGED committed
  BY <1>3 DEF Begin, Fail
<1>4. ASSUME NEW s \in Sessions, LockRow(s) \/ ClaimMutation(s) \/ InsertRow(s) PROVE UNCHANGED committed
  BY <1>4 DEF LockRow, ClaimMutation, InsertRow, Reject
<1>5. ASSUME NEW s \in Sessions,
             \/ ArchiveLockedObligation(s) \/ CancelLockedFlow(s) \/ CancelLockedReceivable(s)
             \/ UpdateReceivable(s) \/ InsertCollection(s)
      PROVE  UNCHANGED committed
  BY <1>5 DEF ArchiveLockedObligation, CancelLockedFlow, CancelLockedReceivable, UpdateReceivable,
              InsertCollection,
              Change, Reject
<1>6. CASE UNCHANGED sessionVars
  BY <1>1, <1>6 DEF sessionVars
<1> QED
  BY <1>1, <1>2, <1>3, <1>4, <1>5, <1>6 DEF SessionsNext, Progress, AllServed

LEMMA CommittedRowsStay ==
  ASSUME SInv, [SessionsNext]_sessionVars, NEW table \in Tables
  PROVE  RowsStay(table)
<1>1. [OutcomesKept]_vars
  BY NextPreservesSInv, NextKeepsOutcomes DEF SInv
<1>2. CASE UNCHANGED <<obligations, flows, receivables, collections>>
  BY <1>2 DEF RowsStay, CommittedRows
<1>3. ASSUME NEW s \in Sessions, Commit(s), OutcomesKept PROVE RowsStay(table)
  <2>1. CommittedRows(table)' = Merged(CommittedRows(table), writes[s][table])
    BY <1>3, CommittedTables
  <2>2. PICK rows, new : rows = CommittedRows(table) /\ new = writes[s][table]
    OBVIOUS
  <2>3. \A r \in rows : \E q \in Merged(rows, new) : q.id = r.id
    BY DEF Merged
  <2>4. \A r \in CommittedRows(table) : \E q \in CommittedRows(table)' : q.id = r.id
    BY <2>1, <2>2, <2>3
  <2>5. TypeOK
    BY DEF SInv, IInv
  <2>6. CASE table = "obligations"
    <3>1. \A o \in obligations : o.status \in {"active", "archived"}
      BY <2>5 DEF TypeOK, ObligationRow
    <3> QED
      BY <1>3, <2>4, <2>6, <3>1 DEF RowsStay, CommittedRows, OutcomesKept
  <2>7. CASE table = "flows"
    <3>1. \A f \in flows : f.status \in {"scheduled", "cancelled"}
      BY <2>5 DEF TypeOK, FlowRow
    <3> QED
      BY <1>3, <2>4, <2>7, <3>1 DEF RowsStay, CommittedRows, OutcomesKept
  <2>8. CASE table = "receivables"
    <3>1. \A r \in receivables : r.status \in {"open", "partially_collected", "collected", "cancelled"}
      BY <2>5 DEF TypeOK, ReceivableRow
    <3> QED
      BY <1>3, <2>8, <3>1 DEF RowsStay, CommittedRows, OutcomesKept
  <2>9. CASE table = "collections"
    BY <2>4, <2>9 DEF RowsStay
  <2> QED
    BY <2>6, <2>7, <2>8, <2>9 DEF Tables
<1>4. CASE UNCHANGED vars
  BY <1>2, <1>4 DEF vars
<1> QED
  BY <1>1, <1>2, <1>3, <1>4, OnlyCommitsWrite

LEMMA RequestsStay ==
  ASSUME [SessionsNext]_sessionVars
  PROVE  request' = request
<1>1. CASE LedgerPosts
  BY <1>1 DEF LedgerPosts
<1>2. ASSUME NEW s \in Sessions, Begin(s) \/ Fail(s) PROVE request' = request
  BY <1>2 DEF Begin, Fail, End
<1>3. ASSUME NEW s \in Sessions, LockRow(s) \/ ClaimMutation(s) \/ InsertRow(s) \/ Commit(s)
      PROVE  request' = request
  BY <1>3 DEF LockRow, ClaimMutation, InsertRow, Commit, Reject, End
<1>4. ASSUME NEW s \in Sessions,
             \/ ArchiveLockedObligation(s) \/ CancelLockedFlow(s) \/ CancelLockedReceivable(s)
             \/ UpdateReceivable(s) \/ InsertCollection(s)
      PROVE  request' = request
  BY <1>4 DEF ArchiveLockedObligation, CancelLockedFlow, CancelLockedReceivable, UpdateReceivable,
              InsertCollection,
              Change, Reject, End
<1> QED
  BY <1>1, <1>2, <1>3, <1>4 DEF SessionsNext, Progress, AllServed, sessionVars

LEMMA OriginalsAreOfRows ==
  ASSUME NEW s, IsCreation(s), NEW r, NEW q, q.id = r.id, Table(s) = "receivables" => q.original = r.original
  PROVE  OriginalResult(Table(s), q) = OriginalResult(Table(s), r)
BY DEF OriginalResult, NewObligation, NewFlow, NewReceivable, Table

LEMMA SettledStays ==
  ASSUME SInv, [SessionsNext]_sessionVars, NEW s \in Sessions
  PROVE  /\ Settled(s) => Settled(s)'
         /\ Answered(s) /\ answer'[s] = answer[s] => Answered(s)'
<1>1. /\ request' = request
      /\ IsCreation(s)' <=> IsCreation(s)
      /\ IsCollection(s)' <=> IsCollection(s)
      /\ Table(s)' = Table(s) /\ NewRow(s)' = NewRow(s)
  BY RequestsStay, SameAsked
<1>2. Table(s) \in RowTables /\ Table(s) \in Tables
  BY RequestsHaveTypes, Unfolded DEF SInv
<1>6. PICK table \in Tables : table = Table(s)
  BY <1>2
<1>3. RowsStay(table)
  BY CommittedRowsStay
<1>7. Table(s)' = table
  BY <1>1, <1>6
<1>4. RowsStay("collections")
  BY CommittedRowsStay DEF Tables
<1>5. collections \subseteq collections'
  <2>1. [OutcomesKept]_vars
    BY NextPreservesSInv, NextKeepsOutcomes DEF SInv
  <2> QED
    BY <2>1 DEF OutcomesKept, vars
<1>8. CASE IsCreation(s)
  <2>1. ASSUME Settled(s) PROVE Settled(s)'
    <3>1. PICK r \in CommittedRows(table) : r.id = request[s].key /\ OriginalResult(table, r) = NewRow(s)
      BY <1>6, <1>8, <2>1 DEF Settled
    <3>2. PICK q \in CommittedRows(table)' : q.id = r.id /\ (table = "receivables" => q.original = r.original)
      BY <1>3, <1>6 DEF RowsStay
    <3>3. OriginalResult(table, q) = NewRow(s)
      BY <1>6, <1>8, <3>1, <3>2, OriginalsAreOfRows
    <3>4. OriginalResult(table, q)' = OriginalResult(table, q)
      BY DEF OriginalResult
    <3> QED
      BY <1>1, <1>7, <1>8, <3>1, <3>2, <3>3, <3>4 DEF Settled
  <2> QED
    BY <1>1, <1>8, <2>1 DEF Answered
<1>9. CASE ~ IsCreation(s) /\ IsCollection(s)
  BY <1>1, <1>5, <1>9 DEF Settled, Answered
<1>10. CASE ~ IsCreation(s) /\ ~ IsCollection(s)
  <2>1. \A r \in Target(s) : r.status \in {"archived", "cancelled"} => r \in Target(s)'
    <3>1. \A r \in CommittedRows(table) :
            r.status \in {"archived", "cancelled"} => r \in CommittedRows(table)'
      BY <1>2, <1>3, <1>6 DEF RowsStay, RowTables
    <3>2. Target(s)' = {r \in CommittedRows(table)' : r.id = request[s].row}
      BY <1>1, <1>7 DEF Target
    <3> QED
      BY <1>6, <3>1, <3>2 DEF Target
  <2> QED
    BY <1>1, <1>10, <2>1 DEF Settled, Answered
<1> QED
  BY <1>8, <1>9, <1>10

\* A step of s leaves what the other sessions wrote and were told.
OthersWait(s) ==
  \A o \in Sessions \ {s} : pc'[o] = pc[o] /\ writes'[o] = writes[o] /\ answer'[o] = answer[o]

LEMMA OthersStayAnswered ==
  ASSUME SInv, AnswerInv, [SessionsNext]_sessionVars, NEW s \in Sessions, NEW o \in Sessions \ {s},
         OthersWait(s),
         \/ claims' = claims
         \/ claims' = claims \cup {Claim(s)} /\ Settled(s)'
  PROVE  AnswerOK(o)'
<1>1. /\ request' = request
      /\ \A u : /\ IsCreation(u)' <=> IsCreation(u)
                /\ IsCollection(u)' <=> IsCollection(u)
                /\ Table(u)' = Table(u) /\ Claim(u)' = Claim(u) /\ NewRow(u)' = NewRow(u)
  BY RequestsStay, SameAsked
<1>2. pc'[o] = pc[o] /\ writes'[o] = writes[o] /\ answer'[o] = answer[o]
  BY DEF OthersWait
<1>3. AnswerOK(o)
  BY DEF AnswerInv
<1>4. /\ Settled(o) => Settled(o)'
      /\ Answered(o) => Answered(o)'
  BY <1>2, SettledStays
<1>5. Claim(o)' \in claims' => Settled(o)'
  <2>1. CASE Claim(o) \in claims
    BY <1>3, <1>4, <2>1 DEF AnswerOK
  <2>2. CASE Claim(o) \notin claims /\ Claim(o)' \in claims'
    <3>1. Claim(s) = Claim(o) /\ Settled(s)'
      BY <1>1, <2>2
    <3>2. /\ request[s].key = request[o].key
          /\ IsCreation(s) <=> IsCreation(o)
          /\ IsCollection(s) <=> IsCollection(o)
          /\ Table(s) = Table(o)
          /\ IsCreation(s) => NewRow(s) = NewRow(o)
          /\ ~ IsCreation(s) /\ ~ IsCollection(s) => request[s].row = request[o].row
      BY <3>1, SameClaimAsksTheSame DEF SInv
    <3>3. PICK table : Table(s)' = table /\ Table(o)' = table
      BY <1>1, <3>2
    <3>4. CASE IsCreation(s)
      <4>1. PICK r \in CommittedRows(table)' : r.id = request[s].key /\ OriginalResult(table, r)' = NewRow(s)
        BY <1>1, <3>1, <3>3, <3>4 DEF Settled
      <4> QED
        BY <1>1, <3>2, <3>3, <3>4, <4>1 DEF Settled
    <3>5. CASE ~ IsCreation(s) /\ IsCollection(s)
      BY <1>1, <3>1, <3>2, <3>5 DEF Settled
    <3>6. CASE ~ IsCreation(s) /\ ~ IsCollection(s)
      <4>1. Target(s)' = Target(o)'
        BY <1>1, <3>2, <3>3, <3>6 DEF Target
      <4> QED
        BY <1>1, <3>1, <3>2, <3>6, <4>1 DEF Settled
    <3> QED
      BY <3>4, <3>5, <3>6
  <2> QED
    BY <1>1, <2>1, <2>2
<1>6. pc'[o] = "done" => Claim(o)' \in claims' /\ Answered(o)'
  BY <1>1, <1>2, <1>3, <1>4 DEF AnswerOK
<1>7. pc'[o] = "commit" => Drafted(o)'
  BY <1>1, <1>2, <1>3 DEF AnswerOK, Drafted
<1> QED
  BY <1>5, <1>6, <1>7 DEF AnswerOK

\* A step that commits nothing.
LEMMA QuietStep ==
  ASSUME SInv, AnswerInv, [SessionsNext]_sessionVars, NEW s \in Sessions, UNCHANGED <<committed, request>>,
         OthersWait(s), AnswerShape',
         pc'[s] = "done" => Claim(s) \in claims /\ Answered(s)',
         pc'[s] = "commit" => Drafted(s)'
  PROVE  AnswerInv'
<1>1. claims' = claims /\ Claim(s)' = Claim(s)
  BY SameRequest
<1>2. \A o \in Sessions \ {s} : AnswerOK(o)'
  BY <1>1, OthersStayAnswered
<1>3. AnswerOK(s)'
  <2>1. Settled(s) => Settled(s)'
    BY SettledStays
  <2> QED
    BY <1>1, <2>1 DEF AnswerInv, AnswerOK
<1>4. OneClaimAKey'
  BY <1>1 DEF AnswerInv, OneClaimAKey
<1> QED
  BY <1>2, <1>3, <1>4 DEF AnswerInv

\* A session that goes on, or ends without an answer.
LEMMA UnansweredStep ==
  ASSUME SInv, AnswerInv, [SessionsNext]_sessionVars, NEW s \in Sessions, UNCHANGED <<committed, request>>,
         OthersWait(s), answer' = answer, pc'[s] \notin {"done", "commit"}
  PROVE  AnswerInv'
<1>1. AnswerShape'
  BY DEF AnswerInv, AnswerShape
<1> QED
  BY <1>1, QuietStep

LEMMA EndedUnanswered ==
  ASSUME SInv, AnswerInv, [SessionsNext]_sessionVars, NEW s \in Sessions, NEW outcome \in {"rejected",
         "failed"},
         End(s, outcome), UNCHANGED <<committed, answer>>
  PROVE  AnswerInv'
<1>1. /\ pc'[s] = outcome /\ Untouched(s) /\ request' = request
  BY EndOK DEF SInv, Ended
<1>2. OthersWait(s)
  BY <1>1 DEF OthersWait, Untouched
<1> QED
  BY <1>1, <1>2, UnansweredStep

LEMMA BeginOrLockKeepsAnswers ==
  ASSUME SInv, AnswerInv, [SessionsNext]_sessionVars, NEW s \in Sessions, Begin(s) \/ LockRow(s) \/ Fail(s)
  PROVE  AnswerInv'
<1>1. CASE Begin(s)
  <2>1. /\ pc' = [pc EXCEPT ![s] = IF request[s].operation \in Creations THEN "claim" ELSE "row"]
        /\ UNCHANGED <<committed, request>> /\ writes' = writes /\ answer' = answer
    BY <1>1 DEF Begin, Goto
  <2>2. pc'[s] \notin {"done", "commit"} /\ OthersWait(s)
    BY <2>1 DEF SInv, Shape, OthersWait
  <2> QED
    BY <2>1, <2>2, UnansweredStep
<1>2. CASE LockRow(s) /\ Target(s) # {}
  <2>1. /\ pc' = [pc EXCEPT ![s] = "claim"]
        /\ UNCHANGED <<committed, request>> /\ writes' = writes /\ answer' = answer
    BY <1>2 DEF LockRow, Goto
  <2>2. pc'[s] \notin {"done", "commit"} /\ OthersWait(s)
    BY <2>1 DEF SInv, Shape, OthersWait
  <2> QED
    BY <2>1, <2>2, UnansweredStep
<1>3. CASE LockRow(s) /\ Target(s) = {}
  BY <1>3, EndedUnanswered DEF LockRow, Reject
<1>4. CASE Fail(s)
  BY <1>4, EndedUnanswered DEF Fail
<1> QED
  BY <1>1, <1>2, <1>3, <1>4

LEMMA OneRowToAKey ==
  ASSUME SInv, NEW table \in Tables
  PROVE  \A x, y \in CommittedRows(table) : x.id = y.id => x = y
<1>1. /\ OneToAKey(obligations) /\ OneToAKey(flows)
      /\ OneToAKey(receivables) /\ OneToAKey(collections)
  BY DEF SInv, IInv, RowsAreDistinct
<1> QED
  BY <1>1, Unfolded DEF OneToAKey, Tables

LEMMA ReplayIsTheOriginal ==
  ASSUME SInv, AnswerInv, NEW s \in Sessions, Claim(s) \in claims
  PROVE  IF IsCreation(s) THEN Replayed(s) = NewRow(s)
         ELSE IF IsCollection(s) THEN Replayed(s) \in collections /\ Replayed(s).id = request[s].key
         ELSE Replayed(s) \in Target(s) /\ Replayed(s).status \in {"archived", "cancelled"}
<1>1. Settled(s)
  BY DEF AnswerInv, AnswerOK
<1>2. Table(s) \in Tables
  BY RequestsHaveTypes, Unfolded DEF SInv
<1>3. CASE IsCreation(s)
  <2>1. PICK r \in CommittedRows(Table(s)) : r.id = request[s].key /\ OriginalResult(Table(s), r) = NewRow(s)
    BY <1>1, <1>3 DEF Settled
  <2>2. (CHOOSE q \in CommittedRows(Table(s)) : q.id = request[s].key) = r
    BY <1>2, <2>1, OneRowToAKey
  <2>3. request[s].operation # "collect_receivable"
    BY <1>3 DEF IsCreation, Creations
  <2> QED
    BY <1>3, <2>1, <2>2, <2>3 DEF Replayed, IsCreation
<1>4. CASE ~ IsCreation(s) /\ IsCollection(s)
  <2>1. \E c \in collections : c.id = request[s].key
    BY <1>1, <1>4 DEF Settled
  <2> QED
    BY <1>4, <2>1 DEF Replayed, IsCollection
<1>5. CASE ~ IsCreation(s) /\ ~ IsCollection(s)
  <2>1. PICK r \in Target(s) : r.status \in {"archived", "cancelled"}
    BY <1>1, <1>5 DEF Settled
  <2>2. \A q \in Target(s) : q = r
    BY <1>2, OneRowToAKey DEF Target
  <2>3. Replayed(s) = CHOOSE q \in Target(s) : TRUE
    BY <1>5 DEF Replayed, IsCreation, IsCollection
  <2>4. Replayed(s) = r
    BY <2>2, <2>3
  <2> QED
    BY <1>5, <2>1, <2>4
<1> QED
  BY <1>3, <1>4, <1>5

LEMMA ClaimKeepsAnswers ==
  ASSUME SInv, AnswerInv, [SessionsNext]_sessionVars, NEW s \in Sessions, ClaimMutation(s)
  PROVE  AnswerInv'
<1>1. CASE /\ writes' = [writes EXCEPT ![s].claims = {Claim(s)}]
           /\ Goto(s, IF request[s].operation \in Creations THEN "insert" ELSE "change")
           /\ UNCHANGED <<committed, locks, request, moment, answer>>
  <2>1. /\ pc' = [pc EXCEPT ![s] = IF request[s].operation \in Creations THEN "insert" ELSE "change"]
        /\ UNCHANGED <<committed, request>> /\ answer' = answer
    BY <1>1 DEF Goto
  <2>2. pc'[s] \notin {"done", "commit"} /\ OthersWait(s)
    BY <1>1, <2>1 DEF SInv, Shape, OthersWait
  <2> QED
    BY <2>1, <2>2, UnansweredStep
<1>2. CASE /\ Claim(s) \in claims
           /\ answer' = [answer EXCEPT ![s] = Replayed(s)]
           /\ End(s, "done")
           /\ UNCHANGED committed
  <2>1. pc'[s] = "done" /\ Untouched(s) /\ request' = request
    BY <1>2, EndOK DEF SInv, Ended
  <2>2. AnswerShape' /\ answer'[s] = Replayed(s) /\ \A o \in Sessions \ {s} : answer'[o] = answer[o]
    BY <1>2 DEF AnswerInv, AnswerShape
  <2>3. OthersWait(s) /\ UNCHANGED <<committed, request>>
    BY <1>2, <2>1, <2>2 DEF OthersWait, Untouched
  <2>4. /\ IsCreation(s)' <=> IsCreation(s)
        /\ IsCollection(s)' <=> IsCollection(s)
        /\ NewRow(s)' = NewRow(s) /\ Target(s)' = Target(s) /\ collections' = collections
    BY <2>1, <2>3, SameAsked, SameRequest
  <2>5. Answered(s)'
    BY <1>2, <2>1, <2>2, <2>4, ReplayIsTheOriginal DEF Answered
  <2> QED
    BY <1>2, <2>1, <2>2, <2>3, <2>5, QuietStep
<1>3. CASE Reject(s)
  BY <1>3, EndedUnanswered DEF Reject
<1> QED
  BY <1>1, <1>2, <1>3 DEF ClaimMutation

\* A session writes a row, which is its answer from then on.
LEMMA WrittenAnswer ==
  ASSUME SInv, AnswerInv, [SessionsNext]_sessionVars, NEW s \in Sessions, NEW table \in Fields, NEW row,
         Write(s, table, row), NEW step, Goto(s, step), UNCHANGED <<committed, locks, request, moment>>,
         step # "done",
         step = "commit" => IF IsCreation(s) THEN row = NewRow(s)
                            ELSE table = IF IsCollection(s) THEN "collections" ELSE Table(s)
  PROVE  AnswerInv'
<1>1. /\ pc'[s] = step /\ request' = request /\ writes'[s][table] = {row} /\ Untouched(s)
  BY Wrote DEF SInv
<1>2. AnswerShape' /\ answer'[s] = row /\ \A o \in Sessions \ {s} : answer'[o] = answer[o]
  BY DEF Write, AnswerInv, AnswerShape
<1>3. OthersWait(s) /\ UNCHANGED <<committed, request>>
  BY <1>1, <1>2 DEF OthersWait, Untouched
<1>4. pc'[s] = "commit" => Drafted(s)'
  BY <1>1, <1>2, SameAsked DEF Drafted
<1> QED
  BY <1>1, <1>2, <1>3, <1>4, QuietStep

LEMMA InsertKeepsAnswers ==
  ASSUME SInv, AnswerInv, [SessionsNext]_sessionVars, NEW s \in Sessions, InsertRow(s)
  PROVE  AnswerInv'
<1>1. PICK table, row : table \in Fields /\ table = Table(s) /\ row = NewRow(s)
  BY RequestsHaveTypes, Unfolded DEF SInv
<1>2. /\ Write(s, table, row) /\ Goto(s, "commit") /\ UNCHANGED <<committed, locks, request, moment>>
      /\ IsCreation(s)
  BY <1>1, SessionIs DEF InsertRow, Ready, PcOK
<1> QED
  BY <1>1, <1>2, WrittenAnswer

LEMMA ChangeKeepsAnswers ==
  ASSUME SInv, AnswerInv, [SessionsNext]_sessionVars, NEW s \in Sessions, NEW r, NEW allowed, NEW new,
         pc[s] = "change", Change(s, r, allowed, new)
  PROVE  AnswerInv'
<1>1. CASE Reject(s)
  BY <1>1, EndedUnanswered DEF Reject
<1>2. CASE ~ Reject(s)
  <2> DEFINE next == IF IsCollection(s) THEN "link" ELSE "commit"
  <2>1. PICK table, step : table \in Fields /\ table = Table(s) /\ step = next
    BY RequestsHaveTypes, Unfolded DEF SInv
  <2>2. /\ Write(s, table, new) /\ Goto(s, step) /\ UNCHANGED <<committed, locks, request, moment>>
    BY <1>2, <2>1 DEF Change, IsCollection
  <2>3. ~ IsCreation(s)
    BY SessionIs DEF PcOK
  <2>4. step # "done" /\ (step = "commit" => table = IF IsCollection(s) THEN "collections" ELSE Table(s))
    BY <2>1
  <2> HIDE DEF next
  <2> QED
    BY <2>1, <2>2, <2>3, <2>4, WrittenAnswer
<1> QED
  BY <1>1, <1>2

LEMMA ChangesKeepAnswers ==
  ASSUME SInv, AnswerInv, [SessionsNext]_sessionVars, NEW s \in Sessions,
         ArchiveLockedObligation(s) \/ CancelLockedFlow(s) \/ CancelLockedReceivable(s) \/ UpdateReceivable(s)
  PROVE  AnswerInv'
<1>1. pc[s] = "change"
  BY DEF ArchiveLockedObligation, CancelLockedFlow, CancelLockedReceivable, UpdateReceivable, IsChange, Ready
<1>2. \E r, allowed, new : Change(s, r, allowed, new)
  BY DEF ArchiveLockedObligation, CancelLockedFlow, CancelLockedReceivable, UpdateReceivable
<1> QED
  BY <1>1, <1>2, ChangeKeepsAnswers

LEMMA InsertCollectionKeepsAnswers ==
  ASSUME SInv, AnswerInv, [SessionsNext]_sessionVars, NEW s \in Sessions, InsertCollection(s)
  PROVE  AnswerInv'
<1>1. CASE Reject(s)
  BY <1>1, EndedUnanswered DEF Reject
<1>2. CASE ~ Reject(s)
  <2>1. /\ pc[s] = "link" /\ Goto(s, "commit") /\ UNCHANGED <<committed, locks, request, moment>>
        /\ \E r \in Target(s) : Write(s, "collections", Collection(s, r))
    BY <1>2 DEF InsertCollection, Ready, Collection
  <2>2. PICK table \in Fields : table = "collections"
    BY Unfolded
  <2>3. PICK row : Write(s, table, row)
    BY <2>1, <2>2
  <2>4. ~ IsCreation(s) /\ IsCollection(s)
    BY <2>1, SessionIs DEF PcOK, IsCreation, IsCollection, Creations
  <2> QED
    BY <2>1, <2>2, <2>3, <2>4, WrittenAnswer
<1> QED
  BY <1>1, <1>2

-----------------------------------------------------------------------------
(* A commit settles what was asked *)

LEMMA CommitSettles ==
  ASSUME SInv, AnswerInv, NEW s \in Sessions, Commit(s)
  PROVE  Settled(s)' /\ Answered(s)'
<1>1. /\ PcOK(s) /\ ClaimOK(s) /\ RowOK(s) /\ CollectionOK(s) /\ Shape
  BY SessionIs
<1>2. pc[s] = "commit" /\ answer' = answer /\ request' = request
  BY CommitIs DEF End
<1>3. /\ IsCreation(s)' <=> IsCreation(s)
      /\ IsCollection(s)' <=> IsCollection(s)
      /\ Table(s)' = Table(s) /\ NewRow(s)' = NewRow(s)
  BY <1>2, SameAsked
<1>4. Drafted(s)
  BY <1>2 DEF AnswerInv, AnswerOK
<1>5. PICK table \in Tables : table = Table(s) /\ table \in RowTables
  BY <1>1, RequestsHaveTypes, Unfolded
<1>6. writes[s][table] \subseteq CommittedRows(table)'
  <2>1. CommittedRows(table)' = Merged(CommittedRows(table), writes[s][table])
    BY CommittedTables
  <2> QED
    BY <2>1 DEF Merged
<1>7. writes[s]["collections"] \subseteq collections'
  <2>1. collections' = Merged(collections, writes[s]["collections"])
    BY CommitIs
  <2> QED
    BY <2>1, MergedRows
<1>8. Writing(s, table)
  BY <1>2, <1>5 DEF Writing
<1>9. CASE IsCreation(s)
  <2>1. NewRow(s) \in CommittedRows(table)'
    BY <1>1, <1>5, <1>6, <1>8, <1>9 DEF RowOK
  <2>2. NewRow(s).id = request[s].key
    BY <1>9 DEF IsCreation, Creations, NewRow, NewObligation, NewFlow, NewReceivable
  <2>3. OriginalResult(table, NewRow(s)) = NewRow(s)
    <3>1. CASE request[s].operation = "create_obligation"
      <4>1. table = "obligations"
        BY <1>5, <3>1 DEF Table
      <4>2. NewRow(s) = NewObligation(request[s].key)
        BY <3>1 DEF NewRow
      <4> QED
        BY <2>2, <4>1, <4>2 DEF OriginalResult
    <3>2. CASE request[s].operation = "create_scheduled_flow"
      <4>1. table = "flows"
        BY <1>5, <3>2 DEF Table
      <4>2. NewRow(s) = NewFlow(request[s].key)
        BY <3>2 DEF NewRow
      <4> QED
        BY <2>2, <4>1, <4>2 DEF OriginalResult
    <3>3. CASE request[s].operation = "create_receivable"
      <4>1. table = "receivables"
        BY <1>5, <3>3 DEF Table
      <4>2. NewRow(s) = NewReceivable(request[s].key, request[s].original)
        BY <3>3 DEF NewRow
      <4>3. NewRow(s).original = request[s].original
        BY <4>2 DEF NewReceivable
      <4> QED
        BY <2>2, <4>1, <4>2, <4>3 DEF OriginalResult
    <3> QED
      BY <1>9, <3>1, <3>2, <3>3 DEF IsCreation, Creations
  <2>4. PICK row : row = NewRow(s)
    OBVIOUS
  <2>5. /\ row \in CommittedRows(table)' /\ row.id = request[s].key
        /\ OriginalResult(table, row) = row /\ NewRow(s)' = row /\ Table(s)' = table
    BY <1>3, <1>5, <2>1, <2>2, <2>3, <2>4
  <2>6. OriginalResult(table, row)' = OriginalResult(table, row)
    BY DEF OriginalResult
  <2>7. Settled(s)'
    BY <1>2, <1>3, <1>9, <2>5, <2>6 DEF Settled
  <2> QED
    BY <1>2, <1>3, <1>4, <1>9, <2>7 DEF Answered, Drafted
<1>10. CASE ~ IsCreation(s) /\ IsCollection(s)
  <2>1. answer[s] \in writes[s]["collections"]
    BY <1>4, <1>10 DEF Drafted
  <2>2. PICK r \in Target(s) : writes[s]["collections"] = {Collection(s, r)}
    BY <1>1, <1>2, <1>10 DEF CollectionOK, IsCollection
  <2>3. answer[s].id = request[s].key
    BY <2>1, <2>2 DEF Collection, NewCollection
  <2> QED
    BY <1>2, <1>3, <1>7, <1>10, <2>1, <2>3 DEF Settled, Answered
<1>11. CASE ~ IsCreation(s) /\ ~ IsCollection(s)
  <2>1. answer[s] \in writes[s][table]
    BY <1>4, <1>5, <1>11 DEF Drafted
  <2>2. PICK r \in Target(s) : writes[s][table] = {Changed(s, r)}
    BY <1>1, <1>5, <1>8, <1>11 DEF RowOK
  <2>3. answer[s] = Changed(s, r) /\ answer[s].id = request[s].row
    BY <1>11, <2>1, <2>2, ChangedRow
  <2>4. answer[s].status \in {"archived", "cancelled"}
    <3>1. request[s].operation \in {"archive_obligation", "cancel_scheduled_flow", "cancel_receivable"}
      BY <1>1, <1>11, RequestsHaveTypes DEF IsCreation, IsCollection, Creations, Operations
    <3>2. TypeOK
      BY DEF SInv, IInv
    <3>3. CASE request[s].operation = "archive_obligation"
      <4>1. r \in ObligationRow
        BY <3>2, <3>3 DEF Target, Table, CommittedRows, TypeOK, ObligationRow
      <4> QED
        BY <2>3, <3>3, <4>1 DEF Changed, ObligationRow
    <3>4. CASE request[s].operation = "cancel_scheduled_flow"
      <4>1. r \in FlowRow
        BY <3>2, <3>4 DEF Target, Table, CommittedRows, TypeOK, FlowRow
      <4> QED
        BY <2>3, <3>4, <4>1 DEF Changed, FlowRow
    <3>5. CASE request[s].operation = "cancel_receivable"
      <4>1. r \in ReceivableRow
        BY <3>2, <3>5 DEF Target, Table, CommittedRows, TypeOK, ReceivableRow
      <4> QED
        BY <2>3, <3>5, <4>1 DEF Changed, ReceivableRow
    <3> QED
      BY <3>1, <3>3, <3>4, <3>5
  <2>5. answer[s] \in CommittedRows(table)'
    BY <1>6, <2>1
  <2>6. Target(s)' = {q \in CommittedRows(table)' : q.id = request[s].row}
    BY <1>2, <1>3, <1>5 DEF Target
  <2>7. answer'[s] \in Target(s)' /\ answer'[s].status \in {"archived", "cancelled"}
    BY <1>2, <2>3, <2>4, <2>5, <2>6
  <2> QED
    BY <1>3, <1>11, <2>7 DEF Settled, Answered
<1> QED
  BY <1>9, <1>10, <1>11

LEMMA CommitKeepsAnswers ==
  ASSUME SInv, AnswerInv, [SessionsNext]_sessionVars, NEW s \in Sessions, Commit(s)
  PROVE  AnswerInv'
<1>1. pc[s] = "commit" /\ End(s, "done") /\ answer' = answer /\ claims' = claims \cup writes[s]["claims"]
  BY CommitIs
<1>2. claims' = claims \cup {Claim(s)} /\ Unclaimed(request[s].operation, request[s].key)
  BY <1>1, SessionIs DEF ClaimOK, Claiming
<1>3. pc'[s] = "done" /\ Untouched(s) /\ request' = request
  BY <1>1, EndOK DEF SInv, Ended
<1>4. Settled(s)' /\ Answered(s)'
  BY CommitSettles
<1>5. OthersWait(s) /\ AnswerShape'
  BY <1>1, <1>3 DEF OthersWait, Untouched, AnswerInv, AnswerShape
<1>6. \A o \in Sessions \ {s} : AnswerOK(o)'
  BY <1>2, <1>4, <1>5, OthersStayAnswered
<1>7. AnswerOK(s)'
  <2>1. Claim(s)' = Claim(s)
    BY <1>3, SameAsked
  <2> QED
    BY <1>2, <1>3, <1>4, <2>1 DEF AnswerOK
<1>8. OneClaimAKey'
  <2>1. Claim(s)[1] = request[s].operation /\ Claim(s)[2] = request[s].key
    BY DEF Claim
  <2>2. \A c \in claims : ~ (c[1] = Claim(s)[1] /\ c[2] = Claim(s)[2])
    BY <1>2, <2>1 DEF Unclaimed
  <2>3. OneClaimAKey
    BY DEF AnswerInv
  <2> QED
    BY <1>2, <2>2, <2>3 DEF OneClaimAKey
<1> QED
  BY <1>5, <1>6, <1>7, <1>8 DEF AnswerInv

-----------------------------------------------------------------------------

LEMMA InitAnswerInv == SessionsInit => AnswerInv
BY DEF SessionsInit, Init, AnswerInv, AnswerShape, OneClaimAKey, AnswerOK

LEMMA NextPreservesAnswerInv == SInv /\ AnswerInv /\ [SessionsNext]_sessionVars => AnswerInv'
<1> SUFFICES ASSUME SInv, AnswerInv, [SessionsNext]_sessionVars PROVE AnswerInv'
  OBVIOUS
<1>1. CASE UNCHANGED sessionVars \/ LedgerPosts
  <2>1. UNCHANGED <<pc, request, writes, answer, claims>>
    BY <1>1 DEF sessionVars, committed, LedgerPosts, PostTransaction
  <2>2. ASSUME NEW s \in Sessions PROVE AnswerOK(s)'
    <3>1. /\ IsCreation(s)' <=> IsCreation(s)
          /\ IsCollection(s)' <=> IsCollection(s)
          /\ Table(s)' = Table(s) /\ NewRow(s)' = NewRow(s) /\ Claim(s)' = Claim(s)
      BY <2>1, SameAsked
    <3>2. (Settled(s) => Settled(s)') /\ (Answered(s) => Answered(s)')
      BY <2>1, SettledStays
    <3>3. Drafted(s)' <=> Drafted(s)
      BY <2>1, <3>1 DEF Drafted
    <3> QED
      BY <2>1, <3>1, <3>2, <3>3 DEF AnswerInv, AnswerOK
  <2> QED
    BY <2>1, <2>2 DEF AnswerInv, AnswerShape, OneClaimAKey
<1>2. ASSUME NEW s \in Sessions, Begin(s) \/ LockRow(s) \/ Fail(s) PROVE AnswerInv'
  BY <1>2, BeginOrLockKeepsAnswers
<1>3. ASSUME NEW s \in Sessions, ClaimMutation(s) PROVE AnswerInv'
  BY <1>3, ClaimKeepsAnswers
<1>4. ASSUME NEW s \in Sessions, InsertRow(s) PROVE AnswerInv'
  BY <1>4, InsertKeepsAnswers
<1>5. ASSUME NEW s \in Sessions,
             ArchiveLockedObligation(s) \/ CancelLockedFlow(s) \/ CancelLockedReceivable(s)
             \/ UpdateReceivable(s)
      PROVE  AnswerInv'
  BY <1>5, ChangesKeepAnswers
<1>6. ASSUME NEW s \in Sessions, InsertCollection(s) PROVE AnswerInv'
  BY <1>6, InsertCollectionKeepsAnswers
<1>7. ASSUME NEW s \in Sessions, Commit(s) PROVE AnswerInv'
  BY <1>7, CommitKeepsAnswers
<1> QED
  BY <1>1, <1>2, <1>3, <1>4, <1>5, <1>6, <1>7 DEF SessionsNext, Progress, AllServed

LEMMA EqualClaims ==
  ASSUME SInv, AnswerInv
  PROVE  AnswersAgree
<1> SUFFICES ASSUME NEW s \in Sessions, NEW o \in Sessions, pc[s] = "done", pc[o] = "done",
                    request[s].operation = request[o].operation, request[s].key = request[o].key
             PROVE  answer[s] = answer[o]
  BY DEF AnswersAgree
<1>1. Claim(s) \in claims /\ Answered(s) /\ Claim(o) \in claims /\ Answered(o)
  BY DEF AnswerInv, AnswerOK
<1>2. Claim(s) = Claim(o)
  <2>1. Claim(s)[1] = Claim(o)[1] /\ Claim(s)[2] = Claim(o)[2]
    BY DEF Claim
  <2> QED
    BY <1>1, <2>1 DEF AnswerInv, OneClaimAKey
<1>3. /\ IsCreation(s) <=> IsCreation(o)
      /\ IsCollection(s) <=> IsCollection(o)
      /\ Table(s) = Table(o)
      /\ IsCreation(s) => NewRow(s) = NewRow(o)
      /\ ~ IsCreation(s) /\ ~ IsCollection(s) => request[s].row = request[o].row
  BY <1>2, SameClaimAsksTheSame DEF SInv
<1>4. \A x, y \in collections : x.id = y.id => x = y
  BY Unfolded, OneRowToAKey DEF Tables
<1>5. \A x, y \in CommittedRows(Table(s)) : x.id = y.id => x = y
  <2>1. Table(s) \in Tables
    BY RequestsHaveTypes, Unfolded DEF SInv
  <2> QED
    BY <2>1, OneRowToAKey
<1> QED
  BY <1>1, <1>3, <1>4, <1>5 DEF Answered, Target

\* Whoever used a key for an operation is told the same row, however the calls
\* interleave and whatever happened to the row in between (claimMutation and the
\* original…Result functions of schedule_repository.go).
THEOREM SessionsAgree == SessionsSpec => []AnswersAgree
<1>1. SessionsInit => SInv /\ AnswerInv
  BY InitSInv, InitAnswerInv
<1>2. (SInv /\ AnswerInv) /\ [SessionsNext]_sessionVars => (SInv /\ AnswerInv)'
  BY NextPreservesSInv, NextPreservesAnswerInv
<1>3. SInv /\ AnswerInv => AnswersAgree
  BY EqualClaims
<1> QED
  BY <1>1, <1>2, <1>3, PTL DEF SessionsSpec

=============================================================================
