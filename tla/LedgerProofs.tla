---------------------------- MODULE LedgerProofs ----------------------------
(***************************************************************************)
(* Theorems of Ledger, and further down of LedgerSessions, for every set   *)
(* of accounts, keys, amounts and sessions and all bounds.                 *)
(*                                                                         *)
(* The inductive invariant is the conjunction of the invariants MCLedger   *)
(* checks: none of them is inductive alone.  A new row gets an id that no  *)
(* mutation row names; ResourcesAreClaimedOnce turns that into "no row of  *)
(* any table has this id", which is what ClaimsNameTheirResource and       *)
(* TransfersAreComplete need; and a new sequence exceeds those of its      *)
(* account, which CutoffsNameTransactions lifts to "exceeds its cutoffs".  *)
(*                                                                         *)
(* A balance is a sum over the entries up to one of them.  An entry comes  *)
(* after all entries of its account, so the sums that were acceptable stay *)
(* as they are, and the one that is new was tried before the entry was     *)
(* written.                                                                *)
(***************************************************************************)
EXTENDS LedgerSessions, SumTheorems

IInv ==
  /\ TypeOK
  /\ SequencesAreUnique
  /\ CutoffsNameTransactions
  /\ CutoffsNeverRegress
  /\ ClaimsNameTheirResource
  /\ ResourcesAreClaimedOnce
  /\ TransfersAreComplete

-----------------------------------------------------------------------------
(* Facts about rows and ids *)

\* A transfer writes well-typed effects whatever its endpoints are.
LEMMA TransferEffectType ==
  ASSUME NEW account, NEW isSource
  PROVE  TransferEffect(account, isSource) \in Effects
BY DEF TransferEffect, Effects

\* A claim that names its resource still does after rows were added.
LEMMA MatchesPersist ==
  ASSUME NEW m \in MutationRow, ResourceMatches(m),
         transactions \subseteq transactions', snapshots \subseteq snapshots',
         transfers \subseteq transfers'
  PROVE  ResourceMatches(m)'
BY DEF ResourceMatches

\* A transfer stays complete while no entry is added under its id.
LEMMA CompletePersists ==
  ASSUME NEW transfer, IsComplete(transfer), transactions \subseteq transactions',
         \A t \in transactions' \ transactions : t.kind = "transfer" => t.id # transfer.id
  PROVE  IsComplete(transfer)'
<1>1. PICK sent \in transactions, received \in transactions :
        /\ LegsOf(transfer) = {sent, received}
        /\ IsLeg(sent, transfer, transfer.source, "asset_outflow")
        /\ IsLeg(received, transfer, transfer.destination,
                 TransferEffect(transfer.destination, FALSE))
  BY DEF IsComplete
<1>2. LegsOf(transfer)' = {sent, received}
  BY <1>1 DEF LegsOf
<1> QED
  BY <1>1, <1>2 DEF IsComplete, IsLeg, TransferEffect

\* A fresh id is the id of no row in any table.
LEMMA FreshIdIsUnused ==
  ASSUME ResourcesAreClaimedOnce, NEW id \in FreshIds
  PROVE  /\ id \in Ids
         /\ \A t \in transactions : t.id # id
         /\ \A s \in snapshots : s.id # id
         /\ \A t \in transfers : t.id # id
         /\ \A m \in mutations : m.resource # id
BY DEF ResourcesAreClaimedOnce, ClaimedBy, FreshIds

\* Adding one mutation row with an unclaimed key and a fresh id keeps keys and
\* resources unique, and leaves every claimed id claimed.
LEMMA ClaimKeepsUniqueness ==
  ASSUME IInv, NEW new \in MutationRow, mutations' = mutations \cup {new},
         Unclaimed(new.operation, new.key), new.resource \in FreshIds
  PROVE  /\ \A m, n \in mutations' : m.operation = n.operation /\ m.key = n.key => m = n
         /\ \A m, n \in mutations' : m.resource = n.resource => m = n
         /\ \A id, operation : ClaimedBy(id, operation) => ClaimedBy(id, operation)'
         /\ ClaimedBy(new.resource, new.operation)'
<1>1. \A m, n \in mutations' : m.operation = n.operation /\ m.key = n.key => m = n
  BY DEF IInv, ClaimsNameTheirResource, Unclaimed
<1>2. \A m, n \in mutations' : m.resource = n.resource => m = n
  BY DEF IInv, ResourcesAreClaimedOnce, FreshIds
<1>3. \A id, operation : ClaimedBy(id, operation) => ClaimedBy(id, operation)'
  BY DEF ClaimedBy
<1>4. ClaimedBy(new.resource, new.operation)'
  BY DEF ClaimedBy
<1> QED
  BY <1>1, <1>2, <1>3, <1>4

-----------------------------------------------------------------------------
(* Each operation preserves the invariant *)

LEMMA PostPreservesIInv ==
  ASSUME IInv, NEW key \in Keys, NEW account \in Accounts, NEW effect \in Effects,
         NEW amount \in Amounts, PostManualTransaction(key, account, effect, amount)
  PROVE  IInv'
<1>1. PICK id \in FreshIds, sequence \in NextSequences(account) :
        PostedRows(key, account, effect, amount, id, sequence)
  BY DEF PostManualTransaction
<1> DEFINE row == [id |-> id, kind |-> "manual", account |-> account, effect |-> effect,
                   amount |-> amount, sequence |-> sequence]
           claim == [operation |-> "post_transaction", key |-> key, resource |-> id,
                     fingerprint |-> [account |-> account, effect |-> effect, amount |-> amount]]
<1>2. /\ transactions' = transactions \cup {row}
      /\ mutations' = mutations \cup {claim}
      /\ UNCHANGED <<status, transfers, snapshots>>
  BY <1>1 DEF PostedRows
<1>3. /\ id \in Ids /\ sequence \in Sequences
      /\ \A t \in transactions : t.sequence # sequence
      /\ \A t \in TransactionsOf(account) : t.sequence < sequence
  BY DEF FreshIds, NextSequences
<1>4. row \in TransactionRow /\ claim \in MutationRow
  BY <1>3 DEF TransactionRow, Kinds, MutationRow, PostFingerprint
<1>5. TypeOK'
  BY <1>2, <1>4 DEF IInv, TypeOK
<1>6. SequencesAreUnique'
  BY <1>2, <1>3 DEF IInv, SequencesAreUnique
<1>7. CutoffsNameTransactions'
  BY <1>2 DEF IInv, CutoffsNameTransactions, TransactionsOf
<1>8. CutoffsNeverRegress'
  BY <1>2 DEF IInv, CutoffsNeverRegress
<1>9. /\ Unclaimed(claim.operation, claim.key)
      /\ claim.resource \in FreshIds
  BY DEF PostManualTransaction
<1>10. ClaimsNameTheirResource'
  <2>1. ResourceMatches(claim)'
    <3>1. /\ row \in transactions' /\ row.id = claim.resource /\ row.kind = "manual"
          /\ claim.fingerprint = [account |-> row.account, effect |-> row.effect,
                                  amount |-> row.amount]
      BY <1>2
    <3> QED
      BY <3>1 DEF ResourceMatches
  <2>2. \A m \in mutations : ResourceMatches(m)'
    BY <1>2, MatchesPersist DEF IInv, TypeOK, ClaimsNameTheirResource
  <2> QED
    BY <1>2, <1>4, <1>9, <2>1, <2>2, ClaimKeepsUniqueness DEF ClaimsNameTheirResource
<1>11. ResourcesAreClaimedOnce'
  <2>1. ClaimedBy(id, "post_transaction")'
    BY <1>2, <1>4, <1>9, ClaimKeepsUniqueness
  <2>2. /\ \A m, n \in mutations' : m.resource = n.resource => m = n
        /\ \A i, operation : ClaimedBy(i, operation) => ClaimedBy(i, operation)'
    BY <1>2, <1>4, <1>9, ClaimKeepsUniqueness
  <2>3. \A t \in transactions' :
          ClaimedBy(t.id, IF t.kind = "manual" THEN "post_transaction" ELSE "create_transfer")'
    BY <1>2, <2>1, <2>2 DEF IInv, ResourcesAreClaimedOnce
  <2>4. /\ \A s \in snapshots' : ClaimedBy(s.id, "create_snapshot")'
        /\ \A t \in transfers' : ClaimedBy(t.id, "create_transfer")'
    BY <1>2, <2>2 DEF IInv, ResourcesAreClaimedOnce
  <2> QED
    BY <2>2, <2>3, <2>4 DEF ResourcesAreClaimedOnce
<1>12. TransfersAreComplete'
  <2>1. \A transfer \in transfers : IsComplete(transfer)'
    BY <1>2, CompletePersists DEF IInv, TransfersAreComplete
  <2> QED
    BY <1>2, <2>1 DEF IInv, TransfersAreComplete
<1> QED
  BY <1>5, <1>6, <1>7, <1>8, <1>10, <1>11, <1>12 DEF IInv

LEMMA SnapshotPreservesIInv ==
  ASSUME IInv, NEW key \in Keys, NEW account \in Accounts, NEW balance \in SnapshotBalances,
         NEW cutoff \in 0..MaxSequence, CreateSnapshot(key, account, balance, cutoff)
  PROVE  IInv'
<1>1. PICK id \in FreshIds, order \in NextOrders(account) :
        SnapshotRows(key, account, balance, cutoff, id, order)
  BY DEF CreateSnapshot
<1> DEFINE row == [id |-> id, account |-> account, balance |-> balance,
                   cutoff |-> cutoff, order |-> order]
           claim == [operation |-> "create_snapshot", key |-> key, resource |-> id,
                     fingerprint |-> [account |-> account, balance |-> balance, cutoff |-> cutoff]]
<1>2. /\ snapshots' = snapshots \cup {row}
      /\ mutations' = mutations \cup {claim}
      /\ UNCHANGED <<status, transactions, transfers>>
  BY <1>1 DEF SnapshotRows
<1>3. /\ id \in Ids /\ order \in Orders
      /\ \A s \in SnapshotsOf(account) : s.order < order
  BY DEF FreshIds, NextOrders
<1>4. row \in SnapshotRow /\ claim \in MutationRow
  BY <1>3 DEF SnapshotRow, MutationRow, SnapshotFingerprint
<1>5. TypeOK'
  BY <1>2, <1>4 DEF IInv, TypeOK
<1>6. SequencesAreUnique'
  BY <1>2 DEF IInv, SequencesAreUnique
<1>7. CutoffsNameTransactions'
  BY <1>2 DEF IInv, CutoffsNameTransactions, TransactionsOf, CreateSnapshot, CutoffKnown
<1>8. CutoffsNeverRegress'
  <2>1. \A s \in SnapshotsOf(account) : s.cutoff <= cutoff /\ s.order < order
    BY <1>3 DEF CreateSnapshot, CutoffRegresses, SnapshotsOf, IInv, TypeOK, SnapshotRow
  <2> QED
    BY <1>2, <1>3, <2>1 DEF IInv, CutoffsNeverRegress, SnapshotsOf, TypeOK, SnapshotRow, Orders
<1>9. /\ Unclaimed(claim.operation, claim.key)
      /\ claim.resource \in FreshIds
  BY DEF CreateSnapshot
<1>10. ClaimsNameTheirResource'
  <2>1. ResourceMatches(claim)'
    <3>1. /\ row \in snapshots' /\ row.id = claim.resource
          /\ claim.fingerprint = [account |-> row.account, balance |-> row.balance,
                                  cutoff |-> row.cutoff]
      BY <1>2
    <3> QED
      BY <3>1 DEF ResourceMatches
  <2>2. \A m \in mutations : ResourceMatches(m)'
    BY <1>2, MatchesPersist DEF IInv, TypeOK, ClaimsNameTheirResource
  <2> QED
    BY <1>2, <1>4, <1>9, <2>1, <2>2, ClaimKeepsUniqueness DEF ClaimsNameTheirResource
<1>11. ResourcesAreClaimedOnce'
  <2>1. ClaimedBy(id, "create_snapshot")'
    BY <1>2, <1>4, <1>9, ClaimKeepsUniqueness
  <2>2. /\ \A m, n \in mutations' : m.resource = n.resource => m = n
        /\ \A i, operation : ClaimedBy(i, operation) => ClaimedBy(i, operation)'
    BY <1>2, <1>4, <1>9, ClaimKeepsUniqueness
  <2>3. /\ \A t \in transactions' :
             ClaimedBy(t.id, IF t.kind = "manual" THEN "post_transaction" ELSE "create_transfer")'
        /\ \A t \in transfers' : ClaimedBy(t.id, "create_transfer")'
    BY <1>2, <2>2 DEF IInv, ResourcesAreClaimedOnce
  <2>4. \A s \in snapshots' : ClaimedBy(s.id, "create_snapshot")'
    BY <1>2, <2>1, <2>2 DEF IInv, ResourcesAreClaimedOnce
  <2> QED
    BY <2>2, <2>3, <2>4 DEF ResourcesAreClaimedOnce
<1>12. TransfersAreComplete'
  <2>1. \A transfer \in transfers : IsComplete(transfer)'
    BY <1>2, CompletePersists DEF IInv, TransfersAreComplete
  <2> QED
    BY <1>2, <2>1 DEF IInv, TransfersAreComplete
<1> QED
  BY <1>5, <1>6, <1>7, <1>8, <1>10, <1>11, <1>12 DEF IInv

LEMMA TransferPreservesIInv ==
  ASSUME IInv, NEW key \in Keys, NEW source \in Accounts, NEW destination \in Accounts,
         NEW amount \in Amounts, CreateTransfer(key, source, destination, amount)
  PROVE  IInv'
<1>1. PICK id \in FreshIds, sent \in NextSequences(source), received \in NextSequences(destination) :
        /\ sent < received
        /\ TransferRows(key, source, destination, amount, id, sent, received)
  BY DEF CreateTransfer
<1> DEFINE outgoing == [id |-> id, kind |-> "transfer", account |-> source,
                        effect |-> TransferEffect(source, TRUE), amount |-> amount,
                        sequence |-> sent]
           incoming == [id |-> id, kind |-> "transfer", account |-> destination,
                        effect |-> TransferEffect(destination, FALSE), amount |-> amount,
                        sequence |-> received]
           link == [id |-> id, source |-> source, destination |-> destination, amount |-> amount]
           claim == [operation |-> "create_transfer", key |-> key, resource |-> id,
                     fingerprint |-> [source |-> source, destination |-> destination,
                                      amount |-> amount]]
<1>2. /\ transactions' = transactions \cup {outgoing, incoming}
      /\ transfers' = transfers \cup {link}
      /\ mutations' = mutations \cup {claim}
      /\ UNCHANGED <<status, snapshots>>
  BY <1>1 DEF TransferRows
<1>3. /\ id \in Ids /\ sent \in Sequences /\ received \in Sequences
      /\ \A t \in transactions : t.sequence # sent /\ t.sequence # received
      /\ sent # received
  BY <1>1 DEF FreshIds, NextSequences, Sequences
<1>4. outgoing \in TransactionRow /\ incoming \in TransactionRow
  BY <1>3, TransferEffectType DEF TransactionRow, Kinds
<1>5. link \in TransferRow /\ claim \in MutationRow
  BY <1>3 DEF TransferRow, MutationRow, TransferFingerprint
<1>6. /\ transactions \subseteq transactions'
       /\ outgoing \in transactions' /\ incoming \in transactions'
       /\ \A t \in transactions' : t \in transactions \/ t = outgoing \/ t = incoming
  BY <1>2
<1>7. /\ outgoing.id = id /\ outgoing.kind = "transfer" /\ outgoing.sequence = sent
       /\ outgoing.account = source /\ outgoing.amount = amount
       /\ outgoing.effect = TransferEffect(source, TRUE)
       /\ incoming.id = id /\ incoming.kind = "transfer" /\ incoming.sequence = received
       /\ incoming.account = destination /\ incoming.amount = amount
       /\ incoming.effect = TransferEffect(destination, FALSE)
  OBVIOUS
<1> HIDE DEF outgoing, incoming
<1>8. TypeOK'
  BY <1>2, <1>4, <1>5, <1>6 DEF IInv, TypeOK
<1>9. SequencesAreUnique'
  BY <1>3, <1>6, <1>7 DEF IInv, SequencesAreUnique
<1>10. CutoffsNameTransactions'
  BY <1>2, <1>6 DEF IInv, CutoffsNameTransactions, TransactionsOf
<1>11. CutoffsNeverRegress'
  BY <1>2 DEF IInv, CutoffsNeverRegress
<1>12. /\ Unclaimed(claim.operation, claim.key)
       /\ claim.resource \in FreshIds
  BY DEF CreateTransfer
<1>13. ClaimsNameTheirResource'
  <2>1. ResourceMatches(claim)'
    <3>1. /\ link \in transfers' /\ link.id = claim.resource
          /\ claim.fingerprint = [source |-> link.source, destination |-> link.destination,
                                  amount |-> link.amount]
      BY <1>2
    <3> QED
      BY <3>1 DEF ResourceMatches
  <2>2. \A m \in mutations : ResourceMatches(m)'
    BY <1>2, MatchesPersist DEF IInv, TypeOK, ClaimsNameTheirResource
  <2> QED
    BY <1>2, <1>5, <1>12, <2>1, <2>2, ClaimKeepsUniqueness DEF ClaimsNameTheirResource
<1>14. ResourcesAreClaimedOnce'
  <2>1. ClaimedBy(id, "create_transfer")'
    BY <1>2, <1>5, <1>12, ClaimKeepsUniqueness
  <2>2. /\ \A m, n \in mutations' : m.resource = n.resource => m = n
        /\ \A i, operation : ClaimedBy(i, operation) => ClaimedBy(i, operation)'
    BY <1>2, <1>5, <1>12, ClaimKeepsUniqueness
  <2>3. \A t \in transactions' :
          ClaimedBy(t.id, IF t.kind = "manual" THEN "post_transaction" ELSE "create_transfer")'
    BY <1>6, <1>7, <2>1, <2>2 DEF IInv, ResourcesAreClaimedOnce
  <2>4. /\ \A s \in snapshots' : ClaimedBy(s.id, "create_snapshot")'
        /\ \A t \in transfers' : ClaimedBy(t.id, "create_transfer")'
    BY <1>2, <2>1, <2>2 DEF IInv, ResourcesAreClaimedOnce
  <2> QED
    BY <2>2, <2>3, <2>4 DEF ResourcesAreClaimedOnce
<1>15. TransfersAreComplete'
  <2>1. \A t \in transactions : t.id # id
    BY FreshIdIsUnused DEF IInv
  <2>2. \A t \in transfers : t.id # id
    BY FreshIdIsUnused DEF IInv
  <2>3. \A transfer \in transfers : IsComplete(transfer)'
    BY <1>6, <1>7, <2>2, CompletePersists DEF IInv, TransfersAreComplete
  <2>4. IsComplete(link)'
    <3>1. LegsOf(link)' = {outgoing, incoming}
      BY <1>6, <1>7, <2>1 DEF LegsOf
    <3>2. TransferEffect(source, TRUE) = "asset_outflow"
      BY DEF TransferEffect
    <3>3. /\ IsLeg(outgoing, link, link.source, "asset_outflow")'
          /\ IsLeg(incoming, link, link.destination, TransferEffect(link.destination, FALSE))'
      BY <1>7, <3>2 DEF IsLeg
    <3> QED
      BY <1>6, <3>1, <3>3 DEF IsComplete
  <2>5. link.source # link.destination
    BY DEF CreateTransfer
  <2>6. \A t \in transactions' :
          t.kind = "transfer" => \E transfer \in transfers' : transfer.id = t.id
    <3>1. link \in transfers' /\ link.id = outgoing.id /\ link.id = incoming.id
      BY <1>2, <1>7
    <3> QED
      BY <1>2, <1>6, <3>1 DEF IInv, TransfersAreComplete
  <2> QED
    BY <1>2, <2>3, <2>4, <2>5, <2>6 DEF IInv, TransfersAreComplete
<1> QED
  BY <1>8, <1>9, <1>10, <1>11, <1>13, <1>14, <1>15 DEF IInv

\* The invariant does not depend on which accounts are archived.
LEMMA RowsUnchangedPreserveIInv ==
  ASSUME IInv, UNCHANGED <<transactions, transfers, snapshots, mutations>>,
         status' \in [Accounts -> {"active", "archived"}]
  PROVE  IInv'
<1>1. TypeOK'
  BY DEF IInv, TypeOK
<1>2. SequencesAreUnique' /\ CutoffsNameTransactions' /\ CutoffsNeverRegress'
  BY DEF IInv, SequencesAreUnique, CutoffsNameTransactions, CutoffsNeverRegress, TransactionsOf
<1>3. ClaimsNameTheirResource'
  BY MatchesPersist DEF IInv, TypeOK, ClaimsNameTheirResource
<1>4. ResourcesAreClaimedOnce'
  BY DEF IInv, ResourcesAreClaimedOnce, ClaimedBy
<1>5. TransfersAreComplete'
  <2>1. \A transfer \in transfers : IsComplete(transfer)'
    BY CompletePersists DEF IInv, TransfersAreComplete
  <2> QED
    BY <2>1 DEF IInv, TransfersAreComplete
<1> QED
  BY <1>1, <1>2, <1>3, <1>4, <1>5 DEF IInv

\* Every step of the ledger preserves the invariant.
LEMMA NextPreservesIInv == IInv /\ [Next]_vars => IInv'
<1> SUFFICES ASSUME IInv, [Next]_vars PROVE IInv'
  OBVIOUS
<1>1. ASSUME NEW key \in Keys, NEW account \in Accounts, NEW effect \in Effects,
             NEW amount \in Amounts, PostManualTransaction(key, account, effect, amount)
      PROVE  IInv'
  BY <1>1, PostPreservesIInv
<1>2. ASSUME NEW key \in Keys, NEW account \in Accounts, NEW balance \in SnapshotBalances,
             NEW cutoff \in 0..MaxSequence, CreateSnapshot(key, account, balance, cutoff)
      PROVE  IInv'
  BY <1>2, SnapshotPreservesIInv
<1>3. ASSUME NEW key \in Keys, NEW source \in Accounts, NEW destination \in Accounts,
             NEW amount \in Amounts, CreateTransfer(key, source, destination, amount)
      PROVE  IInv'
  BY <1>3, TransferPreservesIInv
<1>4. ASSUME NEW account \in Accounts, ArchiveAccount(account)
      PROVE  IInv'
  BY <1>4, RowsUnchangedPreserveIInv DEF ArchiveAccount, IInv, TypeOK
<1>5. CASE UNCHANGED vars
  BY <1>5, RowsUnchangedPreserveIInv DEF vars, IInv, TypeOK
<1> QED
  BY <1>1, <1>2, <1>3, <1>4, <1>5 DEF Next

LEMMA InitEstablishesIInv == Init => IInv
BY DEF Init, IInv, TypeOK, SequencesAreUnique, CutoffsNameTransactions, CutoffsNeverRegress,
       ClaimsNameTheirResource, ResourcesAreClaimedOnce, TransfersAreComplete

-----------------------------------------------------------------------------
(* Theorems *)

\* Every reachable state of the ledger satisfies the inductive invariant.
THEOREM LedgerInvariant == Spec => []IInv
BY InitEstablishesIInv, NextPreservesIInv, PTL DEF Spec

\* The tables hold well-typed rows only.
THEOREM LedgerTypeCorrect == Spec => []TypeOK
<1>1. IInv => TypeOK
  BY DEF IInv
<1> QED
  BY <1>1, LedgerInvariant, PTL

\* Retrying a request with its key posts nothing twice: a key is claimed once,
\* each claim names the resource it posted, and nothing is posted unclaimed
\* (claimMutation, README.md:131).
THEOREM LedgerPostsOnce == Spec => []KeysPostOnce
<1>1. IInv => KeysPostOnce
  BY DEF IInv, KeysPostOnce
<1> QED
  BY <1>1, LedgerInvariant, PTL

\* A linked transfer always has its two matching entries and no other
\* (runway_require_complete_linked_transfer, migration 0003).
THEOREM LedgerTransfersComplete == Spec => []TransfersAreComplete
<1>1. IInv => TransfersAreComplete
  BY DEF IInv
<1> QED
  BY <1>1, LedgerInvariant, PTL

\* Snapshots split the ledger of their account at one of its own transactions,
\* and never move that split backwards.
THEOREM LedgerCutoffs == Spec => []CutoffsSplitTheLedger
<1>1. IInv => CutoffsSplitTheLedger
  BY DEF IInv, CutoffsSplitTheLedger
<1> QED
  BY <1>1, LedgerInvariant, PTL

\* A new transaction of an account follows every cutoff of the account.
LEMMA NextSequenceFollowsCutoffs ==
  ASSUME IInv, NEW account \in Accounts, NEW sequence \in NextSequences(account),
         NEW s \in snapshots, s.account = account
  PROVE  sequence > s.cutoff
<1>1. /\ sequence \in Sequences
      /\ \A t \in TransactionsOf(account) : t.sequence < sequence
      /\ s.cutoff \in 0..MaxSequence
  BY DEF NextSequences, IInv, TypeOK, SnapshotRow
<1>2. CASE s.cutoff = 0
  BY <1>1, <1>2, BoundAssumption DEF Sequences
<1>3. CASE s.cutoff > 0
  <2>1. PICK t \in TransactionsOf(account) : t.sequence = s.cutoff
    BY <1>3 DEF IInv, CutoffsNameTransactions
  <2> QED
    BY <1>1, <2>1, BoundAssumption DEF Sequences
<1> QED
  BY <1>1, <1>2, <1>3, BoundAssumption

\* Each transaction contributes exactly once: none is ever recorded at or below
\* a cutoff of its account, where reconstruction would skip it (docs/adr/0001:35).
THEOREM LedgerNothingPostedUnderACutoff == Spec => NothingPostedUnderACutoff
<1>1. ASSUME IInv, [Next]_vars
      PROVE  [\A t \in transactions' \ transactions, s \in snapshots :
                t.account = s.account => t.sequence > s.cutoff]_vars
  <2> SUFFICES ASSUME NEW t \in transactions' \ transactions, NEW s \in snapshots,
                      t.account = s.account
               PROVE  t.sequence > s.cutoff
    OBVIOUS
  <2>1. ASSUME NEW key \in Keys, NEW account \in Accounts, NEW effect \in Effects,
               NEW amount \in Amounts, PostManualTransaction(key, account, effect, amount)
        PROVE  t.sequence > s.cutoff
    <3>1. t.account = account /\ t.sequence \in NextSequences(account)
      BY <2>1 DEF PostManualTransaction, PostedRows
    <3> QED
      BY <1>1, <3>1, NextSequenceFollowsCutoffs
  <2>2. ASSUME NEW key \in Keys, NEW account \in Accounts, NEW balance \in SnapshotBalances,
               NEW cutoff \in 0..MaxSequence, CreateSnapshot(key, account, balance, cutoff)
        PROVE  t.sequence > s.cutoff
    BY <2>2 DEF CreateSnapshot, SnapshotRows
  <2>3. ASSUME NEW key \in Keys, NEW source \in Accounts, NEW destination \in Accounts,
               NEW amount \in Amounts, CreateTransfer(key, source, destination, amount)
        PROVE  t.sequence > s.cutoff
    <3>1. PICK id \in FreshIds, sent \in NextSequences(source),
               received \in NextSequences(destination) :
            TransferRows(key, source, destination, amount, id, sent, received)
      BY <2>3 DEF CreateTransfer
    <3> DEFINE outgoing == [id |-> id, kind |-> "transfer", account |-> source,
                            effect |-> TransferEffect(source, TRUE), amount |-> amount,
                            sequence |-> sent]
               incoming == [id |-> id, kind |-> "transfer", account |-> destination,
                            effect |-> TransferEffect(destination, FALSE), amount |-> amount,
                            sequence |-> received]
    <3>2. t = outgoing \/ t = incoming
      BY <3>1 DEF TransferRows
    <3>3. CASE t = outgoing
      <4>1. t.account = source /\ t.sequence = sent
        BY <3>3
      <4> QED
        BY <1>1, <4>1, NextSequenceFollowsCutoffs
    <3>4. CASE t = incoming
      <4>1. t.account = destination /\ t.sequence = received
        BY <3>4
      <4> QED
        BY <1>1, <4>1, NextSequenceFollowsCutoffs
    <3> QED
      BY <3>2, <3>3, <3>4
  <2>4. ASSUME NEW account \in Accounts, ArchiveAccount(account)
        PROVE  t.sequence > s.cutoff
    BY <2>4 DEF ArchiveAccount
  <2>5. CASE UNCHANGED vars
    BY <2>5 DEF vars
  <2> QED
    BY <1>1, <2>1, <2>2, <2>3, <2>4, <2>5 DEF Next
<1> QED
  BY <1>1, LedgerInvariant, PTL DEF Spec, NothingPostedUnderACutoff

\* Rows are append-only, and archiving an account freezes it for good.
THEOREM LedgerArchivedAccountsAreFrozen == Spec => ArchivedAccountsAreFrozen
<1> DEFINE Frozen ==
      /\ transactions \subseteq transactions' /\ snapshots \subseteq snapshots'
      /\ transfers \subseteq transfers' /\ mutations \subseteq mutations'
      /\ \A a \in Accounts : status[a] = "archived" =>
           /\ status'[a] = "archived"
           /\ TransactionsOf(a)' = TransactionsOf(a)
           /\ SnapshotsOf(a)' = SnapshotsOf(a)
<1>1. ASSUME IInv, [Next]_vars
      PROVE  [Frozen]_vars
  <2>1. ASSUME NEW key \in Keys, NEW account \in Accounts, NEW effect \in Effects,
               NEW amount \in Amounts, PostManualTransaction(key, account, effect, amount)
        PROVE  Frozen
    BY <2>1 DEF PostManualTransaction, PostedRows, Active, TransactionsOf, SnapshotsOf
  <2>2. ASSUME NEW key \in Keys, NEW account \in Accounts, NEW balance \in SnapshotBalances,
               NEW cutoff \in 0..MaxSequence, CreateSnapshot(key, account, balance, cutoff)
        PROVE  Frozen
    BY <2>2 DEF CreateSnapshot, SnapshotRows, Active, TransactionsOf, SnapshotsOf
  <2>3. ASSUME NEW key \in Keys, NEW source \in Accounts, NEW destination \in Accounts,
               NEW amount \in Amounts, CreateTransfer(key, source, destination, amount)
        PROVE  Frozen
    <3>1. PICK id \in FreshIds, sent \in NextSequences(source),
               received \in NextSequences(destination) :
            TransferRows(key, source, destination, amount, id, sent, received)
      BY <2>3 DEF CreateTransfer
    <3>2. \A a \in Accounts \ {source, destination} : TransactionsOf(a)' = TransactionsOf(a)
      <4> DEFINE outgoing == [id |-> id, kind |-> "transfer", account |-> source,
                              effect |-> TransferEffect(source, TRUE), amount |-> amount,
                              sequence |-> sent]
                 incoming == [id |-> id, kind |-> "transfer", account |-> destination,
                              effect |-> TransferEffect(destination, FALSE), amount |-> amount,
                              sequence |-> received]
      <4>1. /\ transactions \subseteq transactions'
            /\ \A t \in transactions' : t \in transactions \/ t = outgoing \/ t = incoming
        BY <3>1 DEF TransferRows
      <4>2. outgoing.account = source /\ incoming.account = destination
        OBVIOUS
      <4> HIDE DEF outgoing, incoming
      <4> QED
        BY <4>1, <4>2 DEF TransactionsOf
    <3> QED
      BY <2>3, <3>1, <3>2 DEF CreateTransfer, TransferRows, Active, SnapshotsOf
  <2>4. ASSUME NEW account \in Accounts, ArchiveAccount(account)
        PROVE  Frozen
    BY <1>1, <2>4 DEF ArchiveAccount, Active, TransactionsOf, SnapshotsOf, IInv, TypeOK
  <2> QED
    BY <1>1, <2>1, <2>2, <2>3, <2>4 DEF Next
<1> QED
  BY <1>1, LedgerInvariant, PTL DEF Spec, ArchivedAccountsAreFrozen

-----------------------------------------------------------------------------
(* Balances *)

LEMMA AmountsAreIntegers == \A amount \in Amounts : amount \in Int
BY AmountAssumption

\* What the rows of a set add to a balance.
Signed(rows) == SumFunction([t \in rows |-> SignedAmount(t.effect, t.amount)])

LEMMA SignedType ==
  ASSUME NEW rows, IsFiniteSet(rows), rows \subseteq TransactionRow
  PROVE  /\ [t \in rows |-> SignedAmount(t.effect, t.amount)] \in [rows -> Int]
         /\ Signed(rows) \in Int
<1>1. \A t \in rows : SignedAmount(t.effect, t.amount) \in Int
  <2>1. \A t \in rows : t.amount \in Int
    BY AmountsAreIntegers DEF TransactionRow
  <2> QED
    BY <2>1 DEF SignedAmount
<1>2. [t \in rows |-> SignedAmount(t.effect, t.amount)] \in [rows -> Int]
  BY <1>1
<1> QED
  BY <1>2, SumType DEF Signed

LEMMA SignedWith ==
  ASSUME NEW rows, IsFiniteSet(rows), rows \subseteq TransactionRow, NEW row \in TransactionRow, row \notin rows
  PROVE  Signed(rows \cup {row}) = Signed(rows) + SignedAmount(row.effect, row.amount)
<1> DEFINE f == [t \in rows |-> SignedAmount(t.effect, t.amount)]
           g == [t \in rows \cup {row} |-> SignedAmount(t.effect, t.amount)]
<1>1. IsFiniteSet(rows \cup {row}) /\ rows \cup {row} \subseteq TransactionRow
  BY FS_AddElement
<1>2. f \in [rows -> Int] /\ g \in [rows \cup {row} -> Int]
  BY <1>1, SignedType
<1>3. \A t \in rows : g[t] = f[t]
  OBVIOUS
<1>4. g[row] = SignedAmount(row.effect, row.amount)
  OBVIOUS
<1>5. Signed(rows) = SumFunction(f) /\ Signed(rows \cup {row}) = SumFunction(g)
  BY DEF Signed
<1> HIDE DEF f, g
<1>6. SumFunction(g) = SumFunction(f) + g[row]
  BY <1>2, <1>3, SumWith
<1> QED
  BY <1>4, <1>5, <1>6

LEMMA RunningIs ==
  ASSUME NEW account, NEW n
  PROVE  RunningBalance(account, n) = OpeningBalance(account) + Signed(AppliedUpTo(account, n))
BY DEF RunningBalance, Signed

\* A balance that reads the same rows is the same.
LEMMA SameRowsReadTheSame ==
  ASSUME NEW account, SnapshotsOf(account)' = SnapshotsOf(account)
  PROVE  /\ OpeningBalance(account)' = OpeningBalance(account)
         /\ CutoffSequence(account)' = CutoffSequence(account)
         /\ AppliedTransactions(account)' = AppliedTransactions(account) =>
              (Readable(account) => Readable(account)')
<1>1. LatestSnapshot(account)' = LatestSnapshot(account)
  BY DEF LatestSnapshot, Supersedes
<1>2. /\ OpeningBalance(account)' = OpeningBalance(account)
      /\ CutoffSequence(account)' = CutoffSequence(account)
  BY <1>1 DEF OpeningBalance, CutoffSequence
<1>3. SUFFICES ASSUME AppliedTransactions(account)' = AppliedTransactions(account), Readable(account)
               PROVE  Readable(account)'
  BY <1>2
<1>4. \A n : AppliedUpTo(account, n)' = AppliedUpTo(account, n)
  BY <1>3 DEF AppliedUpTo
<1>5. \A n : RunningBalance(account, n)' = RunningBalance(account, n)
  BY <1>2, <1>4 DEF RunningBalance, SignedAmount
<1> QED
  BY <1>2, <1>3, <1>5 DEF Readable, AcceptableBalance

\* An entry that follows all of its account's and was tried on its balance
\* leaves the balance readable.
LEMMA TriedEntryIsReadable ==
  ASSUME IInv, IsFiniteSet(transactions), NEW account \in Accounts, NEW row \in TransactionRow,
         row.account = account, \A t \in TransactionsOf(account) : t.sequence < row.sequence,
         TransactionsOf(account)' = TransactionsOf(account) \cup {row},
         SnapshotsOf(account)' = SnapshotsOf(account),
         ValidProspectiveEffect(account, row.effect, row.amount)
  PROVE  Readable(account)'
<1>1. /\ OpeningBalance(account)' = OpeningBalance(account)
      /\ CutoffSequence(account)' = CutoffSequence(account)
      /\ AppliedTransactions(account)' = AppliedTransactions(account) =>
           (Readable(account) => Readable(account)')
  BY SameRowsReadTheSame
<1>2. Readable(account) /\ AcceptableBalance(account, CurrentBalance(account) + SignedAmount(row.effect, row.amount))
  BY DEF ValidProspectiveEffect
<1>3. CASE ~ row.sequence > CutoffSequence(account)
  <2>1. AppliedTransactions(account)' = AppliedTransactions(account)
    BY <1>1, <1>3 DEF AppliedTransactions
  <2> QED
    BY <1>1, <1>2, <2>1
<1>4. CASE row.sequence > CutoffSequence(account)
  <2> DEFINE applied == AppliedTransactions(account)
  <2>1. AppliedTransactions(account)' = applied \cup {row}
    BY <1>1, <1>4 DEF AppliedTransactions
  <2>2. /\ applied \subseteq TransactionRow /\ row \notin applied
        /\ \A t \in applied : t.sequence < row.sequence /\ t.sequence \in Nat /\ t.sequence <= MaxSequence
        /\ row.sequence \in Nat
    <3>1. applied \subseteq TransactionsOf(account) /\ applied \subseteq TransactionRow
      BY DEF AppliedTransactions, TransactionsOf, IInv, TypeOK
    <3>2. \A t \in TransactionRow : t.sequence \in Nat /\ t.sequence <= MaxSequence
      BY BoundAssumption DEF TransactionRow, Sequences
    <3> QED
      BY <3>1, <3>2
  <2>3. IsFiniteSet(applied)
    BY FS_Subset DEF AppliedTransactions, TransactionsOf
  <2>4. AppliedUpTo(account, MaxSequence) = applied
    BY <2>2 DEF AppliedUpTo
  <2>5. OpeningBalance(account) \in Int
    BY <1>2, BalanceAssumption DEF Readable, AcceptableBalance
  <2>6. RunningBalance(account, row.sequence)' = CurrentBalance(account) + SignedAmount(row.effect, row.amount)
    <3>1. AppliedUpTo(account, row.sequence)' = applied \cup {row}
      BY <2>1, <2>2 DEF AppliedUpTo
    <3>2. Signed(AppliedUpTo(account, row.sequence))' = Signed(applied \cup {row})
      BY <3>1 DEF Signed, SignedAmount
    <3>3. RunningBalance(account, row.sequence)' = OpeningBalance(account)' + Signed(AppliedUpTo(account, row.sequence))'
      BY DEF RunningBalance, Signed
    <3>4. CurrentBalance(account) = OpeningBalance(account) + Signed(applied)
      BY <2>4, RunningIs DEF CurrentBalance
    <3>5. Signed(applied \cup {row}) = Signed(applied) + SignedAmount(row.effect, row.amount)
      BY <2>2, <2>3, SignedWith
    <3>6. Signed(applied) \in Int /\ SignedAmount(row.effect, row.amount) \in Int
      <4>1. row.amount \in Int
        BY AmountsAreIntegers DEF TransactionRow
      <4> QED
        BY <2>2, <2>3, <4>1, SignedType DEF SignedAmount
    <3> HIDE DEF applied
    <3> QED
      BY <1>1, <2>5, <3>2, <3>3, <3>4, <3>5, <3>6
  <2>7. ASSUME NEW t \in applied
        PROVE  RunningBalance(account, t.sequence)' = RunningBalance(account, t.sequence)
    <3>1. AppliedUpTo(account, t.sequence)' = AppliedUpTo(account, t.sequence)
      BY <2>1, <2>2 DEF AppliedUpTo
    <3> QED
      BY <1>1, <3>1 DEF RunningBalance, SignedAmount
  <2>8. \A t \in AppliedTransactions(account)' : AcceptableBalance(account, RunningBalance(account, t.sequence)')
    BY <1>2, <2>1, <2>6, <2>7 DEF Readable
  <2> QED
    BY <1>1, <1>2, <2>8 DEF Readable, AcceptableBalance
<1> QED
  BY <1>3, <1>4

LEMMA RowsAreFinite == IsFiniteSet(transactions) /\ [Next]_vars => IsFiniteSet(transactions')
<1> SUFFICES ASSUME IsFiniteSet(transactions), [Next]_vars PROVE IsFiniteSet(transactions')
  OBVIOUS
<1>1. ASSUME NEW t, NEW u, transactions' = transactions \cup {t, u} PROVE IsFiniteSet(transactions')
  <2>1. transactions' = (transactions \cup {t}) \cup {u}
    BY <1>1
  <2> QED
    BY <2>1, FS_AddElement
<1>2. ASSUME NEW key \in Keys, NEW account \in Accounts, NEW effect \in Effects,
             NEW amount \in Amounts, PostManualTransaction(key, account, effect, amount)
      PROVE  \E t, u : transactions' = transactions \cup {t, u}
  <2>1. \E t : transactions' = transactions \cup {t}
    BY <1>2 DEF PostManualTransaction, PostedRows
  <2> QED
    BY <2>1
<1>3. ASSUME NEW key \in Keys, NEW source \in Accounts, NEW destination \in Accounts,
             NEW amount \in Amounts, CreateTransfer(key, source, destination, amount)
      PROVE  \E t, u : transactions' = transactions \cup {t, u}
  BY <1>3 DEF CreateTransfer, TransferRows
<1>4. ASSUME NEW key \in Keys, NEW account \in Accounts, NEW balance \in SnapshotBalances,
             NEW cutoff \in 0..MaxSequence, CreateSnapshot(key, account, balance, cutoff)
      PROVE  transactions' = transactions
  BY <1>4 DEF CreateSnapshot, SnapshotRows
<1>5. ASSUME NEW account \in Accounts, ArchiveAccount(account) PROVE transactions' = transactions
  BY <1>5 DEF ArchiveAccount
<1> QED
  BY <1>1, <1>2, <1>3, <1>4, <1>5 DEF Next, vars

\* Posting to the ledger never makes a readable balance unreadable, only a new
\* snapshot can: an entry is tried on the balance as it is when the entry is
\* written (ValidateProspectiveEffect), and comes after all of its account's.
THEOREM LedgerBalancesStayReadable == Spec => OnlySnapshotsBreakBalances
<1> DEFINE Kept == \A a \in Accounts :
                     Readable(a) /\ ~ Readable(a)' => SnapshotsOf(a)' # SnapshotsOf(a)
<1>1. ASSUME IInv, IsFiniteSet(transactions), [Next]_vars
      PROVE  [Kept]_vars
  <2> HIDE DEF Kept
  <2> SUFFICES ASSUME Next PROVE Kept
    BY <1>1
  <2> SUFFICES ASSUME NEW a \in Accounts, Readable(a), SnapshotsOf(a)' = SnapshotsOf(a)
               PROVE  Readable(a)'
    BY DEF Kept
  <2>1. ASSUME TransactionsOf(a)' = TransactionsOf(a) PROVE Readable(a)'
    <3>1. AppliedTransactions(a)' = AppliedTransactions(a)
      BY <2>1, SameRowsReadTheSame DEF AppliedTransactions
    <3> QED
      BY <3>1, SameRowsReadTheSame
  <2>2. ASSUME NEW key \in Keys, NEW account \in Accounts, NEW effect \in Effects,
               NEW amount \in Amounts, PostManualTransaction(key, account, effect, amount)
        PROVE  Readable(a)'
    <3>1. PICK id \in FreshIds, sequence \in NextSequences(account) :
            PostedRows(key, account, effect, amount, id, sequence)
      BY <2>2 DEF PostManualTransaction
    <3> DEFINE row == [id |-> id, kind |-> "manual", account |-> account, effect |-> effect,
                       amount |-> amount, sequence |-> sequence]
    <3>2. /\ id \in Ids /\ sequence \in Sequences
          /\ \A t \in TransactionsOf(account) : t.sequence < sequence
      BY DEF FreshIds, NextSequences
    <3>3. transactions' = transactions \cup {row}
      BY <3>1 DEF PostedRows
    <3>4. row \in TransactionRow /\ row.account = account /\ row.effect = effect /\ row.amount = amount
          /\ row.sequence = sequence
      BY <3>2 DEF TransactionRow, Kinds
    <3>5. ValidProspectiveEffect(account, effect, amount)
      BY <2>2 DEF PostManualTransaction
    <3> HIDE DEF row
    <3>6. CASE a = account
      <4>1. TransactionsOf(a)' = TransactionsOf(a) \cup {row}
        BY <3>3, <3>4, <3>6 DEF TransactionsOf
      <4> QED
        BY <1>1, <3>2, <3>4, <3>5, <3>6, <4>1, TriedEntryIsReadable
    <3>7. CASE a # account
      <4>1. TransactionsOf(a)' = TransactionsOf(a)
        BY <3>3, <3>4, <3>7 DEF TransactionsOf
      <4> QED
        BY <2>1, <4>1
    <3> QED
      BY <3>6, <3>7
  <2>3. ASSUME NEW key \in Keys, NEW source \in Accounts, NEW destination \in Accounts,
               NEW amount \in Amounts, CreateTransfer(key, source, destination, amount)
        PROVE  Readable(a)'
    <3>1. PICK id \in FreshIds, sent \in NextSequences(source), received \in NextSequences(destination) :
            TransferRows(key, source, destination, amount, id, sent, received)
      BY <2>3 DEF CreateTransfer
    <3> DEFINE outgoing == [id |-> id, kind |-> "transfer", account |-> source,
                            effect |-> TransferEffect(source, TRUE), amount |-> amount,
                            sequence |-> sent]
               incoming == [id |-> id, kind |-> "transfer", account |-> destination,
                            effect |-> TransferEffect(destination, FALSE), amount |-> amount,
                            sequence |-> received]
    <3>2. /\ id \in Ids /\ sent \in Sequences /\ received \in Sequences /\ source # destination
          /\ \A t \in TransactionsOf(source) : t.sequence < sent
          /\ \A t \in TransactionsOf(destination) : t.sequence < received
      BY <2>3 DEF FreshIds, NextSequences, CreateTransfer
    <3>3. /\ transactions \subseteq transactions'
          /\ outgoing \in transactions' /\ incoming \in transactions'
          /\ \A t \in transactions' : t \in transactions \/ t = outgoing \/ t = incoming
      BY <3>1 DEF TransferRows
    <3>4. /\ outgoing \in TransactionRow /\ outgoing.account = source /\ outgoing.amount = amount
          /\ outgoing.effect = TransferEffect(source, TRUE) /\ outgoing.sequence = sent
      BY <3>2, TransferEffectType DEF TransactionRow, Kinds
    <3>5. /\ incoming \in TransactionRow /\ incoming.account = destination /\ incoming.amount = amount
          /\ incoming.effect = TransferEffect(destination, FALSE) /\ incoming.sequence = received
      BY <3>2, TransferEffectType DEF TransactionRow, Kinds
    <3>6. /\ ValidProspectiveEffect(source, TransferEffect(source, TRUE), amount)
          /\ ValidProspectiveEffect(destination, TransferEffect(destination, FALSE), amount)
      BY <2>3 DEF CreateTransfer
    <3> HIDE DEF outgoing, incoming
    <3>7. CASE a = source
      <4>1. TransactionsOf(a)' = TransactionsOf(a) \cup {outgoing}
        BY <3>2, <3>3, <3>4, <3>5, <3>7 DEF TransactionsOf
      <4> QED
        BY <1>1, <3>2, <3>4, <3>6, <3>7, <4>1, TriedEntryIsReadable
    <3>8. CASE a = destination
      <4>1. TransactionsOf(a)' = TransactionsOf(a) \cup {incoming}
        BY <3>2, <3>3, <3>4, <3>5, <3>8 DEF TransactionsOf
      <4> QED
        BY <1>1, <3>2, <3>5, <3>6, <3>8, <4>1, TriedEntryIsReadable
    <3>9. CASE a \notin {source, destination}
      <4>1. TransactionsOf(a)' = TransactionsOf(a)
        BY <3>3, <3>4, <3>5, <3>9 DEF TransactionsOf
      <4> QED
        BY <2>1, <4>1
    <3> QED
      BY <3>7, <3>8, <3>9
  <2>4. ASSUME NEW key \in Keys, NEW account \in Accounts, NEW balance \in SnapshotBalances,
               NEW cutoff \in 0..MaxSequence, CreateSnapshot(key, account, balance, cutoff)
        PROVE  Readable(a)'
    BY <2>1, <2>4 DEF CreateSnapshot, SnapshotRows, TransactionsOf
  <2>5. ASSUME NEW account \in Accounts, ArchiveAccount(account)
        PROVE  Readable(a)'
    BY <2>1, <2>5 DEF ArchiveAccount, TransactionsOf
  <2> QED
    BY <2>2, <2>3, <2>4, <2>5 DEF Next
<1>2. Init => IInv /\ IsFiniteSet(transactions)
  BY InitEstablishesIInv, FS_EmptySet DEF Init
<1>3. (IInv /\ IsFiniteSet(transactions)) /\ [Next]_vars => (IInv /\ IsFiniteSet(transactions))' /\ [Kept]_vars
  BY <1>1, NextPreservesIInv, RowsAreFinite
<1> QED
  BY <1>2, <1>3, PTL DEF Spec, OnlySnapshotsBreakBalances

-----------------------------------------------------------------------------
(***************************************************************************)
(* Theorems of LedgerSessions, for every set of sessions and every         *)
(* workload.                                                               *)
(*                                                                         *)
(* A session's check rebuilds a balance by folding rows; the step of       *)
(* Ledger that its commit must be speaks of sums.  The first part shows    *)
(* that the fold is the sum wherever every step of it is acceptable.       *)
(*                                                                         *)
(* The invariant SInv then follows one session from its locks to its       *)
(* commit.  Between the two it holds every row that its check read and its *)
(* rows are about (LockOK), so that what others commit changes neither the *)
(* outcome of the check (CheckOK) nor the order of the numbers of one      *)
(* account (NumbersOK).  Its claim keeps its key out of the tables and of  *)
(* other sessions (ClaimOK, Apart), and its rows are those of one operation*)
(* (EntriesOK, OthersOK): a commit has all that the guard of the operation *)
(* asks for.  ReadInv follows readers, which hold no lock: what they have  *)
(* seen has a balance that was current when they saw it.                   *)
(***************************************************************************)

USE DEF Sessions

-----------------------------------------------------------------------------
(* Reconstruction: rebuilding a balance row by row gives the sum of the rows *)
(* if the sum up to each of them is acceptable, and an error otherwise.      *)

\* Rows of which no two have one number.
Numbered(rows) ==
  /\ rows \subseteq TransactionRow
  /\ IsFiniteSet(rows)
  /\ \A t, u \in rows : t.sequence = u.sequence => t = u

UpTo(rows, t) == {u \in rows : u.sequence <= t.sequence}

Sound(account, opening, rows) ==
  /\ AcceptableBalance(account, opening)
  /\ \A t \in rows : AcceptableBalance(account, opening + Signed(UpTo(rows, t)))

BalanceOver(account, opening, rows) ==
  IF Sound(account, opening, rows) THEN opening + Signed(rows) ELSE Unreadable

LEMMA RowsHaveNumbers ==
  \A t \in TransactionRow : /\ t.sequence \in Nat /\ t.sequence <= MaxSequence
                              /\ SignedAmount(t.effect, t.amount) \in Int
<1> SUFFICES ASSUME NEW t \in TransactionRow
             PROVE  /\ t.sequence \in Nat /\ t.sequence <= MaxSequence
                    /\ SignedAmount(t.effect, t.amount) \in Int
  OBVIOUS
<1>1. t.sequence \in 1..MaxSequence /\ t.amount \in Amounts
  BY DEF TransactionRow, Sequences
<1>2. t.amount \in Int
  BY <1>1, AmountsAreIntegers
<1>3. t.sequence \in Nat /\ t.sequence <= MaxSequence
  BY <1>1, LiabilityAssumption, AmountAssumption, BalanceAssumption, BoundAssumption
<1> QED
  BY <1>2, <1>3 DEF SignedAmount

LEMMA SomeRows ==
  ASSUME NEW rows, Numbered(rows), NEW some, some \subseteq rows
  PROVE  Numbered(some)
BY FS_Subset DEF Numbered

LEMMA NumberedAreSigned ==
  ASSUME NEW rows, Numbered(rows)
  PROVE  /\ [t \in rows |-> SignedAmount(t.effect, t.amount)] \in [rows -> Int]
         /\ Signed(rows) \in Int
<1>1. [t \in rows |-> SignedAmount(t.effect, t.amount)] \in [rows -> Int]
  BY RowsHaveNumbers DEF Numbered
<1> QED
  BY <1>1, SumType DEF Signed, Numbered

LEMMA NumberedWith ==
  ASSUME NEW rows, NEW row, row \notin rows, Numbered(rows \cup {row})
  PROVE  Signed(rows \cup {row}) = Signed(rows) + SignedAmount(row.effect, row.amount)
<1> DEFINE f == [t \in rows |-> SignedAmount(t.effect, t.amount)]
           g == [t \in rows \cup {row} |-> SignedAmount(t.effect, t.amount)]
<1>1. Numbered(rows)
  BY SomeRows
<1>2. f \in [rows -> Int] /\ g \in [rows \cup {row} -> Int]
  BY <1>1, NumberedAreSigned
<1>3. \A t \in rows : g[t] = f[t]
  OBVIOUS
<1>4. g[row] = SignedAmount(row.effect, row.amount)
  OBVIOUS
<1>5. Signed(rows) = SumFunction(f) /\ Signed(rows \cup {row}) = SumFunction(g)
  BY DEF Signed
<1>6. IsFiniteSet(rows)
  BY <1>1 DEF Numbered
<1> HIDE DEF f, g
<1>7. SumFunction(g) = SumFunction(f) + g[row]
  BY <1>2, <1>3, <1>6, SumWith
<1> QED
  BY <1>4, <1>5, <1>7

LEMMA LastRow ==
  ASSUME NEW rows, Numbered(rows), rows # {}
  PROVE  /\ LastOf(rows) \in rows
         /\ \A u \in rows \ {LastOf(rows)} : u.sequence < LastOf(rows).sequence
<1> DEFINE left == {MaxSequence - t.sequence : t \in rows}
<1>1. \A t \in rows : t.sequence \in Nat /\ t.sequence <= MaxSequence /\ MaxSequence - t.sequence \in Nat
  BY RowsHaveNumbers, LiabilityAssumption, AmountAssumption, BalanceAssumption, BoundAssumption DEF Numbered
<1>2. left \in SUBSET Nat /\ left # {}
  BY <1>1
<1>3. PICK least \in left : \A n \in left : least <= n
  <2> HIDE DEF left
  <2> QED
    BY <1>2, LeastNumber
<1>4. PICK t \in rows : least = MaxSequence - t.sequence
  OBVIOUS
<1>5. ASSUME NEW u \in rows
      PROVE  u.sequence <= t.sequence
  <2>1. MaxSequence - t.sequence <= MaxSequence - u.sequence
    BY <1>3, <1>4
  <2>2. /\ u.sequence \in Int /\ t.sequence \in Int
        /\ MaxSequence \in Int
    BY <1>1, LiabilityAssumption, AmountAssumption, BalanceAssumption, BoundAssumption
  <2> QED
    BY <2>1, <2>2
<1>6. LastOf(rows) \in rows /\ \A u \in rows : u.sequence <= LastOf(rows).sequence
  BY <1>5 DEF LastOf
<1>7. \A u \in rows \ {LastOf(rows)} : u.sequence # LastOf(rows).sequence
  BY <1>6 DEF Numbered
<1> QED
  BY <1>1, <1>6, <1>7

\* The last row is applied to the balance over the rows before it.
LEMMA LastRowIsApplied ==
  ASSUME NEW account, NEW opening, NEW rows, Numbered(rows), rows # {}
  PROVE  BalanceOver(account, opening, rows)
           = ApplyEffect(account, BalanceOver(account, opening, rows \ {LastOf(rows)}), LastOf(rows))
<1> DEFINE last == LastOf(rows)
           before == rows \ {last}
           added == SignedAmount(last.effect, last.amount)
<1>1. last \in rows /\ \A u \in before : u.sequence < last.sequence
  BY LastRow
<1>2. \A u \in rows : u.sequence \in Nat
  BY RowsHaveNumbers DEF Numbered
<1>3. rows = before \cup {last} /\ last \notin before
  BY <1>1
<1>4. Numbered(before)
  BY SomeRows
<1>5. Signed(rows) = Signed(before) + added
  <2> HIDE DEF before, last
  <2> QED
    BY <1>3, NumberedWith DEF added
<1>6. Signed(before) \in Int /\ added \in Int
  BY <1>1, <1>4, NumberedAreSigned, RowsHaveNumbers DEF Numbered
<1>7. UpTo(rows, last) = rows
  BY <1>1, <1>2 DEF UpTo
<1>8. \A u \in before : UpTo(rows, u) = UpTo(before, u)
  BY <1>1, <1>2 DEF UpTo
<1> HIDE DEF last, before, added
<1>9. Sound(account, opening, rows)
        <=> Sound(account, opening, before) /\ AcceptableBalance(account, opening + Signed(rows))
  BY <1>3, <1>7, <1>8 DEF Sound
<1>10. Sound(account, opening, before) => opening \in Int
  BY LiabilityAssumption, AmountAssumption, BalanceAssumption, BoundAssumption DEF Sound, AcceptableBalance
<1>11. CASE Sound(account, opening, before)
  <2>1. BalanceOver(account, opening, before) = opening + Signed(before)
    BY <1>11 DEF BalanceOver
  <2>2. opening + Signed(before) # Unreadable
    BY <1>6, <1>10, <1>11, NullAssumption
  <2>3. opening + Signed(before) + added = opening + Signed(rows)
    BY <1>5, <1>6, <1>10, <1>11
  <2>4. ApplyEffect(account, opening + Signed(before), last)
          = IF AcceptableBalance(account, opening + Signed(rows)) THEN opening + Signed(rows) ELSE Unreadable
    BY <2>2, <2>3 DEF ApplyEffect, added
  <2> QED
    BY <1>9, <1>11, <2>1, <2>4 DEF BalanceOver, before, last
<1>12. CASE ~ Sound(account, opening, before)
  <2>1. BalanceOver(account, opening, before) = Unreadable /\ BalanceOver(account, opening, rows) = Unreadable
    BY <1>9, <1>12 DEF BalanceOver
  <2> QED
    BY <2>1 DEF ApplyEffect, before, last
<1> QED
  BY <1>11, <1>12

\* g is the function that ReconstructBalance over the rows S is defined by.
Rebuilds(account, opening, S, g) ==
  g = [s \in SUBSET S |->
         IF s = {} THEN IF AcceptableBalance(account, opening) THEN opening ELSE Unreadable
         ELSE ApplyEffect(account, g[s \ {LastOf(s)}], LastOf(s))]

LEMMA RebuiltIsChosen ==
  ASSUME NEW account, NEW opening, NEW S
  PROVE  ReconstructBalance(account, opening, S) = (CHOOSE g : Rebuilds(account, opening, S, g))[S]
BY DEF ReconstructBalance, MapThenFoldSet, Rebuilds

LEMMA NoRows ==
  ASSUME NEW account, NEW opening
  PROVE  BalanceOver(account, opening, {})
           = IF AcceptableBalance(account, opening) THEN opening ELSE Unreadable
<1>1. Signed({}) = 0
  BY SumOfNone DEF Signed, SumFunction
<1>2. AcceptableBalance(account, opening) => opening + 0 = opening
  BY LiabilityAssumption, AmountAssumption, BalanceAssumption, BoundAssumption DEF AcceptableBalance
<1> QED
  BY <1>1, <1>2 DEF BalanceOver, Sound

LEMMA Rebuilt ==
  ASSUME NEW account, NEW opening, NEW S, Numbered(S)
  PROVE  ReconstructBalance(account, opening, S) = BalanceOver(account, opening, S)
<1> DEFINE Over(s) == BalanceOver(account, opening, s)
           G == [s \in SUBSET S |-> Over(s)]
<1>1. \A s \in SUBSET S : s # {} => LastOf(s) \in s /\ s \ {LastOf(s)} \in SUBSET S
  BY SomeRows, LastRow
<1>2. ASSUME NEW s \in SUBSET S
      PROVE  Over(s) = IF s = {} THEN IF AcceptableBalance(account, opening) THEN opening ELSE Unreadable
                       ELSE ApplyEffect(account, Over(s \ {LastOf(s)}), LastOf(s))
  BY SomeRows, NoRows, LastRowIsApplied
<1>3. Rebuilds(account, opening, S, G)
  <2>1. \A s \in SUBSET S : s # {} => G[s \ {LastOf(s)}] = Over(s \ {LastOf(s)})
    BY <1>1
  <2> HIDE DEF Over
  <2>2. G = [s \in SUBSET S |->
               IF s = {} THEN IF AcceptableBalance(account, opening) THEN opening ELSE Unreadable
               ELSE ApplyEffect(account, G[s \ {LastOf(s)}], LastOf(s))]
    BY <1>2, <2>1
  <2> QED
    BY <2>2 DEF Rebuilds
<1> DEFINE g == CHOOSE h : Rebuilds(account, opening, S, h)
<1>4. Rebuilds(account, opening, S, g)
  <2> HIDE DEF G
  <2> QED
    BY <1>3, Zenon
<1> HIDE DEF g, G
<1>5. ASSUME NEW s \in SUBSET S
      PROVE  g[s] = IF s = {} THEN IF AcceptableBalance(account, opening) THEN opening ELSE Unreadable
                    ELSE ApplyEffect(account, g[s \ {LastOf(s)}], LastOf(s))
  BY <1>4 DEF Rebuilds
<1> DEFINE Apart == {s \in SUBSET S : g[s] # Over(s)}
<1>6. Apart = {}
  <2>1. SUFFICES ASSUME Apart # {}
                 PROVE  FALSE
    OBVIOUS
  <2>2. PICK s \in Apart : \A t \in Apart : t \subseteq s => t = s
    <3>1. Apart \in SUBSET SUBSET S
      OBVIOUS
    <3>2. IsFiniteSet(S)
      BY DEF Numbered
    <3> HIDE DEF Apart
    <3> QED
      BY <2>1, <3>1, <3>2, MinimalSet
  <2>3. s \in SUBSET S /\ g[s] # Over(s)
    OBVIOUS
  <2>4. s # {}
    BY <1>2, <1>5, <2>3
  <2>5. s \ {LastOf(s)} \notin Apart
    BY <1>1, <2>2, <2>3, <2>4
  <2>6. g[s \ {LastOf(s)}] = Over(s \ {LastOf(s)})
    BY <1>1, <2>3, <2>4, <2>5
  <2> HIDE DEF Over, Apart
  <2> QED
    BY <1>2, <1>5, <2>3, <2>4, <2>6
<1>7. g[S] = Over(S)
  BY <1>6
<1> QED
  BY <1>7, RebuiltIsChosen DEF g

\* The balance that is rebuilt is that of Ledger.
LEMMA BalanceIs ==
  ASSUME TypeOK, IsFiniteSet(transactions), SequencesAreUnique, NEW account
  PROVE  /\ BalanceOf(account) = IF Readable(account) THEN CurrentBalance(account) ELSE Unreadable
         /\ Readable(account) => CurrentBalance(account) \in Int
<1> DEFINE applied == AppliedTransactions(account)
           opening == OpeningBalance(account)
<1>1. Numbered(applied)
  BY FS_Subset DEF AppliedTransactions, TransactionsOf, TypeOK, SequencesAreUnique, Numbered
<1>2. BalanceOf(account) = BalanceOver(account, opening, applied)
  BY <1>1, Rebuilt DEF BalanceOf
<1>3. \A f : SumFunction(f) = SumFunction(f)
  BY DEF SumFunction, SumFunctionOnSet, FoldFunctionOnSet, MapThenFoldSet,
         SumFunction, SumFunctionOnSet, FoldFunctionOnSet, MapThenFoldSet
<1>4. \A n : RunningBalance(account, n) = opening + Signed(AppliedUpTo(account, n))
  BY <1>3 DEF RunningBalance, Signed
<1>5. \A t \in applied : AppliedUpTo(account, t.sequence) = UpTo(applied, t)
  BY DEF AppliedUpTo, UpTo
<1>6. AppliedUpTo(account, MaxSequence) = applied
  BY <1>1, RowsHaveNumbers DEF AppliedUpTo, Numbered
<1>7. CurrentBalance(account) = opening + Signed(applied)
  BY <1>4, <1>6 DEF CurrentBalance
<1>8. Readable(account) <=> Sound(account, opening, applied)
  <2> HIDE DEF opening
  <2> QED
    BY <1>4, <1>5 DEF Readable, Sound, opening
<1>9. Readable(account) => opening \in Int
  BY LiabilityAssumption, AmountAssumption, BalanceAssumption, BoundAssumption DEF Readable, AcceptableBalance
<1>10. Signed(applied) \in Int
  BY <1>1, NumberedAreSigned
<1> HIDE DEF applied, opening
<1> QED
  BY <1>2, <1>7, <1>8, <1>9, <1>10 DEF BalanceOver

LEMMA ValidEffectIs ==
  ASSUME TypeOK, IsFiniteSet(transactions), SequencesAreUnique, NEW account, NEW effect, NEW amount,
         ValidEffect(account, effect, amount)
  PROVE  ValidProspectiveEffect(account, effect, amount)
<1> DEFINE balance == BalanceOf(account)
           entry == [effect |-> effect, amount |-> amount]
<1>1. ApplyEffect(account, balance, entry) # Unreadable
  BY DEF ValidEffect
<1>2. /\ balance # Unreadable
      /\ AcceptableBalance(account, balance + SignedAmount(entry.effect, entry.amount))
  <2> HIDE DEF balance, entry
  <2> QED
    BY <1>1 DEF ApplyEffect
<1>3. Readable(account) /\ balance = CurrentBalance(account)
  BY <1>2, BalanceIs
<1> HIDE DEF balance
<1> QED
  BY <1>2, <1>3 DEF ValidProspectiveEffect

-----------------------------------------------------------------------------
(* The invariant of the sessions *)

Keyed(s) == request[s].operation \in {"post_transaction", "create_snapshot", "create_transfer"}

ClaimRow(s) ==
  [operation |-> request[s].operation, key |-> request[s].key,
   fingerprint |-> request[s].fingerprint, resource |-> s]

\* A session has claimed its key and not committed yet.
Claiming(s) == writes[s].mutations # {}

Archiving(s) == pc[s] = "commit" /\ request[s].operation = "archive"

\* A session that inserts rows, or has inserted all of them.
Inserting(s, operation) == pc[s] = "insert" /\ request[s].operation = operation
Inserted(s, operation) == pc[s] = "commit" /\ Claiming(s) /\ request[s].operation = operation

PcOK(s) ==
  /\ pc[s] \in {"idle", "lock", "claim", "check", "insert", "commit", "read", "done", "rejected", "failed"}
  /\ pc[s] \in {"claim", "insert"} => Keyed(s)
  /\ pc[s] \in {"lock", "check", "commit"} => request[s].operation # "read_balance"
  /\ pc[s] = "read" => request[s].operation = "read_balance"
  /\ InTransaction(s) => Admissible(request[s])

\* From its claim on a session holds every row that it reads or changes.
LockOK(s) ==
  pc[s] \in {"claim", "check", "insert", "commit"} => \A a \in LockSet(request[s]) : lock[a] = s

ClaimOK(s) ==
  /\ writes[s].mutations = {} \/ writes[s].mutations = {ClaimRow(s)}
  /\ Claiming(s) => /\ Keyed(s) /\ pc[s] \in {"check", "insert", "commit"}
                    /\ Unclaimed(request[s].operation, request[s].key)
                    /\ answer[s] = s
  /\ pc[s] \in {"check", "insert"} /\ Keyed(s) => Claiming(s)

\* What a check found still holds.
CheckOK(s) ==
  pc[s] = "insert" \/ (pc[s] = "commit" /\ Claiming(s)) \/ Archiving(s) => Passes(s)

Entry(s, kind, account, effect, n) ==
  [id |-> s, kind |-> kind, account |-> account, effect |-> effect, amount |-> Amount(s), sequence |-> n]

Leg(s, account, isSource, n) == Entry(s, "transfer", account, TransferEffect(account, isSource), n)

Link(s) == [id |-> s, source |-> Source(s), destination |-> Destination(s), amount |-> Amount(s)]

Observation(s, n) ==
  [id |-> s, account |-> Account(s), balance |-> request[s].fingerprint.balance,
   cutoff |-> request[s].fingerprint.cutoff, order |-> n]

EntriesOK(s) ==
  IF Inserted(s, "post_transaction")
    THEN \E n \in Sequences :
           writes[s].transactions = {Entry(s, "manual", Account(s), request[s].fingerprint.effect, n)}
  ELSE IF Inserted(s, "create_transfer")
    THEN \E m, n \in Sequences :
           m < n /\ writes[s].transactions = {Leg(s, Source(s), TRUE, m), Leg(s, Destination(s), FALSE, n)}
  ELSE \/ writes[s].transactions = {}
       \/ /\ Inserting(s, "create_transfer") /\ writes[s].transfers # {}
          /\ \E m \in Sequences : writes[s].transactions = {Leg(s, Source(s), TRUE, m)}

OthersOK(s) ==
  /\ writes[s].archived = IF Archiving(s) THEN {Account(s)} ELSE {}
  /\ IF Inserted(s, "create_snapshot")
       THEN \E n \in Orders : writes[s].snapshots = {Observation(s, n)}
       ELSE writes[s].snapshots = {}
  /\ IF Inserted(s, "create_transfer") THEN writes[s].transfers = {Link(s)}
     ELSE \/ writes[s].transfers = {}
          \/ Inserting(s, "create_transfer") /\ writes[s].transfers = {Link(s)}

\* Numbers are drawn once, and after those of the rows of the same account.
NumbersOK(s) ==
  /\ \A t \in writes[s].transactions :
       /\ t.sequence < nextSequence
       /\ \A u \in transactions : u.sequence # t.sequence /\ (u.account = t.account => u.sequence < t.sequence)
  /\ \A t \in writes[s].snapshots :
       /\ t.order < nextOrder
       /\ \A u \in snapshots : u.order # t.order /\ (u.account = t.account => u.order < t.order)

\* The id of an attempt names nothing before it commits.
FreshOK(s) == pc[s] # "done" => \A m \in mutations : m.resource # s

\* An answer rests on the claim of its key.
AnswerOK(s) ==
  Keyed(s) /\ (pc[s] = "done" \/ (pc[s] = "commit" /\ ~ Claiming(s))) =>
    \E m \in mutations : /\ SameKey(m, request[s])
                         /\ m.fingerprint = request[s].fingerprint /\ m.resource = answer[s]

\* The balance of what a reader has seen.
Viewed(s) ==
  LET rows == view[s].snapshots
      opening == IF rows = {} THEN 0 ELSE Latest(rows).balance
      cutoff == IF rows = {} THEN 0 ELSE Latest(rows).cutoff
  IN ReconstructBalance(Account(s), opening, {t \in VisibleTransactions(s) : t.sequence > cutoff})

ReadOK(s) ==
  /\ pc[s] = "idle" => ~ view[s].taken
  /\ pc[s] = "read" => /\ BalanceOf(Account(s)) \in observed[s]
                       /\ view[s].taken => Viewed(s) \in observed[s]
  /\ pc[s] = "done" /\ request[s].operation = "read_balance" => answer[s] \in observed[s]

SessionOK(s) ==
  /\ PcOK(s) /\ LockOK(s) /\ ClaimOK(s) /\ CheckOK(s)
  /\ EntriesOK(s) /\ OthersOK(s) /\ NumbersOK(s)
  /\ FreshOK(s) /\ AnswerOK(s)

\* Two sessions have claimed no key in common and drawn no number in common.
Apart(s, o) ==
  /\ Claiming(s) /\ Claiming(o) => ~ SameKey(request[s], request[o])
  /\ \A t \in writes[s].transactions, u \in writes[o].transactions : t.sequence # u.sequence
  /\ \A t \in writes[s].snapshots, u \in writes[o].snapshots : t.order # u.order

RowsOK ==
  /\ TypeOK
  /\ IsFiniteSet(transactions)
  /\ SequencesAreUnique
  /\ \A m, n \in mutations : m.operation = n.operation /\ m.key = n.key => m = n
  /\ nextSequence \in Nat \ {0} /\ \A t \in transactions : t.sequence < nextSequence
  /\ nextOrder \in Nat \ {0} /\ \A t \in snapshots : t.order < nextOrder

Fields == {"mutations", "transactions", "transfers", "snapshots", "archived"}

Shape ==
  /\ request \in [Sessions -> RequestRow]
  /\ lock \in [Accounts -> Sessions \cup {NoSession}]
  /\ pc = [s \in Sessions |-> pc[s]]
  /\ answer = [s \in Sessions |-> answer[s]]
  /\ view = [s \in Sessions |-> view[s]]
  /\ observed = [s \in Sessions |-> observed[s]]
  /\ writes = [s \in Sessions |-> writes[s]]
  /\ \A s \in Sessions : writes[s] = [field \in Fields |-> writes[s][field]]

SInv ==
  /\ Shape
  /\ RowsOK
  /\ \A s \in Sessions : SessionOK(s)
  /\ \A s, o \in Sessions : s # o => Apart(s, o)

ReadInv == \A s \in Sessions : ReadOK(s)

-----------------------------------------------------------------------------
(* Requests and what they read *)

LEMMA RequestTypes ==
  ASSUME Shape, NEW s \in Sessions
  PROVE  /\ request[s].operation = "post_transaction" =>
              /\ Keyed(s) /\ request[s].key \in Keys
              /\ Account(s) \in Accounts /\ request[s].fingerprint.effect \in Effects /\ Amount(s) \in Amounts
              /\ request[s].fingerprint \in PostFingerprint
              /\ LockSet(request[s]) = {Account(s)}
         /\ request[s].operation = "create_snapshot" =>
              /\ Keyed(s) /\ request[s].key \in Keys
              /\ Account(s) \in Accounts /\ request[s].fingerprint.balance \in SnapshotBalances
              /\ request[s].fingerprint.cutoff \in 0..MaxSequence
              /\ request[s].fingerprint \in SnapshotFingerprint
              /\ LockSet(request[s]) = {Account(s)}
         /\ request[s].operation = "create_transfer" =>
              /\ Keyed(s) /\ request[s].key \in Keys
              /\ Source(s) \in Accounts /\ Destination(s) \in Accounts /\ Amount(s) \in Amounts
              /\ request[s].fingerprint \in TransferFingerprint
              /\ LockSet(request[s]) = {Source(s), Destination(s)}
         /\ request[s].operation = "archive" =>
              ~ Keyed(s) /\ Account(s) \in Accounts /\ LockSet(request[s]) = {Account(s)}
         /\ request[s].operation = "read_balance" =>
              ~ Keyed(s) /\ Account(s) \in Accounts /\ LockSet(request[s]) = {}
         /\ request[s].operation \in
              {"post_transaction", "create_snapshot", "create_transfer", "archive", "read_balance"}
<1>1. request[s] \in RequestRow
  BY DEF Shape
<1>2. \/ request[s] \in [operation : {"post_transaction"}, key : Keys, fingerprint : PostFingerprint]
      \/ request[s] \in [operation : {"create_snapshot"}, key : Keys, fingerprint : SnapshotFingerprint]
      \/ request[s] \in [operation : {"create_transfer"}, key : Keys, fingerprint : TransferFingerprint]
      \/ request[s] \in [operation : {"archive", "read_balance"}, fingerprint : [account : Accounts]]
  BY <1>1 DEF RequestRow
<1> USE DEF Keyed, Account, Amount, Source, Destination, LockSet
<1>3. CASE request[s] \in [operation : {"post_transaction"}, key : Keys, fingerprint : PostFingerprint]
  BY <1>3 DEF PostFingerprint
<1>4. CASE request[s] \in [operation : {"create_snapshot"}, key : Keys, fingerprint : SnapshotFingerprint]
  BY <1>4 DEF SnapshotFingerprint
<1>5. CASE request[s] \in [operation : {"create_transfer"}, key : Keys, fingerprint : TransferFingerprint]
  BY <1>5 DEF TransferFingerprint
<1>6. CASE request[s] \in [operation : {"archive", "read_balance"}, fingerprint : [account : Accounts]]
  BY <1>6
<1> QED
  BY <1>2, <1>3, <1>4, <1>5, <1>6

LEMMA LockedAccounts ==
  ASSUME Shape, NEW s \in Sessions
  PROVE  LockSet(request[s]) \subseteq Accounts
BY RequestTypes

LEMMA SameBalance ==
  ASSUME NEW account,
         TransactionsOf(account)' = TransactionsOf(account),
         SnapshotsOf(account)' = SnapshotsOf(account)
  PROVE  /\ BalanceOf(account)' = BalanceOf(account)
         /\ \A effect, amount : ValidEffect(account, effect, amount)' <=> ValidEffect(account, effect, amount)
<1>1. LatestSnapshot(account)' = LatestSnapshot(account)
  BY DEF LatestSnapshot, Supersedes
<1>2. /\ OpeningBalance(account)' = OpeningBalance(account)
      /\ AppliedTransactions(account)' = AppliedTransactions(account)
  BY <1>1 DEF OpeningBalance, CutoffSequence, AppliedTransactions
<1>3. BalanceOf(account)' = BalanceOf(account)
  BY <1>2 DEF BalanceOf
<1> QED
  BY <1>3 DEF ValidEffect

\* What a check finds depends on the accounts that are locked.
LEMMA SamePasses ==
  ASSUME Shape, NEW o \in Sessions, request' = request,
         \A a \in LockSet(request[o]) : /\ TransactionsOf(a)' = TransactionsOf(a)
                                        /\ SnapshotsOf(a)' = SnapshotsOf(a)
                                        /\ status'[a] = status[a]
  PROVE  Passes(o)' <=> Passes(o)
<1>1. /\ Account(o)' = Account(o) /\ Amount(o)' = Amount(o)
      /\ Source(o)' = Source(o) /\ Destination(o)' = Destination(o)
  BY DEF Account, Amount, Source, Destination
<1>2. \A a \in LockSet(request[o]) : Active(a)' <=> Active(a)
  BY DEF Active
<1>3. \A a \in LockSet(request[o]) : \A effect, amount :
        ValidEffect(a, effect, amount)' <=> ValidEffect(a, effect, amount)
  BY SameBalance
<1>4. ASSUME NEW a \in LockSet(request[o]), NEW n
      PROVE  /\ CutoffKnown(a, n)' <=> CutoffKnown(a, n)
             /\ CutoffRegresses(a, n)' <=> CutoffRegresses(a, n)
  BY DEF CutoffKnown, CutoffRegresses
<1>5. /\ request[o].operation \in {"post_transaction", "create_snapshot"} => Account(o) \in LockSet(request[o])
      /\ request[o].operation = "create_transfer" =>
           Source(o) \in LockSet(request[o]) /\ Destination(o) \in LockSet(request[o])
  BY RequestTypes
<1>6. request[o].operation = "post_transaction" =>
        (ValidEffect(Account(o), request[o].fingerprint.effect, Amount(o))'
           <=> ValidEffect(Account(o), request[o].fingerprint.effect, Amount(o)))
  BY <1>1, <1>3, <1>5 DEF ValidEffect
<1> QED
  BY <1>1, <1>2, <1>3, <1>4, <1>5, <1>6 DEF Passes

\* A session reads the same while nothing is committed.
LEMMA SameReadings ==
  ASSUME UNCHANGED <<committed, request>>, Shape, NEW s \in Sessions
  PROVE  /\ UNCHANGED <<status, transactions, transfers, snapshots, mutations>> /\ request' = request
         /\ Passes(s)' <=> Passes(s)
         /\ BalanceOf(Account(s))' = BalanceOf(Account(s))
         /\ ClaimRow(s)' = ClaimRow(s)
         /\ Keyed(s)' <=> Keyed(s)
<1>1. UNCHANGED <<status, transactions, transfers, snapshots, mutations>> /\ request' = request
  BY DEF committed
<1>2. \A a : TransactionsOf(a)' = TransactionsOf(a) /\ SnapshotsOf(a)' = SnapshotsOf(a)
  BY <1>1 DEF TransactionsOf, SnapshotsOf
<1>3. Passes(s)' <=> Passes(s)
  BY <1>1, <1>2, SamePasses
<1>4. BalanceOf(Account(s))' = BalanceOf(Account(s))
  <2>1. PICK a : a = Account(s)
    OBVIOUS
  <2>2. Account(s)' = a
    BY <1>1, <2>1 DEF Account
  <2>3. BalanceOf(a)' = BalanceOf(a)
    BY <1>2, SameBalance
  <2> QED
    BY <2>1, <2>2, <2>3
<1> QED
  BY <1>1, <1>3, <1>4 DEF ClaimRow, Keyed

LEMMA WrittenTypes ==
  ASSUME Shape, NEW s \in Sessions, EntriesOK(s), OthersOK(s)
  PROVE  /\ writes[s].transactions \subseteq TransactionRow
         /\ writes[s].snapshots \subseteq SnapshotRow
         /\ writes[s].transfers \subseteq TransferRow
         /\ writes[s].archived \subseteq Accounts
         /\ IsFiniteSet(writes[s].transactions)
<1>1. \A kind \in Kinds, account \in Accounts, effect \in Effects, n \in Sequences :
        Amount(s) \in Amounts => Entry(s, kind, account, effect, n) \in TransactionRow
  BY DEF Entry, TransactionRow
<1>2. \A account \in Accounts, isSource \in BOOLEAN : TransferEffect(account, isSource) \in Effects
  BY DEF TransferEffect, Effects
<1>3. \A account \in Accounts, isSource \in BOOLEAN, n \in Sequences :
        Amount(s) \in Amounts => Leg(s, account, isSource, n) \in TransactionRow
  BY <1>1, <1>2 DEF Leg, Kinds
<1>4. "manual" \in Kinds
  BY DEF Kinds
<1>5. \A x, y : IsFiniteSet({x, y}) /\ IsFiniteSet({x}) /\ IsFiniteSet({})
  <2>1. \A x : IsFiniteSet({x})
    BY FS_Singleton
  <2>2. \A x, y : IsFiniteSet({x} \cup {y})
    BY <2>1, FS_AddElement
  <2>3. ASSUME NEW x, NEW y PROVE IsFiniteSet({x, y})
    <3>1. {x} \cup {y} = {x, y}
      OBVIOUS
    <3> QED
      BY <2>2, <3>1
  <2> QED
    BY <2>1, <2>3, FS_EmptySet
<1>6. writes[s].transactions \subseteq TransactionRow /\ IsFiniteSet(writes[s].transactions)
  <2>1. CASE Inserted(s, "post_transaction")
    <3>1. PICK n \in Sequences :
            writes[s].transactions = {Entry(s, "manual", Account(s), request[s].fingerprint.effect, n)}
      BY <2>1 DEF EntriesOK
    <3>2. Account(s) \in Accounts /\ request[s].fingerprint.effect \in Effects /\ Amount(s) \in Amounts
      BY <2>1, RequestTypes DEF Inserted
    <3> QED
      BY <1>1, <1>4, <1>5, <3>1, <3>2
  <2>2. CASE Inserted(s, "create_transfer")
    <3>1. ~ Inserted(s, "post_transaction")
      BY <2>2 DEF Inserted
    <3>2. PICK m, n \in Sequences :
            m < n /\ writes[s].transactions = {Leg(s, Source(s), TRUE, m), Leg(s, Destination(s), FALSE, n)}
      BY <2>2, <3>1 DEF EntriesOK
    <3>3. Source(s) \in Accounts /\ Destination(s) \in Accounts /\ Amount(s) \in Amounts
      BY <2>2, RequestTypes DEF Inserted
    <3>4. Leg(s, Source(s), TRUE, m) \in TransactionRow /\ Leg(s, Destination(s), FALSE, n) \in TransactionRow
      BY <1>3, <3>3
    <3> QED
      BY <1>5, <3>2, <3>4
  <2>3. CASE writes[s].transactions = {}
    BY <1>5, <2>3
  <2>4. CASE Inserting(s, "create_transfer") /\ \E m \in Sequences : writes[s].transactions = {Leg(s, Source(s), TRUE, m)}
    <3>1. Source(s) \in Accounts /\ Amount(s) \in Amounts
      BY <2>4, RequestTypes DEF Inserting
    <3> QED
      BY <1>3, <1>5, <2>4, <3>1
  <2> QED
    BY <2>1, <2>2, <2>3, <2>4 DEF EntriesOK
<1>7. writes[s].snapshots \subseteq SnapshotRow
  <2>1. CASE Inserted(s, "create_snapshot")
    <3>1. PICK n \in Orders : writes[s].snapshots = {Observation(s, n)}
      BY <2>1 DEF OthersOK
    <3>2. /\ Account(s) \in Accounts /\ request[s].fingerprint.balance \in SnapshotBalances
          /\ request[s].fingerprint.cutoff \in 0..MaxSequence
      BY <2>1, RequestTypes DEF Inserted
    <3> QED
      BY <3>1, <3>2 DEF Observation, SnapshotRow
  <2> QED
    BY <2>1 DEF OthersOK
<1>8. writes[s].transfers \subseteq TransferRow
  <2>1. request[s].operation = "create_transfer" => Link(s) \in TransferRow
    BY RequestTypes DEF Link, TransferRow
  <2> QED
    BY <2>1 DEF OthersOK, Inserted, Inserting
<1>9. writes[s].archived \subseteq Accounts
  BY RequestTypes DEF OthersOK, Archiving
<1> QED
  BY <1>6, <1>7, <1>8, <1>9

-----------------------------------------------------------------------------
(* Steps that commit nothing *)

LEMMA SessionIs ==
  ASSUME SInv, NEW s \in Sessions
  PROVE  /\ PcOK(s) /\ LockOK(s) /\ ClaimOK(s) /\ CheckOK(s) /\ EntriesOK(s) /\ OthersOK(s) /\ NumbersOK(s)
         /\ FreshOK(s) /\ AnswerOK(s)
         /\ Shape /\ RowsOK
         /\ writes[s] = [field \in Fields |-> writes[s][field]]
BY DEF SInv, SessionOK, Shape

\* The rows that a request asks for do not change.
LEMMA SameRows ==
  ASSUME request' = request, NEW s
  PROVE  /\ Account(s)' = Account(s) /\ Source(s)' = Source(s) /\ Destination(s)' = Destination(s)
         /\ \A kind, account, effect, n : Entry(s, kind, account, effect, n)' = Entry(s, kind, account, effect, n)
         /\ \A account, isSource, n : Leg(s, account, isSource, n)' = Leg(s, account, isSource, n)
         /\ Link(s)' = Link(s)
         /\ \A n : Observation(s, n)' = Observation(s, n)
BY DEF Account, Amount, Source, Destination, Entry, Leg, Link, Observation

\* The rows of a session whose own state stays are still what it was asked for.
LEMMA RowsStay ==
  ASSUME request' = request, NEW o \in Sessions, pc'[o] = pc[o], writes'[o] = writes[o],
         EntriesOK(o), OthersOK(o)
  PROVE  /\ EntriesOK(o)' /\ OthersOK(o)'
         /\ Claiming(o)' <=> Claiming(o)
         /\ Archiving(o)' <=> Archiving(o)
         /\ Keyed(o)' <=> Keyed(o)
         /\ ClaimRow(o)' = ClaimRow(o)
<1>1. /\ Claiming(o)' <=> Claiming(o)
      /\ Archiving(o)' <=> Archiving(o)
      /\ \A operation : /\ Inserting(o, operation)' <=> Inserting(o, operation)
                        /\ Inserted(o, operation)' <=> Inserted(o, operation)
  BY DEF Claiming, Archiving, Inserting, Inserted
<1>2. /\ Account(o)' = Account(o)
      /\ Link(o)' = Link(o)
      /\ \A n : Observation(o, n)' = Observation(o, n)
  BY SameRows
<1>3. EntriesOK(o)'
  <2>1. /\ Inserted(o, "post_transaction")' <=> Inserted(o, "post_transaction")
        /\ Inserted(o, "create_transfer")' <=> Inserted(o, "create_transfer")
        /\ Inserting(o, "create_transfer")' <=> Inserting(o, "create_transfer")
    BY <1>1
  <2>2. CASE Inserted(o, "post_transaction")
    <3>1. PICK n \in Sequences :
            writes[o].transactions = {Entry(o, "manual", Account(o), request[o].fingerprint.effect, n)}
      BY <2>2 DEF EntriesOK
    <3>2. writes'[o].transactions = {Entry(o, "manual", Account(o), request[o].fingerprint.effect, n)'}
      BY <3>1 DEF Entry, Account, Amount
    <3> QED
      BY <2>1, <2>2, <3>2 DEF EntriesOK
  <2>3. CASE ~ Inserted(o, "post_transaction") /\ Inserted(o, "create_transfer")
    <3>1. PICK m, n \in Sequences :
            m < n /\ writes[o].transactions = {Leg(o, Source(o), TRUE, m), Leg(o, Destination(o), FALSE, n)}
      BY <2>3 DEF EntriesOK
    <3>2. writes'[o].transactions = {Leg(o, Source(o), TRUE, m)', Leg(o, Destination(o), FALSE, n)'}
      BY <3>1 DEF Leg, Entry, Source, Destination, Amount
    <3> QED
      BY <2>1, <2>3, <3>1, <3>2 DEF EntriesOK
  <2>4. CASE ~ Inserted(o, "post_transaction") /\ ~ Inserted(o, "create_transfer")
    <3>1. CASE writes[o].transactions = {}
      BY <2>1, <2>4, <3>1 DEF EntriesOK
    <3>2. CASE /\ Inserting(o, "create_transfer") /\ writes[o].transfers # {}
               /\ \E m \in Sequences : writes[o].transactions = {Leg(o, Source(o), TRUE, m)}
      <4>1. PICK m \in Sequences : writes[o].transactions = {Leg(o, Source(o), TRUE, m)}
        BY <3>2
      <4>2. writes'[o].transactions = {Leg(o, Source(o), TRUE, m)'}
        BY <4>1 DEF Leg, Entry, Source, Amount
      <4> QED
        BY <2>1, <2>4, <3>2, <4>2 DEF EntriesOK
    <3> QED
      BY <2>4, <3>1, <3>2 DEF EntriesOK
  <2> QED
    BY <2>2, <2>3, <2>4
<1>4. OthersOK(o)'
  BY <1>1, <1>2 DEF OthersOK
<1> QED
  BY <1>1, <1>3, <1>4 DEF Keyed, ClaimRow

\* A session whose own state stays is as it was, whatever is locked or drawn.
LEMMA SessionStays ==
  ASSUME SInv, UNCHANGED <<committed, request>>, NEW o \in Sessions,
         pc'[o] = pc[o], writes'[o] = writes[o], answer'[o] = answer[o],
         \A a \in Accounts : lock[a] = o => lock'[a] = o,
         nextSequence' \in Nat, nextOrder' \in Nat,
         nextSequence <= nextSequence', nextOrder <= nextOrder'
  PROVE  SessionOK(o)'
<1>1. /\ UNCHANGED <<status, transactions, transfers, snapshots, mutations>> /\ request' = request
      /\ Passes(o)' <=> Passes(o)
      /\ ClaimRow(o)' = ClaimRow(o)
      /\ Keyed(o)' <=> Keyed(o)
  BY SameReadings DEF SInv
<1>2. /\ PcOK(o) /\ LockOK(o) /\ ClaimOK(o) /\ CheckOK(o) /\ EntriesOK(o) /\ OthersOK(o) /\ NumbersOK(o)
      /\ FreshOK(o) /\ AnswerOK(o)
      /\ Shape /\ RowsOK
  BY SessionIs
<1>3. /\ EntriesOK(o)' /\ OthersOK(o)'
      /\ Claiming(o)' <=> Claiming(o)
      /\ Archiving(o)' <=> Archiving(o)
  BY <1>1, <1>2, RowsStay
<1>4. PcOK(o)'
  BY <1>1, <1>2 DEF PcOK, Keyed, InTransaction
<1>5. LockOK(o)'
  <2>1. LockSet(request[o]) \subseteq Accounts
    BY <1>2, LockedAccounts
  <2> QED
    BY <1>1, <1>2, <2>1 DEF LockOK
<1>6. ClaimOK(o)'
  BY <1>1, <1>2, <1>3 DEF ClaimOK, Unclaimed
<1>7. CheckOK(o)'
  BY <1>1, <1>2, <1>3 DEF CheckOK
<1>8. NumbersOK(o)'
  <2>1. nextSequence \in Nat /\ nextOrder \in Nat
    BY <1>2 DEF RowsOK
  <2>2. writes[o].transactions \subseteq TransactionRow /\ writes[o].snapshots \subseteq SnapshotRow
    BY <1>2, WrittenTypes
  <2>3. \A t \in writes[o].transactions : t.sequence \in Nat
    BY <2>2, RowsHaveNumbers
  <2>4. \A t \in writes[o].snapshots : t.order \in Nat
    BY <2>2, LiabilityAssumption, AmountAssumption, BalanceAssumption, BoundAssumption DEF SnapshotRow, Orders
  <2>5. \A t \in writes[o].transactions : t.sequence < nextSequence'
    BY <1>2, <2>1, <2>3 DEF NumbersOK
  <2>6. \A t \in writes[o].snapshots : t.order < nextOrder'
    BY <1>2, <2>1, <2>4 DEF NumbersOK
  <2> QED
    BY <1>1, <1>2, <2>5, <2>6 DEF NumbersOK
<1>9. FreshOK(o)'
  BY <1>1, <1>2 DEF FreshOK
<1>10. AnswerOK(o)'
  BY <1>1, <1>2, <1>3 DEF AnswerOK
<1> QED
  BY <1>3, <1>4, <1>5, <1>6, <1>7, <1>8, <1>9, <1>10 DEF SessionOK

\* A step of s changes nothing of another session, and takes no lock from it.
Untouched(s) ==
  \A o \in Sessions \ {s} : /\ pc'[o] = pc[o] /\ writes'[o] = writes[o] /\ answer'[o] = answer[o]
                            /\ \A a \in Accounts : lock[a] = o => lock'[a] = o

\* What s adds to its uncommitted rows carries the next number of the column,
\* and a claim that it adds has no holder.
DrawsNext(s) ==
  /\ nextSequence' \in Nat /\ nextSequence <= nextSequence'
  /\ nextOrder' \in Nat /\ nextOrder <= nextOrder'
  /\ \A t \in writes'[s].transactions : t \in writes[s].transactions \/ t.sequence = nextSequence
  /\ \A t \in writes'[s].snapshots : t \in writes[s].snapshots \/ t.order = nextOrder
  /\ Claiming(s)' => Claiming(s) \/ KeyHolders(s) = {}

LEMMA SessionStep ==
  ASSUME SInv, UNCHANGED <<committed, request>>, NEW s \in Sessions, Shape', SessionOK(s)',
         Untouched(s), DrawsNext(s)
  PROVE  SInv' /\ UNCHANGED vars
<1>1. /\ UNCHANGED <<status, transactions, transfers, snapshots, mutations>> /\ request' = request
  BY DEF committed
<1>2. RowsOK'
  <2>1. RowsOK
    BY DEF SInv
  <2>2. /\ \A t \in transactions : t.sequence \in Nat
        /\ \A t \in snapshots : t.order \in Nat
    BY <2>1, RowsHaveNumbers, LiabilityAssumption, AmountAssumption, BalanceAssumption, BoundAssumption DEF RowsOK, TypeOK, SnapshotRow, Orders
  <2>3. nextSequence' \in Nat \ {0} /\ \A t \in transactions : t.sequence < nextSequence'
    BY <2>1, <2>2 DEF RowsOK, DrawsNext
  <2>4. nextOrder' \in Nat \ {0} /\ \A t \in snapshots : t.order < nextOrder'
    BY <2>1, <2>2 DEF RowsOK, DrawsNext
  <2>5. TypeOK' /\ SequencesAreUnique'
    BY <1>1, <2>1 DEF RowsOK, TypeOK, SequencesAreUnique
  <2> QED
    BY <1>1, <2>1, <2>3, <2>4, <2>5 DEF RowsOK
<1>3. ASSUME NEW o \in Sessions, o # s PROVE SessionOK(o)'
  BY <1>3, SessionStays DEF Untouched, DrawsNext
<1>4. ASSUME NEW o \in Sessions, o # s PROVE Apart(s, o)' /\ Apart(o, s)'
  <2>1. Apart(s, o) /\ Apart(o, s) /\ NumbersOK(o)
    BY <1>4, SessionIs DEF SInv
  <2>2. writes'[o] = writes[o]
    BY <1>4 DEF Untouched
  <2>3. Claiming(s)' /\ Claiming(o)' => ~ SameKey(request[s], request[o]) /\ ~ SameKey(request[o], request[s])
    <3>1. SUFFICES ASSUME Claiming(s)', Claiming(o)
                   PROVE  ~ SameKey(request[s], request[o]) /\ ~ SameKey(request[o], request[s])
      BY <2>2 DEF Claiming
    <3>2. CASE Claiming(s)
      BY <2>1, <3>1, <3>2 DEF Apart
    <3>3. CASE KeyHolders(s) = {}
      <4>1. writes[o].mutations = {ClaimRow(o)}
        BY <3>1, <1>4, SessionIs DEF ClaimOK, Claiming
      <4>2. ~ SameKey(ClaimRow(o), request[s])
        BY <1>4, <3>3, <4>1 DEF KeyHolders
      <4> QED
        BY <4>2 DEF SameKey, ClaimRow
    <3> QED
      BY <3>1, <3>2, <3>3 DEF DrawsNext
  <2>4. ASSUME NEW t \in writes'[s].transactions, NEW u \in writes'[o].transactions
        PROVE  t.sequence # u.sequence
    <3>1. CASE t \in writes[s].transactions
      BY <2>1, <2>2, <2>4, <3>1 DEF Apart
    <3>2. CASE t.sequence = nextSequence
      <4>1. u.sequence < nextSequence /\ nextSequence \in Nat
        BY <2>1, <2>2, <2>4 DEF NumbersOK, SInv, RowsOK
      <4> QED
        BY <3>2, <4>1
    <3> QED
      BY <2>4, <3>1, <3>2 DEF DrawsNext
  <2>5. ASSUME NEW t \in writes'[s].snapshots, NEW u \in writes'[o].snapshots
        PROVE  t.order # u.order
    <3>1. CASE t \in writes[s].snapshots
      BY <2>1, <2>2, <2>5, <3>1 DEF Apart
    <3>2. CASE t.order = nextOrder
      <4>1. u.order < nextOrder /\ nextOrder \in Nat
        BY <2>1, <2>2, <2>5 DEF NumbersOK, SInv, RowsOK
      <4> QED
        BY <3>2, <4>1
    <3> QED
      BY <2>5, <3>1, <3>2 DEF DrawsNext
  <2> QED
    BY <1>1, <2>3, <2>4, <2>5 DEF Apart
<1>5. ASSUME NEW o \in Sessions, NEW u \in Sessions, o # u PROVE Apart(o, u)'
  <2>1. CASE o = s \/ u = s
    BY <1>4, <1>5, <2>1
  <2>2. CASE o # s /\ u # s
    <3>1. Apart(o, u)
      BY <1>5 DEF SInv
    <3>2. writes'[o] = writes[o] /\ writes'[u] = writes[u]
      BY <2>2 DEF Untouched
    <3> QED
      BY <1>1, <3>1, <3>2 DEF Apart, Claiming
  <2> QED
    BY <2>1, <2>2
<1>6. \A o \in Sessions : SessionOK(o)'
  BY <1>3
<1>7. UNCHANGED vars
  BY <1>1 DEF vars
<1> QED
  BY <1>2, <1>5, <1>6, <1>7 DEF SInv

\* Before its inserts a session has no rows, and before its claim no claim.
LEMMA NoRowsYet ==
  ASSUME SInv, NEW s \in Sessions, pc[s] \in {"idle", "lock", "claim", "check", "read"}
  PROVE  /\ writes[s].transactions = {} /\ writes[s].snapshots = {}
         /\ writes[s].transfers = {} /\ writes[s].archived = {}
         /\ Claiming(s) => pc[s] = "check"
<1>1. /\ EntriesOK(s) /\ OthersOK(s) /\ ClaimOK(s)
  BY SessionIs
<1>2. /\ \A operation : ~ Inserted(s, operation) /\ ~ Inserting(s, operation)
      /\ ~ Archiving(s)
  BY DEF Inserted, Inserting, Archiving
<1> QED
  BY <1>1, <1>2 DEF EntriesOK, OthersOK, ClaimOK

\* A session that has inserted nothing, before and after its claim.
LEMMA NoRowsStill ==
  ASSUME NEW s \in Sessions,
         writes'[s].transactions = {}, writes'[s].snapshots = {},
         writes'[s].transfers = {}, writes'[s].archived = {},
         ~ Archiving(s)', pc'[s] = "commit" => ~ Claiming(s)'
  PROVE  EntriesOK(s)' /\ OthersOK(s)' /\ NumbersOK(s)'
<1>1. \A operation : ~ Inserted(s, operation)'
  BY DEF Inserted
<1>2. EntriesOK(s)'
  <2>1. ~ Inserted(s, "post_transaction")' /\ ~ Inserted(s, "create_transfer")'
    BY <1>1
  <2> QED
    BY <2>1 DEF EntriesOK
<1>3. OthersOK(s)'
  <2>1. ~ Inserted(s, "create_snapshot")' /\ ~ Inserted(s, "create_transfer")'
    BY <1>1
  <2> QED
    BY <2>1 DEF OthersOK
<1>4. NumbersOK(s)'
  BY DEF NumbersOK
<1> QED
  BY <1>2, <1>3, <1>4

\* A step that draws no number and leaves every lock where it is.
LEMMA NothingDrawn ==
  ASSUME SInv, UNCHANGED counters, NEW s \in Sessions,
         writes'[s].transactions \subseteq writes[s].transactions,
         writes'[s].snapshots \subseteq writes[s].snapshots,
         Claiming(s)' => Claiming(s) \/ KeyHolders(s) = {}
  PROVE  DrawsNext(s)
<1>1. nextSequence' = nextSequence /\ nextOrder' = nextOrder
  BY DEF counters
<1>2. nextSequence \in Nat /\ nextOrder \in Nat
  BY DEF SInv, RowsOK
<1> QED
  BY <1>1, <1>2 DEF DrawsNext

LEMMA EndStep ==
  ASSUME SInv, NEW s \in Sessions, pc[s] # "done", NEW outcome \in {"rejected", "failed"}, End(s, outcome)
  PROVE  SInv' /\ UNCHANGED vars
<1>1. /\ pc' = [pc EXCEPT ![s] = outcome]
      /\ writes' = [writes EXCEPT ![s] = NoWrites]
      /\ answer' = [answer EXCEPT ![s] = NoAnswer]
      /\ lock' = [a \in Accounts |-> IF lock[a] = s THEN NoSession ELSE lock[a]]
      /\ UNCHANGED <<committed, request>> /\ request' = request
      /\ UNCHANGED counters /\ UNCHANGED <<view, observed>>
      /\ Shape
  BY SessionIs DEF End, Release, reads
<1>2. pc'[s] = outcome /\ writes'[s] = NoWrites
  BY <1>1 DEF Shape
<1>3. Shape'
  <2>1. NoWrites = [field \in Fields |-> NoWrites[field]]
    BY DEF NoWrites, Fields
  <2> QED
    BY <1>1, <2>1 DEF Shape
<1>4. Untouched(s)
  BY <1>1 DEF Untouched, Shape
<1>5. ~ Claiming(s)' /\ ~ Archiving(s)'
  BY <1>2 DEF Claiming, Archiving, NoWrites
<1>6. DrawsNext(s)
  BY <1>1, <1>2, <1>5, NothingDrawn DEF NoWrites
<1>7. EntriesOK(s)' /\ OthersOK(s)' /\ NumbersOK(s)'
  BY <1>2, <1>5, NoRowsStill DEF NoWrites
<1>8. PcOK(s)' /\ LockOK(s)'
  BY <1>2 DEF PcOK, LockOK, InTransaction
<1>9. ClaimOK(s)' /\ CheckOK(s)' /\ AnswerOK(s)'
  BY <1>2, <1>5 DEF ClaimOK, CheckOK, AnswerOK, NoWrites
<1>10. FreshOK(s)'
  <2>1. FreshOK(s) /\ mutations' = mutations
    BY <1>1, SessionIs DEF committed
  <2> QED
    BY <2>1 DEF FreshOK
<1> QED
  BY <1>1, <1>3, <1>4, <1>6, <1>7, <1>8, <1>9, <1>10, SessionStep DEF SessionOK

LEMMA BeginStep ==
  ASSUME SInv, NEW s \in Sessions, Begin(s)
  PROVE  SInv' /\ UNCHANGED vars
<1> DEFINE next == IF request[s].operation = "read_balance" THEN "read" ELSE "lock"
           seen == IF request[s].operation = "read_balance" THEN {BalanceOf(Account(s))} ELSE {}
<1>1. /\ pc' = [pc EXCEPT ![s] = next]
      /\ observed' = [observed EXCEPT ![s] = seen]
      /\ UNCHANGED <<committed, request>> /\ request' = request /\ UNCHANGED counters
      /\ writes' = writes /\ answer' = answer /\ lock' = lock /\ view' = view
      /\ pc[s] = "idle" /\ Admissible(request[s])
      /\ Shape
  BY SessionIs DEF Begin
<1> HIDE DEF seen
<1>2. pc'[s] = next
  BY <1>1 DEF Shape
<1>3. Shape'
  BY <1>1 DEF Shape
<1>4. Untouched(s)
  BY <1>1 DEF Untouched, Shape
<1>5. ~ Claiming(s) /\ ~ Claiming(s)' /\ ~ Archiving(s)'
  BY <1>1, <1>2, NoRowsYet DEF Claiming, Archiving
<1>6. DrawsNext(s)
  BY <1>1, <1>5, NothingDrawn
<1>7. EntriesOK(s)' /\ OthersOK(s)' /\ NumbersOK(s)'
  BY <1>1, <1>5, NoRowsYet, NoRowsStill
<1>8. PcOK(s)' /\ LockOK(s)'
  BY <1>1, <1>2 DEF PcOK, LockOK, InTransaction
<1>9. ClaimOK(s)' /\ CheckOK(s)' /\ AnswerOK(s)'
  BY <1>1, <1>2, <1>5 DEF ClaimOK, CheckOK, AnswerOK, Claiming
<1>10. FreshOK(s)'
  <2>1. FreshOK(s) /\ mutations' = mutations
    BY <1>1, SessionIs DEF committed
  <2> QED
    BY <1>1, <2>1 DEF FreshOK
<1> QED
  BY <1>1, <1>3, <1>4, <1>6, <1>7, <1>8, <1>9, <1>10, SessionStep DEF SessionOK

LEMMA LockStep ==
  ASSUME SInv, NEW s \in Sessions, LockAccount(s)
  PROVE  SInv' /\ UNCHANGED vars
<1> DEFINE a == NextToLock(s)
           last == LockSet(request[s]) \subseteq HeldBy(s) \cup {a}
           afterLocks == IF request[s].operation = "archive" THEN "check" ELSE "claim"
<1>1. /\ pc' = [pc EXCEPT ![s] = IF last THEN afterLocks ELSE "lock"]
      /\ lock' = [lock EXCEPT ![a] = s]
      /\ UNCHANGED <<committed, request>> /\ request' = request /\ UNCHANGED counters
      /\ writes' = writes /\ answer' = answer /\ UNCHANGED <<view, observed>>
      /\ pc[s] = "lock" /\ lock[a] = NoSession
      /\ Shape /\ PcOK(s)
  BY SessionIs DEF LockAccount, reads
<1> HIDE DEF a
<1>2. pc'[s] = IF last THEN afterLocks ELSE "lock"
  BY <1>1 DEF Shape
<1>3. Shape'
  BY <1>1 DEF Shape
<1>4. Untouched(s)
  BY <1>1, NullAssumption DEF Untouched, Shape
<1>5. ~ Claiming(s) /\ ~ Claiming(s)' /\ ~ Archiving(s)'
  BY <1>1, <1>2, NoRowsYet DEF Claiming, Archiving
<1>6. DrawsNext(s)
  BY <1>1, <1>5, NothingDrawn
<1>7. EntriesOK(s)' /\ OthersOK(s)' /\ NumbersOK(s)'
  BY <1>1, <1>5, NoRowsYet, NoRowsStill
<1>8. Keyed(s)' <=> Keyed(s)
  BY <1>1 DEF Keyed
<1>9. request[s].operation # "archive" => Keyed(s)
  BY <1>1, RequestTypes DEF PcOK
<1>10. PcOK(s)'
  BY <1>1, <1>2, <1>8, <1>9 DEF PcOK, InTransaction
<1>11. LockOK(s)'
  <2>1. last => \A b \in LockSet(request[s]) : lock'[b] = s
    <3>1. LockSet(request[s]) \subseteq Accounts
      BY <1>1, LockedAccounts
    <3> QED
      BY <1>1, <3>1 DEF HeldBy, Shape
  <2> HIDE DEF last
  <2> QED
    BY <1>1, <1>2, <2>1 DEF LockOK
<1>12. request[s].operation = "archive" => ~ Keyed(s)
  BY DEF Keyed
<1>13. ClaimOK(s)' /\ CheckOK(s)' /\ AnswerOK(s)'
  <2> HIDE DEF last
  <2> QED
    BY <1>1, <1>2, <1>5, <1>8, <1>12 DEF ClaimOK, CheckOK, AnswerOK, Claiming
<1>14. FreshOK(s)'
  <2>1. FreshOK(s) /\ mutations' = mutations
    BY <1>1, SessionIs DEF committed
  <2> QED
    BY <1>1, <2>1 DEF FreshOK
<1> QED
  BY <1>1, <1>3, <1>4, <1>6, <1>7, <1>10, <1>11, <1>13, <1>14, SessionStep DEF SessionOK

\* The mutation row is inserted: the key is the session's until it ends.
LEMMA ClaimInserted ==
  ASSUME SInv, NEW s \in Sessions, pc[s] = "claim", KeyHolders(s) = {},
         Unclaimed(request[s].operation, request[s].key),
         writes' = [writes EXCEPT ![s].mutations = {ClaimRow(s)}],
         answer' = [answer EXCEPT ![s] = s], pc' = [pc EXCEPT ![s] = "check"],
         UNCHANGED <<committed, counters, lock, request, reads>>
  PROVE  SInv' /\ UNCHANGED vars
<1>1. /\ UNCHANGED <<committed, request>> /\ request' = request /\ UNCHANGED counters
      /\ UNCHANGED <<view, observed>> /\ lock' = lock
      /\ Shape /\ PcOK(s) /\ LockOK(s) /\ FreshOK(s)
  BY SessionIs DEF reads
<1>2. pc'[s] = "check" /\ answer'[s] = s
  BY <1>1 DEF Shape
<1>3. /\ writes'[s] = [writes[s] EXCEPT !.mutations = {ClaimRow(s)}]
      /\ \A o \in Sessions \ {s} : writes'[o] = writes[o]
      /\ writes' = [o \in Sessions |-> writes'[o]]
  BY <1>1 DEF Shape
<1>4. writes[s] = [field \in Fields |-> writes[s][field]]
  BY SessionIs
<1>5. /\ writes'[s].mutations = {ClaimRow(s)}
      /\ writes'[s].transactions = writes[s].transactions /\ writes'[s].snapshots = writes[s].snapshots
      /\ writes'[s].transfers = writes[s].transfers /\ writes'[s].archived = writes[s].archived
      /\ writes'[s] = [field \in Fields |-> writes'[s][field]]
  BY <1>3, <1>4 DEF Fields
<1>6. Shape'
  <2>1. \A o \in Sessions : writes[o] = [field \in Fields |-> writes[o][field]]
    BY <1>1 DEF Shape
  <2>2. ASSUME NEW o \in Sessions
        PROVE  writes'[o] = [field \in Fields |-> writes'[o][field]]
    <3>1. CASE o = s
      BY <1>5, <3>1
    <3>2. CASE o # s
      <4>1. writes'[o] = writes[o]
        BY <1>3, <3>2
      <4> QED
        BY <2>1, <4>1
    <3> QED
      BY <3>1, <3>2
  <2> QED
    BY <1>1, <1>3, <2>2 DEF Shape
<1>7. Untouched(s)
  BY <1>1, <1>3 DEF Untouched, Shape
<1>8. Claiming(s)' /\ ~ Archiving(s)'
  BY <1>2, <1>5 DEF Claiming, Archiving
<1>9. DrawsNext(s)
  BY <1>1, <1>5, NothingDrawn
<1>10. EntriesOK(s)' /\ OthersOK(s)' /\ NumbersOK(s)'
  BY <1>2, <1>5, <1>8, NoRowsYet, NoRowsStill
<1>11. Keyed(s)
  BY <1>1 DEF PcOK
<1>12. Keyed(s)' /\ ClaimRow(s)' = ClaimRow(s) /\ Unclaimed(request[s].operation, request[s].key)'
  BY <1>1, <1>11 DEF Keyed, ClaimRow, Unclaimed, committed
<1>13. PcOK(s)'
  BY <1>1, <1>2, <1>11, <1>12 DEF PcOK, InTransaction, Keyed
<1>14. LockOK(s)'
  BY <1>1, <1>2 DEF LockOK
<1>15. ClaimOK(s)'
  BY <1>2, <1>5, <1>8, <1>12 DEF ClaimOK
<1>16. CheckOK(s)' /\ AnswerOK(s)'
  BY <1>2, <1>8 DEF CheckOK, AnswerOK
<1>17. FreshOK(s)'
  BY <1>1 DEF FreshOK, committed
<1> QED
  BY <1>1, <1>6, <1>7, <1>9, <1>10, <1>13, <1>14, <1>15, <1>16, <1>17, SessionStep DEF SessionOK

\* A claim of the same request answers with the resource it was stored with.
LEMMA ClaimReplayed ==
  ASSUME SInv, NEW s \in Sessions, pc[s] = "claim",
         NEW m \in mutations, SameKey(m, request[s]), m.fingerprint = request[s].fingerprint,
         answer' = [answer EXCEPT ![s] = m.resource], pc' = [pc EXCEPT ![s] = "commit"],
         UNCHANGED <<committed, counters, lock, request, writes, reads>>
  PROVE  SInv' /\ UNCHANGED vars
<1>1. /\ UNCHANGED <<committed, request>> /\ request' = request /\ UNCHANGED counters
      /\ UNCHANGED <<view, observed>> /\ lock' = lock /\ writes' = writes
      /\ Shape /\ PcOK(s) /\ LockOK(s) /\ FreshOK(s) /\ ClaimOK(s)
  BY SessionIs DEF reads
<1>2. pc'[s] = "commit" /\ answer'[s] = m.resource
  BY <1>1 DEF Shape
<1>3. Shape'
  BY <1>1 DEF Shape
<1>4. Untouched(s)
  BY <1>1 DEF Untouched, Shape
<1>5. Keyed(s) /\ Keyed(s)'
  BY <1>1 DEF PcOK, Keyed
<1>6. ~ Claiming(s) /\ ~ Claiming(s)' /\ ~ Archiving(s)'
  BY <1>1, <1>5, NoRowsYet DEF Claiming, Archiving, Keyed
<1>7. DrawsNext(s)
  BY <1>1, <1>6, NothingDrawn
<1>8. EntriesOK(s)' /\ OthersOK(s)' /\ NumbersOK(s)'
  BY <1>1, <1>6, NoRowsYet, NoRowsStill
<1>9. PcOK(s)'
  BY <1>1, <1>2, <1>5 DEF PcOK, InTransaction, Keyed
<1>10. LockOK(s)'
  BY <1>1, <1>2 DEF LockOK
<1>11. ClaimOK(s)' /\ CheckOK(s)'
  BY <1>1, <1>2, <1>6 DEF ClaimOK, CheckOK, Claiming
<1>12. AnswerOK(s)'
  <2>1. mutations' = mutations
    BY <1>1 DEF committed
  <2> QED
    BY <1>1, <1>2, <2>1 DEF AnswerOK
<1>13. FreshOK(s)'
  BY <1>1 DEF FreshOK, committed
<1> QED
  BY <1>1, <1>3, <1>4, <1>7, <1>8, <1>9, <1>10, <1>11, <1>12, <1>13, SessionStep DEF SessionOK

LEMMA ClaimStep ==
  ASSUME SInv, NEW s \in Sessions, ClaimMutation(s)
  PROVE  SInv' /\ UNCHANGED vars
<1> DEFINE r == request[s]
           earlier == {m \in mutations : SameKey(m, r)}
           replay == {m \in earlier : m.fingerprint = r.fingerprint}
<1>1. /\ pc[s] = "claim" /\ KeyHolders(s) = {}
      /\ \/ /\ earlier = {}
            /\ writes' = [writes EXCEPT ![s].mutations = {ClaimRow(s)}]
            /\ answer' = [answer EXCEPT ![s] = s]
            /\ pc' = [pc EXCEPT ![s] = "check"]
            /\ UNCHANGED <<committed, counters, lock, request, reads>>
         \/ \E m \in replay :
              /\ answer' = [answer EXCEPT ![s] = m.resource]
              /\ pc' = [pc EXCEPT ![s] = "commit"]
              /\ UNCHANGED <<committed, counters, lock, request, writes, reads>>
         \/ Reject(s)
  BY DEF ClaimMutation, ClaimRow
<1>2. CASE /\ earlier = {}
           /\ writes' = [writes EXCEPT ![s].mutations = {ClaimRow(s)}]
           /\ answer' = [answer EXCEPT ![s] = s]
           /\ pc' = [pc EXCEPT ![s] = "check"]
           /\ UNCHANGED <<committed, counters, lock, request, reads>>
  <2>1. Unclaimed(request[s].operation, request[s].key)
    BY <1>2 DEF SameKey, Unclaimed
  <2> QED
    BY <1>1, <1>2, <2>1, ClaimInserted
<1>3. CASE \E m \in replay :
             /\ answer' = [answer EXCEPT ![s] = m.resource]
             /\ pc' = [pc EXCEPT ![s] = "commit"]
             /\ UNCHANGED <<committed, counters, lock, request, writes, reads>>
  BY <1>1, <1>3, ClaimReplayed
<1>4. CASE Reject(s)
  BY <1>1, <1>4, EndStep DEF Reject
<1> QED
  BY <1>1, <1>2, <1>3, <1>4

LEMMA CheckStep ==
  ASSUME SInv, NEW s \in Sessions, Check(s)
  PROVE  SInv' /\ UNCHANGED vars
<1>1. CASE Reject(s)
  <2>1. pc[s] = "check"
    BY DEF Check
  <2> QED
    BY <1>1, <2>1, EndStep DEF Reject
<1>2. CASE Passes(s) /\ ~ Reject(s)
  <2> DEFINE archive == request[s].operation = "archive"
  <2>1. /\ pc' = [pc EXCEPT ![s] = IF archive THEN "commit" ELSE "insert"]
        /\ writes' = IF archive THEN [writes EXCEPT ![s].archived = {Account(s)}] ELSE writes
        /\ UNCHANGED <<committed, request>> /\ request' = request /\ UNCHANGED counters
        /\ answer' = answer /\ UNCHANGED <<view, observed>> /\ lock' = lock
        /\ pc[s] = "check"
        /\ Shape /\ PcOK(s) /\ LockOK(s) /\ FreshOK(s) /\ ClaimOK(s)
    BY <1>2, SessionIs DEF Check, reads
  <2>2. pc'[s] = IF archive THEN "commit" ELSE "insert"
    BY <2>1 DEF Shape
  <2>3. writes[s] = [field \in Fields |-> writes[s][field]]
    BY SessionIs
  <2>4. /\ writes'[s].mutations = writes[s].mutations
        /\ writes'[s].transactions = {} /\ writes'[s].snapshots = {} /\ writes'[s].transfers = {}
        /\ writes'[s].archived = IF archive THEN {Account(s)} ELSE {}
        /\ writes'[s] = [field \in Fields |-> writes'[s][field]]
        /\ \A o \in Sessions \ {s} : writes'[o] = writes[o]
        /\ writes' = [o \in Sessions |-> writes'[o]]
    <3>1. CASE archive
      <4>1. writes'[s] = [writes[s] EXCEPT !.archived = {Account(s)}]
        BY <2>1, <3>1 DEF Shape
      <4>2. /\ \A o \in Sessions \ {s} : writes'[o] = writes[o]
            /\ writes' = [o \in Sessions |-> writes'[o]]
        BY <2>1, <3>1 DEF Shape
      <4> QED
        BY <2>1, <2>3, <3>1, <4>1, <4>2, NoRowsYet DEF Fields
    <3>2. CASE ~ archive
      BY <2>1, <2>3, <3>2, NoRowsYet DEF Shape
    <3> QED
      BY <3>1, <3>2
  <2>5. Shape'
    <3>1. \A o \in Sessions : writes[o] = [field \in Fields |-> writes[o][field]]
      BY <2>1 DEF Shape
    <3>2. \A o \in Sessions : writes'[o] = [field \in Fields |-> writes'[o][field]]
      BY <2>4, <3>1
    <3> QED
      BY <2>1, <2>4, <3>2 DEF Shape
  <2>6. Untouched(s)
    BY <2>1, <2>4 DEF Untouched, Shape
  <2>7. Keyed(s) <=> ~ archive
    BY <2>1, RequestTypes DEF PcOK
  <2>8. /\ Keyed(s)' <=> Keyed(s)
        /\ Passes(s)' <=> Passes(s)
        /\ ClaimRow(s)' = ClaimRow(s)
        /\ Account(s)' = Account(s)
        /\ Unclaimed(request[s].operation, request[s].key)'
             <=> Unclaimed(request[s].operation, request[s].key)
    BY <2>1, SameReadings, SameRows DEF Unclaimed
  <2>9. /\ Claiming(s)' <=> Claiming(s)
        /\ Claiming(s) <=> ~ archive
        /\ Archiving(s)' <=> archive
    BY <2>1, <2>2, <2>4, <2>7 DEF Claiming, ClaimOK, Archiving
  <2>10. DrawsNext(s)
    BY <2>1, <2>4, <2>9, NothingDrawn
  <2>11. EntriesOK(s)' /\ OthersOK(s)' /\ NumbersOK(s)'
    <3>1. \A operation : ~ Inserted(s, operation)'
      BY <2>2, <2>9 DEF Inserted
    <3>2. /\ ~ Inserted(s, "post_transaction")' /\ ~ Inserted(s, "create_transfer")'
          /\ ~ Inserted(s, "create_snapshot")'
      BY <3>1
    <3> QED
      BY <2>4, <2>8, <2>9, <3>2 DEF EntriesOK, OthersOK, NumbersOK
  <2>12. PcOK(s)' /\ LockOK(s)'
    BY <2>1, <2>2, <2>7, <2>8 DEF PcOK, LockOK, InTransaction
  <2>13. ClaimOK(s)'
    BY <2>1, <2>2, <2>4, <2>7, <2>8, <2>9 DEF ClaimOK
  <2>14. CheckOK(s)' /\ AnswerOK(s)'
    BY <1>2, <2>2, <2>7, <2>8, <2>9 DEF CheckOK, AnswerOK
  <2>15. FreshOK(s)'
    BY <2>1 DEF FreshOK, committed
  <2> QED
    BY <2>1, <2>5, <2>6, <2>10, <2>11, <2>12, <2>13, <2>14, <2>15, SessionStep DEF SessionOK
<1> QED
  BY <1>1, <1>2 DEF Check

\* While it inserts, a session holds its locks, its claim and what it checked.
LEMMA InsertStep ==
  ASSUME SInv, NEW s \in Sessions, pc[s] = "insert", pc'[s] \in {"insert", "commit"},
         UNCHANGED <<committed, request, lock, answer>>,
         writes'[s].mutations = writes[s].mutations,
         Shape', Untouched(s), DrawsNext(s),
         EntriesOK(s)', OthersOK(s)', NumbersOK(s)'
  PROVE  SInv' /\ UNCHANGED vars
<1>1. /\ UNCHANGED <<committed, request>> /\ request' = request /\ lock' = lock /\ answer' = answer
      /\ Shape /\ PcOK(s) /\ LockOK(s) /\ FreshOK(s) /\ ClaimOK(s) /\ CheckOK(s)
  BY SessionIs
<1>2. Keyed(s) /\ Keyed(s)'
  BY <1>1 DEF PcOK, Keyed
<1>3. /\ Passes(s)' <=> Passes(s)
      /\ ClaimRow(s)' = ClaimRow(s)
      /\ Unclaimed(request[s].operation, request[s].key)'
           <=> Unclaimed(request[s].operation, request[s].key)
  BY <1>1, SameReadings DEF Unclaimed
<1>4. Claiming(s) /\ Claiming(s)' /\ ~ Archiving(s)'
  BY <1>1, <1>2 DEF ClaimOK, Claiming, Archiving, Keyed
<1>5. PcOK(s)'
  BY <1>1, <1>2 DEF PcOK, InTransaction, Keyed
<1>6. LockOK(s)'
  BY <1>1 DEF LockOK
<1>7. ClaimOK(s)'
  BY <1>1, <1>2, <1>3, <1>4 DEF ClaimOK
<1>8. CheckOK(s)' /\ AnswerOK(s)'
  BY <1>1, <1>3, <1>4 DEF CheckOK, AnswerOK
<1>9. FreshOK(s)'
  BY <1>1 DEF FreshOK, committed
<1> QED
  BY <1>1, <1>5, <1>6, <1>7, <1>8, <1>9, SessionStep DEF SessionOK

LEMMA OnlyItsWrites ==
  ASSUME Shape, NEW s \in Sessions, NEW rows, rows = [field \in Fields |-> rows[field]],
         writes' = [writes EXCEPT ![s] = rows]
  PROVE  /\ writes'[s] = rows
         /\ \A o \in Sessions \ {s} : writes'[o] = writes[o]
         /\ writes' = [o \in Sessions |-> writes'[o]]
         /\ \A o \in Sessions : writes'[o] = [field \in Fields |-> writes'[o][field]]
<1>1. /\ writes'[s] = rows
      /\ \A o \in Sessions \ {s} : writes'[o] = writes[o]
      /\ writes' = [o \in Sessions |-> writes'[o]]
  BY DEF Shape
<1>2. \A o \in Sessions : writes[o] = [field \in Fields |-> writes[o][field]]
  BY DEF Shape
<1>3. ASSUME NEW o \in Sessions
      PROVE  writes'[o] = [field \in Fields |-> writes'[o][field]]
  <2>1. CASE o = s
    BY <1>1, <2>1
  <2>2. CASE o # s
    <3>1. writes'[o] = writes[o]
      BY <1>1, <2>2
    <3> QED
      BY <1>2, <3>1
  <2> QED
    BY <2>1, <2>2
<1> QED
  BY <1>1, <1>3

\* What a session that inserts has written so far.
LEMMA RowsSoFar ==
  ASSUME SInv, NEW s \in Sessions, pc[s] = "insert"
  PROVE  /\ Claiming(s) /\ Keyed(s)
         /\ writes[s].snapshots = {} /\ writes[s].archived = {}
         /\ writes[s].transfers \subseteq {Link(s)}
         /\ writes[s].transfers = {} => writes[s].transactions = {}
         /\ request[s].operation # "create_transfer" =>
              writes[s].transactions = {} /\ writes[s].transfers = {}
         /\ writes[s].transactions = {} \/ \E m \in Sequences : writes[s].transactions = {Leg(s, Source(s), TRUE, m)}
<1>1. /\ PcOK(s) /\ ClaimOK(s) /\ EntriesOK(s) /\ OthersOK(s)
  BY SessionIs
<1>2. ~ Archiving(s) /\ \A operation : ~ Inserted(s, operation)
  BY DEF Archiving, Inserted
<1>3. Claiming(s) /\ Keyed(s)
  BY <1>1 DEF PcOK, ClaimOK
<1>4. /\ writes[s].snapshots = {} /\ writes[s].archived = {}
      /\ \/ writes[s].transfers = {}
         \/ Inserting(s, "create_transfer") /\ writes[s].transfers = {Link(s)}
  BY <1>1, <1>2 DEF OthersOK
<1>5. \/ writes[s].transactions = {}
      \/ /\ Inserting(s, "create_transfer") /\ writes[s].transfers # {}
         /\ \E m \in Sequences : writes[s].transactions = {Leg(s, Source(s), TRUE, m)}
  BY <1>1, <1>2 DEF EntriesOK
<1> QED
  BY <1>3, <1>4, <1>5 DEF Inserting

\* The identity column's number is that of one new row, in range.
LEMMA NumberDrawn ==
  ASSUME SInv, nextSequence <= MaxSequence
  PROVE  /\ nextSequence \in Sequences
         /\ \A t \in transactions : t.sequence < nextSequence /\ t.sequence # nextSequence
         /\ nextSequence < nextSequence + 1
         /\ nextSequence + 1 \in Nat /\ nextSequence <= nextSequence + 1
<1>1. nextSequence \in Nat \ {0} /\ MaxSequence \in Nat
  BY LiabilityAssumption, AmountAssumption, BalanceAssumption, BoundAssumption DEF SInv, RowsOK
<1>2. nextSequence \in Sequences
  BY <1>1 DEF Sequences
<1>3. \A t \in transactions : t.sequence < nextSequence /\ t.sequence # nextSequence
  <2>1. \A t \in transactions : t.sequence \in Nat
    BY RowsHaveNumbers DEF SInv, RowsOK, TypeOK
  <2>2. \A t \in transactions : t.sequence < nextSequence
    BY DEF SInv, RowsOK
  <2> QED
    BY <1>1, <2>1, <2>2
<1> QED
  BY <1>1, <1>2, <1>3

LEMMA InsertManualStep ==
  ASSUME SInv, NEW s \in Sessions, InsertManual(s)
  PROVE  SInv' /\ UNCHANGED vars
<1> DEFINE row == Entry(s, "manual", Account(s), request[s].fingerprint.effect, nextSequence)
           rows == [writes[s] EXCEPT !.transactions = @ \cup {row}]
<1>1. /\ pc[s] = "insert" /\ request[s].operation = "post_transaction"
      /\ nextSequence <= MaxSequence /\ nextSequence' = nextSequence + 1 /\ nextOrder' = nextOrder
      /\ pc' = [pc EXCEPT ![s] = "commit"]
      /\ UNCHANGED <<committed, request, lock, answer>>
      /\ UNCHANGED <<committed, request>> /\ request' = request /\ lock' = lock /\ answer' = answer
      /\ UNCHANGED <<view, observed>>
      /\ Shape
  BY SessionIs DEF InsertManual, InsertTransaction, reads
<1>2. writes' = [writes EXCEPT ![s] = rows]
  BY DEF InsertManual, InsertTransaction, Entry
<1>3. /\ row.sequence = nextSequence /\ row.account = Account(s)
      /\ row' = Entry(s, "manual", Account(s), request[s].fingerprint.effect, nextSequence')
  BY <1>1 DEF Entry, Account, Amount
<1>4. /\ writes[s] = [field \in Fields |-> writes[s][field]]
      /\ Claiming(s) /\ writes[s].transactions = {} /\ writes[s].transfers = {}
      /\ writes[s].snapshots = {} /\ writes[s].archived = {}
  BY <1>1, SessionIs, RowsSoFar
<1>5. /\ rows = [field \in Fields |-> rows[field]]
      /\ rows.transactions = {row} /\ rows.transfers = {} /\ rows.snapshots = {} /\ rows.archived = {}
      /\ rows.mutations = writes[s].mutations
  <2> HIDE DEF row
  <2> QED
    BY <1>4 DEF Fields
<1> HIDE DEF rows, row
<1>6. /\ writes'[s] = rows
      /\ \A o \in Sessions \ {s} : writes'[o] = writes[o]
      /\ writes' = [o \in Sessions |-> writes'[o]]
      /\ \A o \in Sessions : writes'[o] = [field \in Fields |-> writes'[o][field]]
  BY <1>1, <1>2, <1>5, OnlyItsWrites
<1>7. pc'[s] = "commit"
  BY <1>1 DEF Shape
<1>8. Shape'
  BY <1>1, <1>6 DEF Shape
<1>9. Untouched(s)
  BY <1>1, <1>6 DEF Untouched, Shape
<1>10. /\ nextSequence \in Sequences
       /\ \A t \in transactions : t.sequence < nextSequence /\ t.sequence # nextSequence
       /\ nextSequence < nextSequence' /\ nextSequence' \in Nat /\ nextSequence <= nextSequence'
  BY <1>1, NumberDrawn
<1>11. nextOrder \in Nat
  BY DEF SInv, RowsOK
<1>12. DrawsNext(s)
  <2>1. nextOrder' \in Nat /\ nextOrder <= nextOrder'
    BY <1>1, <1>11
  <2>2. writes'[s].transactions = {row} /\ writes'[s].snapshots = {}
    BY <1>5, <1>6
  <2> QED
    BY <1>3, <1>4, <1>10, <2>1, <2>2 DEF DrawsNext
<1>13. Inserted(s, "post_transaction")'
  BY <1>1, <1>4, <1>5, <1>6, <1>7 DEF Inserted, Claiming
<1>14. EntriesOK(s)'
  <2>1. PICK n \in Sequences : n = nextSequence
    BY <1>10
  <2>2. writes'[s].transactions = {Entry(s, "manual", Account(s), request[s].fingerprint.effect, n)'}
    BY <1>1, <1>5, <1>6, <2>1 DEF Entry, Account, Amount, row
  <2> QED
    BY <1>13, <2>2 DEF EntriesOK
<1>15. OthersOK(s)'
  <2>1. /\ ~ Archiving(s)' /\ ~ Inserted(s, "create_snapshot")' /\ ~ Inserted(s, "create_transfer")'
    BY <1>1 DEF Archiving, Inserted
  <2> QED
    BY <1>5, <1>6, <2>1 DEF OthersOK
<1>16. NumbersOK(s)'
  <2>1. transactions' = transactions
    BY <1>1 DEF committed
  <2> QED
    BY <1>3, <1>5, <1>6, <1>10, <2>1 DEF NumbersOK
<1> QED
  BY <1>1, <1>5, <1>6, <1>7, <1>8, <1>9, <1>12, <1>14, <1>15, <1>16, InsertStep

LEMMA InsertSnapshotStep ==
  ASSUME SInv, NEW s \in Sessions, InsertSnapshot(s)
  PROVE  SInv' /\ UNCHANGED vars
<1> DEFINE row == Observation(s, nextOrder)
           rows == [writes[s] EXCEPT !.snapshots = {row}]
<1>1. /\ pc[s] = "insert" /\ request[s].operation = "create_snapshot"
      /\ nextOrder <= MaxOrder /\ nextOrder' = nextOrder + 1 /\ nextSequence' = nextSequence
      /\ pc' = [pc EXCEPT ![s] = "commit"]
      /\ UNCHANGED <<committed, request, lock, answer>>
      /\ UNCHANGED <<committed, request>> /\ request' = request /\ lock' = lock /\ answer' = answer
      /\ UNCHANGED <<view, observed>>
      /\ Shape
  BY SessionIs DEF InsertSnapshot, reads
<1>2. writes' = [writes EXCEPT ![s] = rows]
  BY DEF InsertSnapshot, Observation
<1>3. row.order = nextOrder /\ row.account = Account(s)
  BY DEF Observation
<1>4. /\ writes[s] = [field \in Fields |-> writes[s][field]]
      /\ Claiming(s) /\ writes[s].transactions = {} /\ writes[s].transfers = {}
      /\ writes[s].snapshots = {} /\ writes[s].archived = {}
  BY <1>1, SessionIs, RowsSoFar
<1>5. /\ rows = [field \in Fields |-> rows[field]]
      /\ rows.transactions = {} /\ rows.transfers = {} /\ rows.snapshots = {row} /\ rows.archived = {}
      /\ rows.mutations = writes[s].mutations
  <2> HIDE DEF row
  <2> QED
    BY <1>4 DEF Fields
<1> HIDE DEF rows, row
<1>6. /\ writes'[s] = rows
      /\ \A o \in Sessions \ {s} : writes'[o] = writes[o]
      /\ writes' = [o \in Sessions |-> writes'[o]]
      /\ \A o \in Sessions : writes'[o] = [field \in Fields |-> writes'[o][field]]
  BY <1>1, <1>2, <1>5, OnlyItsWrites
<1>7. pc'[s] = "commit"
  BY <1>1 DEF Shape
<1>8. Shape'
  BY <1>1, <1>6 DEF Shape
<1>9. Untouched(s)
  BY <1>1, <1>6 DEF Untouched, Shape
<1>10. /\ nextOrder \in Orders
       /\ \A t \in snapshots : t.order < nextOrder /\ t.order # nextOrder
       /\ nextOrder < nextOrder' /\ nextOrder' \in Nat /\ nextOrder <= nextOrder'
  <2>1. nextOrder \in Nat \ {0} /\ MaxOrder \in Nat
    BY LiabilityAssumption, AmountAssumption, BalanceAssumption, BoundAssumption DEF SInv, RowsOK
  <2>2. \A t \in snapshots : t.order \in Nat
    BY LiabilityAssumption, AmountAssumption, BalanceAssumption, BoundAssumption DEF SInv, RowsOK, TypeOK, SnapshotRow, Orders
  <2>3. \A t \in snapshots : t.order < nextOrder
    BY DEF SInv, RowsOK
  <2>4. nextOrder \in Orders
    BY <1>1, <2>1 DEF Orders
  <2> QED
    BY <1>1, <2>1, <2>2, <2>3, <2>4
<1>11. nextSequence \in Nat
  BY DEF SInv, RowsOK
<1>12. DrawsNext(s)
  <2>1. nextSequence' \in Nat /\ nextSequence <= nextSequence'
    BY <1>1, <1>11
  <2>2. writes'[s].transactions = {} /\ writes'[s].snapshots = {row}
    BY <1>5, <1>6
  <2> QED
    BY <1>3, <1>4, <1>10, <2>1, <2>2 DEF DrawsNext
<1>13. Inserted(s, "create_snapshot")'
  BY <1>1, <1>4, <1>5, <1>6, <1>7 DEF Inserted, Claiming
<1>14. /\ ~ Archiving(s)' /\ ~ Inserted(s, "post_transaction")' /\ ~ Inserted(s, "create_transfer")'
  BY <1>1 DEF Archiving, Inserted
<1>15. EntriesOK(s)'
  BY <1>5, <1>6, <1>14 DEF EntriesOK
<1>16. OthersOK(s)'
  <2>1. PICK n \in Orders : n = nextOrder
    BY <1>10
  <2>2. writes'[s].snapshots = {Observation(s, n)'}
    BY <1>1, <1>5, <1>6, <2>1 DEF Observation, Account, row
  <2> QED
    BY <1>5, <1>6, <1>13, <1>14, <2>2 DEF OthersOK
<1>17. NumbersOK(s)'
  <2>1. snapshots' = snapshots
    BY <1>1 DEF committed
  <2> QED
    BY <1>3, <1>5, <1>6, <1>10, <2>1 DEF NumbersOK
<1> QED
  BY <1>1, <1>5, <1>6, <1>7, <1>8, <1>9, <1>12, <1>15, <1>16, <1>17, InsertStep

LEMMA InsertLinkStep ==
  ASSUME SInv, NEW s \in Sessions, InsertLink(s)
  PROVE  SInv' /\ UNCHANGED vars
<1> DEFINE rows == [writes[s] EXCEPT !.transfers = {Link(s)}]
<1>1. /\ pc[s] = "insert" /\ request[s].operation = "create_transfer" /\ writes[s].transfers = {}
      /\ pc' = pc /\ UNCHANGED counters
      /\ UNCHANGED <<committed, request, lock, answer>>
      /\ UNCHANGED <<committed, request>> /\ request' = request /\ lock' = lock /\ answer' = answer
      /\ UNCHANGED <<view, observed>>
      /\ Shape
  BY SessionIs DEF InsertLink, reads
<1>2. writes' = [writes EXCEPT ![s] = rows]
  BY DEF InsertLink, Link
<1>3. /\ writes[s] = [field \in Fields |-> writes[s][field]]
      /\ Claiming(s) /\ writes[s].transactions = {} /\ writes[s].snapshots = {} /\ writes[s].archived = {}
  BY <1>1, SessionIs, RowsSoFar
<1>4. /\ rows = [field \in Fields |-> rows[field]]
      /\ rows.transactions = {} /\ rows.transfers = {Link(s)} /\ rows.snapshots = {} /\ rows.archived = {}
      /\ rows.mutations = writes[s].mutations
  BY <1>3 DEF Fields
<1> HIDE DEF rows
<1>5. /\ writes'[s] = rows
      /\ \A o \in Sessions \ {s} : writes'[o] = writes[o]
      /\ writes' = [o \in Sessions |-> writes'[o]]
      /\ \A o \in Sessions : writes'[o] = [field \in Fields |-> writes'[o][field]]
  BY <1>1, <1>2, <1>4, OnlyItsWrites
<1>6. Shape'
  BY <1>1, <1>5 DEF Shape
<1>7. Untouched(s)
  BY <1>1, <1>5 DEF Untouched, Shape
<1>8. DrawsNext(s)
  BY <1>1, <1>3, <1>4, <1>5, NothingDrawn
<1>9. /\ ~ Archiving(s)'
      /\ ~ Inserted(s, "post_transaction")' /\ ~ Inserted(s, "create_transfer")' /\ ~ Inserted(s, "create_snapshot")'
      /\ Inserting(s, "create_transfer")'
  BY <1>1 DEF Archiving, Inserted, Inserting
<1>10. EntriesOK(s)'
  BY <1>4, <1>5, <1>9 DEF EntriesOK
<1>11. OthersOK(s)'
  <2>1. Link(s)' = Link(s)
    BY <1>1 DEF Link, Source, Destination, Amount
  <2> QED
    BY <1>4, <1>5, <1>9, <2>1 DEF OthersOK
<1>12. NumbersOK(s)'
  BY <1>4, <1>5 DEF NumbersOK
<1> QED
  BY <1>1, <1>4, <1>5, <1>6, <1>7, <1>8, <1>10, <1>11, <1>12, InsertStep

LEMMA InsertLegStep ==
  ASSUME SInv, NEW s \in Sessions, InsertLeg(s)
  PROVE  SInv' /\ UNCHANGED vars
<1> DEFINE first == writes[s].transactions = {}
           account == IF first THEN Source(s) ELSE Destination(s)
           row == Leg(s, account, first, nextSequence)
           rows == [writes[s] EXCEPT !.transactions = @ \cup {row}]
<1>1. /\ pc[s] = "insert" /\ request[s].operation = "create_transfer" /\ writes[s].transfers # {}
      /\ nextSequence <= MaxSequence /\ nextSequence' = nextSequence + 1 /\ nextOrder' = nextOrder
      /\ pc' = [pc EXCEPT ![s] = IF first THEN "insert" ELSE "commit"]
      /\ UNCHANGED <<committed, request, lock, answer>>
      /\ UNCHANGED <<committed, request>> /\ request' = request /\ lock' = lock /\ answer' = answer
      /\ UNCHANGED <<view, observed>>
      /\ Shape
  BY SessionIs DEF InsertLeg, InsertTransaction, reads
<1>2. writes' = [writes EXCEPT ![s] = rows]
  BY DEF InsertLeg, InsertTransaction, Leg, Entry
<1>3. row.sequence = nextSequence /\ row.account = account
  BY DEF Leg, Entry
<1>4. /\ writes[s] = [field \in Fields |-> writes[s][field]]
      /\ Claiming(s) /\ writes[s].snapshots = {} /\ writes[s].archived = {}
      /\ writes[s].transfers = {Link(s)}
      /\ writes[s].transactions = {} \/ \E m \in Sequences : writes[s].transactions = {Leg(s, Source(s), TRUE, m)}
  BY <1>1, SessionIs, RowsSoFar
<1>5. /\ rows = [field \in Fields |-> rows[field]]
      /\ rows.transactions = writes[s].transactions \cup {row} /\ rows.transfers = {Link(s)}
      /\ rows.snapshots = {} /\ rows.archived = {}
      /\ rows.mutations = writes[s].mutations
  <2> HIDE DEF row
  <2> QED
    BY <1>4 DEF Fields
<1> HIDE DEF rows, row
<1>6. /\ writes'[s] = rows
      /\ \A o \in Sessions \ {s} : writes'[o] = writes[o]
      /\ writes' = [o \in Sessions |-> writes'[o]]
      /\ \A o \in Sessions : writes'[o] = [field \in Fields |-> writes'[o][field]]
  BY <1>1, <1>2, <1>5, OnlyItsWrites
<1>7. pc'[s] = IF first THEN "insert" ELSE "commit"
  BY <1>1 DEF Shape
<1>8. Shape'
  BY <1>1, <1>6 DEF Shape
<1>9. Untouched(s)
  BY <1>1, <1>6 DEF Untouched, Shape
<1>10. /\ nextSequence \in Sequences
       /\ \A t \in transactions : t.sequence < nextSequence /\ t.sequence # nextSequence
       /\ nextSequence < nextSequence' /\ nextSequence' \in Nat /\ nextSequence <= nextSequence'
  BY <1>1, NumberDrawn
<1>11. nextOrder \in Nat
  BY DEF SInv, RowsOK
<1>12. DrawsNext(s)
  <2>1. nextOrder' \in Nat /\ nextOrder <= nextOrder'
    BY <1>1, <1>11
  <2>2. writes'[s].transactions = writes[s].transactions \cup {row} /\ writes'[s].snapshots = {}
    BY <1>5, <1>6
  <2> QED
    BY <1>3, <1>4, <1>10, <2>1, <2>2 DEF DrawsNext
<1>13. /\ ~ Archiving(s)'
       /\ ~ Inserted(s, "post_transaction")' /\ ~ Inserted(s, "create_snapshot")'
       /\ Inserting(s, "create_transfer")' <=> first
       /\ Inserted(s, "create_transfer")' <=> ~ first
  <2>1. Claiming(s)'
    BY <1>4, <1>5, <1>6 DEF Claiming
  <2> QED
    BY <1>1, <1>7, <2>1 DEF Archiving, Inserted, Inserting
<1>14. \A m : /\ Leg(s, Source(s), TRUE, m)' = Leg(s, Source(s), TRUE, m)
              /\ Leg(s, Destination(s), FALSE, m)' = Leg(s, Destination(s), FALSE, m)
  BY <1>1 DEF Leg, Entry, Source, Destination, Amount
<1>15. EntriesOK(s)'
  <2>1. PICK n \in Sequences : n = nextSequence
    BY <1>10
  <2>2. CASE first
    <3>1. writes'[s].transactions = {Leg(s, Source(s), TRUE, n)'}
      BY <1>5, <1>6, <1>14, <2>1, <2>2 DEF row
    <3> QED
      BY <1>5, <1>6, <1>13, <2>2, <3>1 DEF EntriesOK
  <2>3. CASE ~ first
    <3>1. PICK m \in Sequences : writes[s].transactions = {Leg(s, Source(s), TRUE, m)}
      BY <1>4, <2>3
    <3>2. m < n
      <4>1. Leg(s, Source(s), TRUE, m).sequence = m
        BY DEF Leg, Entry
      <4>2. NumbersOK(s)
        BY SessionIs
      <4> QED
        BY <2>1, <3>1, <4>1, <4>2 DEF NumbersOK
    <3>3. writes'[s].transactions = {Leg(s, Source(s), TRUE, m)', Leg(s, Destination(s), FALSE, n)'}
      <4>1. row = Leg(s, Destination(s), FALSE, n)
        BY <2>1, <2>3 DEF row
      <4> QED
        BY <1>5, <1>6, <1>14, <3>1, <4>1
    <3> QED
      BY <1>13, <2>3, <3>2, <3>3 DEF EntriesOK
  <2> QED
    BY <2>2, <2>3
<1>16. OthersOK(s)'
  <2>1. Link(s)' = Link(s)
    BY <1>1 DEF Link, Source, Destination, Amount
  <2> QED
    BY <1>5, <1>6, <1>13, <2>1 DEF OthersOK
<1>17. NumbersOK(s)'
  <2>1. transactions' = transactions
    BY <1>1 DEF committed
  <2>2. ASSUME NEW t \in writes'[s].transactions
        PROVE  /\ t.sequence < nextSequence'
               /\ \A u \in transactions : u.sequence # t.sequence /\ (u.account = t.account => u.sequence < t.sequence)
    <3>1. t \in writes[s].transactions \/ t = row
      BY <1>5, <1>6
    <3>2. CASE t = row
      BY <1>3, <1>10, <3>2
    <3>3. CASE t \in writes[s].transactions
      <4>1. NumbersOK(s) /\ EntriesOK(s) /\ OthersOK(s)
        BY SessionIs
      <4>2. t.sequence \in Nat
        BY <1>1, <3>3, <4>1, WrittenTypes, RowsHaveNumbers
      <4>3. nextSequence \in Nat /\ t.sequence < nextSequence
        BY <3>3, <4>1 DEF NumbersOK, SInv, RowsOK
      <4>4. t.sequence < nextSequence'
        BY <1>1, <4>2, <4>3
      <4> QED
        BY <3>3, <4>1, <4>4 DEF NumbersOK
    <3> QED
      BY <3>1, <3>2, <3>3
  <2> QED
    BY <1>5, <1>6, <2>1, <2>2 DEF NumbersOK
<1>18. pc'[s] \in {"insert", "commit"}
  BY <1>7
<1> HIDE DEF first
<1> QED
  BY <1>1, <1>5, <1>6, <1>8, <1>9, <1>12, <1>15, <1>16, <1>17, <1>18, InsertStep

LEMMA ReadSnapshotStep ==
  ASSUME SInv, NEW s \in Sessions, ReadSnapshot(s)
  PROVE  SInv' /\ UNCHANGED vars
<1> DEFINE seen == [snapshots |-> SnapshotsOf(Account(s)), transactions |-> TransactionsOf(Account(s)),
                    taken |-> TRUE]
<1>1. /\ UNCHANGED <<committed, request>> /\ request' = request /\ UNCHANGED counters
      /\ nextSequence' = nextSequence /\ nextOrder' = nextOrder
      /\ view' = [view EXCEPT ![s] = seen] /\ observed' = observed
      /\ pc' = pc /\ writes' = writes /\ answer' = answer /\ lock' = lock
      /\ Shape
  BY SessionIs DEF ReadSnapshot, counters
<1> HIDE DEF seen
<1>2. Shape'
  BY <1>1 DEF Shape
<1>3. Untouched(s)
  BY <1>1 DEF Untouched
<1>4. DrawsNext(s)
  <2>1. Claiming(s)' <=> Claiming(s)
    BY <1>1 DEF Claiming
  <2> QED
    BY <1>1, <2>1, NothingDrawn
<1>5. SessionOK(s)'
  <2>1. nextSequence \in Nat /\ nextOrder \in Nat
    BY DEF SInv, RowsOK
  <2> QED
    BY <1>1, <2>1, SessionStays
<1> QED
  BY <1>1, <1>2, <1>3, <1>4, <1>5, SessionStep

LEMMA ReadTransactionsStep ==
  ASSUME SInv, NEW s \in Sessions, ReadTransactions(s)
  PROVE  SInv' /\ UNCHANGED vars
<1>1. PICK balance : answer' = [answer EXCEPT ![s] = balance]
  BY DEF ReadTransactions
<1>2. /\ UNCHANGED <<committed, request>> /\ request' = request /\ UNCHANGED counters
      /\ pc' = [pc EXCEPT ![s] = "done"]
      /\ UNCHANGED <<view, observed>> /\ writes' = writes /\ lock' = lock
      /\ pc[s] = "read"
      /\ Shape /\ PcOK(s) /\ ClaimOK(s)
  BY SessionIs DEF ReadTransactions, reads
<1>3. pc'[s] = "done"
  BY <1>2 DEF Shape
<1>4. Shape'
  BY <1>1, <1>2 DEF Shape
<1>5. Untouched(s)
  BY <1>1, <1>2 DEF Untouched, Shape
<1>6. ~ Keyed(s)' /\ ~ Claiming(s) /\ ~ Claiming(s)' /\ ~ Archiving(s)'
  BY <1>2, <1>3, NoRowsYet DEF PcOK, Keyed, Claiming, Archiving
<1>7. DrawsNext(s)
  BY <1>2, <1>6, NothingDrawn
<1>8. EntriesOK(s)' /\ OthersOK(s)' /\ NumbersOK(s)'
  BY <1>2, <1>6, NoRowsYet, NoRowsStill
<1>9. PcOK(s)' /\ LockOK(s)'
  BY <1>3 DEF PcOK, LockOK, InTransaction
<1>10. ClaimOK(s)' /\ CheckOK(s)' /\ AnswerOK(s)' /\ FreshOK(s)'
  BY <1>3, <1>6 DEF ClaimOK, CheckOK, AnswerOK, FreshOK, Claiming
<1> QED
  BY <1>2, <1>4, <1>5, <1>7, <1>8, <1>9, <1>10, SessionStep DEF SessionOK

-----------------------------------------------------------------------------
(* A commit *)

\* A session holds the row of every account that its rows are about.
LEMMA RowsAreLocked ==
  ASSUME SInv, NEW s \in Sessions
  PROVE  /\ \A t \in writes[s].transactions : lock[t.account] = s
         /\ \A t \in writes[s].snapshots : lock[t.account] = s
         /\ \A a \in writes[s].archived : lock[a] = s
<1>1. /\ Shape /\ LockOK(s) /\ EntriesOK(s) /\ OthersOK(s)
  BY SessionIs
<1>2. ASSUME NEW t \in writes[s].transactions
      PROVE  lock[t.account] = s
  <2>1. \A kind, account, effect, n : Entry(s, kind, account, effect, n).account = account
    BY DEF Entry
  <2>2. \A account, isSource, n : Leg(s, account, isSource, n).account = account
    BY <2>1 DEF Leg
  <2>3. CASE Inserted(s, "post_transaction")
    <3>1. t.account = Account(s)
      BY <1>1, <1>2, <2>1, <2>3 DEF EntriesOK
    <3> QED
      BY <1>1, <2>3, <3>1, RequestTypes DEF Inserted, LockOK
  <2>4. CASE Inserted(s, "create_transfer") /\ ~ Inserted(s, "post_transaction")
    <3>1. t.account \in {Source(s), Destination(s)}
      <4>1. PICK m \in Sequences, n \in Sequences :
              writes[s].transactions = {Leg(s, Source(s), TRUE, m), Leg(s, Destination(s), FALSE, n)}
        BY <1>1, <2>4 DEF EntriesOK
      <4>2. /\ Leg(s, Source(s), TRUE, m).account = Source(s)
            /\ Leg(s, Destination(s), FALSE, n).account = Destination(s)
        BY <2>2
      <4> QED
        BY <1>2, <4>1, <4>2
    <3> QED
      BY <1>1, <2>4, <3>1, RequestTypes DEF Inserted, LockOK
  <2>5. CASE Inserting(s, "create_transfer") /\ ~ Inserted(s, "create_transfer") /\ ~ Inserted(s, "post_transaction")
    <3>1. t.account = Source(s)
      <4>1. PICK m \in Sequences : writes[s].transactions = {Leg(s, Source(s), TRUE, m)}
        BY <1>1, <1>2, <2>5 DEF EntriesOK
      <4> QED
        BY <1>2, <2>2, <4>1
    <3> QED
      BY <1>1, <2>5, <3>1, RequestTypes DEF Inserting, LockOK
  <2> QED
    BY <1>1, <1>2, <2>3, <2>4, <2>5 DEF EntriesOK
<1>3. ASSUME NEW t \in writes[s].snapshots
      PROVE  lock[t.account] = s
  <2>1. Inserted(s, "create_snapshot") /\ t.account = Account(s)
    BY <1>1, <1>3 DEF OthersOK, Observation
  <2> QED
    BY <1>1, <2>1, RequestTypes DEF Inserted, LockOK
<1>4. ASSUME NEW a \in writes[s].archived
      PROVE  lock[a] = s
  <2>1. Archiving(s) /\ a = Account(s)
    BY <1>1, <1>4 DEF OthersOK
  <2> QED
    BY <1>1, <2>1, RequestTypes DEF Archiving, LockOK
<1> QED
  BY <1>2, <1>3, <1>4

\* The rows a commit adds to the tables, and what it leaves of the session.
LEMMA CommitFacts ==
  ASSUME SInv, NEW s \in Sessions, Commit(s)
  PROVE  /\ pc[s] = "commit" /\ pc'[s] = "done" /\ writes'[s] = NoWrites
         /\ status' = [a \in Accounts |-> IF a \in writes[s].archived THEN "archived" ELSE status[a]]
         /\ transactions' = transactions \cup writes[s].transactions
         /\ transfers' = transfers \cup writes[s].transfers
         /\ snapshots' = snapshots \cup writes[s].snapshots
         /\ mutations' = mutations \cup writes[s].mutations
         /\ UNCHANGED counters /\ nextSequence' = nextSequence /\ nextOrder' = nextOrder
         /\ request' = request /\ answer' = answer
         /\ \A o \in Sessions \ {s} : pc'[o] = pc[o] /\ writes'[o] = writes[o]
         /\ \A a \in Accounts : lock[a] # s => lock'[a] = lock[a]
         /\ Shape'
         /\ ~ Claiming(s)' /\ ~ Archiving(s)'
<1>1. /\ pc[s] = "commit" /\ pc' = [pc EXCEPT ![s] = "done"]
      /\ writes' = [writes EXCEPT ![s] = NoWrites]
      /\ lock' = [a \in Accounts |-> IF lock[a] = s THEN NoSession ELSE lock[a]]
      /\ observed' = [r \in Sessions |->
            IF pc[r] = "read" THEN observed[r] \cup {BalanceOf(Account(r))'} ELSE observed[r]]
      /\ status' = [a \in Accounts |-> IF a \in writes[s].archived THEN "archived" ELSE status[a]]
      /\ transactions' = transactions \cup writes[s].transactions
      /\ transfers' = transfers \cup writes[s].transfers
      /\ snapshots' = snapshots \cup writes[s].snapshots
      /\ mutations' = mutations \cup writes[s].mutations
      /\ UNCHANGED counters /\ nextSequence' = nextSequence /\ nextOrder' = nextOrder
      /\ request' = request /\ answer' = answer /\ view' = view
  BY DEF Commit, Observe, Release, counters
<1>2. Shape
  BY DEF SInv
<1>3. NoWrites = [field \in Fields |-> NoWrites[field]]
  BY DEF NoWrites, Fields
<1>4. /\ writes'[s] = NoWrites
      /\ \A o \in Sessions \ {s} : writes'[o] = writes[o]
      /\ writes' = [o \in Sessions |-> writes'[o]]
      /\ \A o \in Sessions : writes'[o] = [field \in Fields |-> writes'[o][field]]
  BY <1>1, <1>2, <1>3, OnlyItsWrites
<1>5. /\ pc'[s] = "done"
      /\ \A o \in Sessions \ {s} : pc'[o] = pc[o]
      /\ pc' = [o \in Sessions |-> pc'[o]]
  BY <1>1, <1>2 DEF Shape
<1>6. /\ lock' \in [Accounts -> Sessions \cup {NoSession}]
      /\ \A a \in Accounts : lock[a] # s => lock'[a] = lock[a]
  BY <1>1, <1>2 DEF Shape
<1>7. observed' = [o \in Sessions |-> observed'[o]]
  BY <1>1
<1>8. Shape'
  BY <1>1, <1>2, <1>4, <1>5, <1>6, <1>7 DEF Shape
<1>9. ~ Claiming(s)' /\ ~ Archiving(s)'
  BY <1>4, <1>5 DEF Claiming, Archiving, NoWrites
<1> QED
  BY <1>1, <1>4, <1>5, <1>6, <1>8, <1>9

\* A session that does not commit finds its locked rows, its key and its
\* numbers as they were.
LEMMA CommitKeepsOthers ==
  ASSUME SInv, NEW s \in Sessions, Commit(s), NEW o \in Sessions, o # s
  PROVE  SessionOK(o)'
<1>1. /\ status' = [a \in Accounts |-> IF a \in writes[s].archived THEN "archived" ELSE status[a]]
      /\ transactions' = transactions \cup writes[s].transactions
      /\ snapshots' = snapshots \cup writes[s].snapshots
      /\ mutations' = mutations \cup writes[s].mutations
      /\ nextSequence' = nextSequence /\ nextOrder' = nextOrder
      /\ request' = request /\ answer' = answer
      /\ pc'[o] = pc[o] /\ writes'[o] = writes[o]
      /\ \A a \in Accounts : lock[a] # s => lock'[a] = lock[a]
  BY CommitFacts
<1>2. /\ PcOK(o) /\ LockOK(o) /\ ClaimOK(o) /\ CheckOK(o) /\ EntriesOK(o) /\ OthersOK(o) /\ NumbersOK(o)
      /\ FreshOK(o) /\ AnswerOK(o)
      /\ Shape /\ ClaimOK(s)
  BY SessionIs
<1>3. Apart(s, o) /\ Apart(o, s)
  BY DEF SInv
<1>4. /\ EntriesOK(o)' /\ OthersOK(o)'
      /\ Claiming(o)' <=> Claiming(o)
      /\ Archiving(o)' <=> Archiving(o)
      /\ Keyed(o)' <=> Keyed(o)
      /\ ClaimRow(o)' = ClaimRow(o)
  BY <1>1, <1>2, RowsStay
<1>5. LockSet(request[o]) \subseteq Accounts
  BY <1>2, LockedAccounts
<1>6. PcOK(o)'
  BY <1>1, <1>2, <1>4 DEF PcOK, InTransaction
<1>7. LockOK(o)'
  BY <1>1, <1>2, <1>5 DEF LockOK
<1>8. writes[s].mutations = {} \/ writes[s].mutations = {ClaimRow(s)}
  BY <1>2 DEF ClaimOK
<1>9. ClaimRow(s).resource = s
  BY DEF ClaimRow
<1>10. ClaimOK(o)'
  <2>1. ASSUME Claiming(o)
        PROVE  Unclaimed(request[o].operation, request[o].key)'
    <3>1. Unclaimed(request[o].operation, request[o].key)
      BY <1>2, <2>1 DEF ClaimOK
    <3>2. \A m \in writes[s].mutations : ~ (m.operation = request[o].operation /\ m.key = request[o].key)
      <4>1. CASE writes[s].mutations = {}
        BY <4>1
      <4>2. CASE writes[s].mutations = {ClaimRow(s)}
        <5>1. Claiming(s)
          BY <4>2 DEF Claiming
        <5>2. ~ SameKey(request[s], request[o])
          BY <1>3, <2>1, <5>1 DEF Apart
        <5> QED
          BY <4>2, <5>2 DEF SameKey, ClaimRow
      <4> QED
        BY <1>8, <4>1, <4>2
    <3> QED
      BY <1>1, <3>1, <3>2 DEF Unclaimed
  <2> QED
    BY <1>1, <1>2, <1>4, <2>1 DEF ClaimOK
<1>11. CheckOK(o)'
  <2>1. ASSUME pc[o] \in {"insert", "commit"}
        PROVE  Passes(o)' <=> Passes(o)
    <3>1. ASSUME NEW a \in LockSet(request[o])
          PROVE  /\ TransactionsOf(a)' = TransactionsOf(a)
                 /\ SnapshotsOf(a)' = SnapshotsOf(a)
                 /\ status'[a] = status[a]
      <4>1. lock[a] = o
        BY <1>2, <2>1 DEF LockOK
      <4>2. /\ \A t \in writes[s].transactions : t.account # a
            /\ \A t \in writes[s].snapshots : t.account # a
            /\ a \notin writes[s].archived
        BY <4>1, RowsAreLocked
      <4> QED
        BY <1>1, <1>5, <4>2 DEF TransactionsOf, SnapshotsOf
    <3> QED
      BY <1>1, <1>2, <3>1, SamePasses
  <2>2. Archiving(o) => pc[o] = "commit"
    BY DEF Archiving
  <2> QED
    BY <1>1, <1>2, <1>4, <2>1, <2>2 DEF CheckOK
<1>12. NumbersOK(o)'
  <2>1. ASSUME NEW t \in writes[o].transactions, NEW u \in writes[s].transactions
        PROVE  u.sequence # t.sequence /\ u.account # t.account
    <3>1. lock[t.account] = o /\ lock[u.account] = s
      BY <2>1, RowsAreLocked
    <3> QED
      BY <1>3, <2>1, <3>1 DEF Apart
  <2>2. ASSUME NEW t \in writes[o].snapshots, NEW u \in writes[s].snapshots
        PROVE  u.order # t.order /\ u.account # t.account
    <3>1. lock[t.account] = o /\ lock[u.account] = s
      BY <2>2, RowsAreLocked
    <3> QED
      BY <1>3, <2>2, <3>1 DEF Apart
  <2> QED
    BY <1>1, <1>2, <2>1, <2>2 DEF NumbersOK
<1>13. FreshOK(o)'
  BY <1>1, <1>2, <1>8, <1>9 DEF FreshOK
<1>14. AnswerOK(o)'
  BY <1>1, <1>2, <1>4 DEF AnswerOK
<1> QED
  BY <1>4, <1>6, <1>7, <1>10, <1>11, <1>12, <1>13, <1>14 DEF SessionOK

\* The session that commits has answered, and leaves no rows behind.
LEMMA CommitEnds ==
  ASSUME SInv, NEW s \in Sessions, Commit(s)
  PROVE  SessionOK(s)'
<1>1. /\ pc[s] = "commit" /\ pc'[s] = "done" /\ writes'[s] = NoWrites
      /\ mutations' = mutations \cup writes[s].mutations
      /\ request' = request /\ answer' = answer
      /\ ~ Claiming(s)' /\ ~ Archiving(s)'
  BY CommitFacts
<1>2. ClaimOK(s) /\ AnswerOK(s)
  BY SessionIs
<1>3. EntriesOK(s)' /\ OthersOK(s)' /\ NumbersOK(s)'
  BY <1>1, NoRowsStill DEF NoWrites
<1>4. PcOK(s)' /\ LockOK(s)' /\ CheckOK(s)' /\ FreshOK(s)'
  BY <1>1 DEF PcOK, LockOK, CheckOK, FreshOK, InTransaction
<1>5. ClaimOK(s)'
  BY <1>1 DEF ClaimOK, NoWrites
<1>6. AnswerOK(s)'
  <2>1. Keyed(s)' <=> Keyed(s)
    BY <1>1 DEF Keyed
  <2>2. CASE Claiming(s)
    <3>1. ClaimRow(s) \in mutations' /\ answer[s] = s
      BY <1>1, <1>2, <2>2 DEF ClaimOK, Claiming
    <3>2. /\ SameKey(ClaimRow(s), request[s]) /\ ClaimRow(s).fingerprint = request[s].fingerprint
          /\ ClaimRow(s).resource = s
      BY DEF SameKey, ClaimRow
    <3> QED
      BY <1>1, <3>1, <3>2 DEF AnswerOK
  <2>3. CASE ~ Claiming(s)
    BY <1>1, <1>2, <2>1, <2>3 DEF AnswerOK
  <2> QED
    BY <2>2, <2>3
<1> QED
  BY <1>3, <1>4, <1>5, <1>6 DEF SessionOK

\* The tables stay what their schema says, with the rows of one session added.
LEMMA CommitKeepsRows ==
  ASSUME SInv, NEW s \in Sessions, Commit(s)
  PROVE  RowsOK'
<1>1. /\ status' = [a \in Accounts |-> IF a \in writes[s].archived THEN "archived" ELSE status[a]]
      /\ transactions' = transactions \cup writes[s].transactions
      /\ transfers' = transfers \cup writes[s].transfers
      /\ snapshots' = snapshots \cup writes[s].snapshots
      /\ mutations' = mutations \cup writes[s].mutations
      /\ nextSequence' = nextSequence /\ nextOrder' = nextOrder
  BY CommitFacts
<1>2. /\ Shape /\ RowsOK /\ PcOK(s) /\ ClaimOK(s) /\ EntriesOK(s) /\ OthersOK(s) /\ NumbersOK(s)
  BY SessionIs
<1>3. /\ writes[s].transactions \subseteq TransactionRow
      /\ writes[s].snapshots \subseteq SnapshotRow
      /\ writes[s].transfers \subseteq TransferRow
      /\ IsFiniteSet(writes[s].transactions)
  BY <1>2, WrittenTypes
<1>4. Claiming(s) => ClaimRow(s) \in MutationRow
  <2>1. SUFFICES ASSUME Keyed(s)
                 PROVE  ClaimRow(s) \in MutationRow
    BY <1>2 DEF ClaimOK
  <2>2. CASE request[s].operation = "post_transaction"
    BY <1>2, <2>2, RequestTypes DEF ClaimRow, MutationRow
  <2>3. CASE request[s].operation = "create_snapshot"
    BY <1>2, <2>3, RequestTypes DEF ClaimRow, MutationRow
  <2>4. CASE request[s].operation = "create_transfer"
    BY <1>2, <2>4, RequestTypes DEF ClaimRow, MutationRow
  <2> QED
    BY <2>1, <2>2, <2>3, <2>4 DEF Keyed
<1>5. /\ writes[s].mutations \subseteq MutationRow
      /\ \A m, n \in writes[s].mutations : m = n
      /\ \A m \in writes[s].mutations, n \in mutations : ~ (m.operation = n.operation /\ m.key = n.key)
  <2>1. CASE writes[s].mutations = {}
    BY <2>1
  <2>2. CASE writes[s].mutations = {ClaimRow(s)}
    <3>1. Claiming(s)
      BY <2>2 DEF Claiming
    <3>2. Unclaimed(request[s].operation, request[s].key)
      BY <1>2, <3>1 DEF ClaimOK
    <3>3. ClaimRow(s).operation = request[s].operation /\ ClaimRow(s).key = request[s].key
      BY DEF ClaimRow
    <3> QED
      BY <1>4, <2>2, <3>1, <3>2, <3>3 DEF Unclaimed
  <2> QED
    BY <1>2, <2>1, <2>2 DEF ClaimOK
<1>6. TypeOK'
  BY <1>1, <1>2, <1>3, <1>5 DEF RowsOK, TypeOK
<1>7. IsFiniteSet(transactions')
  BY <1>1, <1>2, <1>3, FS_Union DEF RowsOK
<1>8. \A t, u \in writes[s].transactions : t.sequence = u.sequence => t = u
  <2>1. CASE \E x : writes[s].transactions = {x}
    BY <2>1
  <2>2. CASE writes[s].transactions = {}
    BY <2>2
  <2>3. CASE Inserted(s, "create_transfer") /\ ~ Inserted(s, "post_transaction")
    <3>1. PICK m, n \in Sequences :
            m < n /\ writes[s].transactions = {Leg(s, Source(s), TRUE, m), Leg(s, Destination(s), FALSE, n)}
      BY <1>2, <2>3 DEF EntriesOK
    <3>2. Leg(s, Source(s), TRUE, m).sequence = m /\ Leg(s, Destination(s), FALSE, n).sequence = n
      BY DEF Leg, Entry
    <3>3. m # n
      BY <3>1, LiabilityAssumption, AmountAssumption, BalanceAssumption, BoundAssumption DEF Sequences
    <3> QED
      BY <3>1, <3>2, <3>3
  <2> QED
    BY <1>2, <2>1, <2>2, <2>3 DEF EntriesOK
<1>9. SequencesAreUnique'
  <2>1. \A t \in writes[s].transactions, u \in transactions : u.sequence # t.sequence
    BY <1>2 DEF NumbersOK
  <2> QED
    BY <1>1, <1>2, <1>8, <2>1 DEF RowsOK, SequencesAreUnique
<1>10. \A m, n \in mutations' : m.operation = n.operation /\ m.key = n.key => m = n
  BY <1>1, <1>2, <1>5 DEF RowsOK
<1>11. /\ \A t \in transactions' : t.sequence < nextSequence'
       /\ \A t \in snapshots' : t.order < nextOrder'
  BY <1>1, <1>2 DEF RowsOK, NumbersOK
<1> QED
  BY <1>1, <1>2, <1>6, <1>7, <1>9, <1>10, <1>11 DEF RowsOK

LEMMA CommitKeepsInvariant ==
  ASSUME SInv, NEW s \in Sessions, Commit(s)
  PROVE  SInv'
<1>1. Shape' /\ RowsOK'
  BY CommitFacts, CommitKeepsRows
<1>2. \A o \in Sessions : SessionOK(o)'
  BY CommitKeepsOthers, CommitEnds
<1>3. ASSUME NEW o \in Sessions, NEW u \in Sessions, o # u PROVE Apart(o, u)'
  <2>1. /\ writes'[s] = NoWrites /\ ~ Claiming(s)' /\ request' = request
        /\ \A v \in Sessions \ {s} : writes'[v] = writes[v]
    BY CommitFacts
  <2>2. CASE o = s \/ u = s
    BY <2>1, <2>2 DEF Apart, NoWrites
  <2>3. CASE o # s /\ u # s
    <3>1. Apart(o, u)
      BY <1>3 DEF SInv
    <3>2. writes'[o] = writes[o] /\ writes'[u] = writes[u]
      BY <2>1, <2>3
    <3> QED
      BY <2>1, <3>1, <3>2 DEF Apart, Claiming
  <2> QED
    BY <2>2, <2>3
<1> QED
  BY <1>1, <1>2, <1>3 DEF SInv

-----------------------------------------------------------------------------
(* What a commit is to Ledger *)

\* A session that has claimed its key commits one operation of Ledger.
LEMMA CommittedPost ==
  ASSUME SInv, NEW s \in Sessions, Commit(s), Claiming(s), request[s].operation = "post_transaction"
  PROVE  Next
<1> DEFINE effect == request[s].fingerprint.effect
<1>1. /\ pc[s] = "commit" /\ Inserted(s, "post_transaction")
      /\ status' = [a \in Accounts |-> IF a \in writes[s].archived THEN "archived" ELSE status[a]]
      /\ transactions' = transactions \cup writes[s].transactions
      /\ transfers' = transfers \cup writes[s].transfers
      /\ snapshots' = snapshots \cup writes[s].snapshots
      /\ mutations' = mutations \cup writes[s].mutations
  BY CommitFacts DEF Inserted
<1>2. /\ Shape /\ RowsOK /\ PcOK(s) /\ ClaimOK(s) /\ CheckOK(s) /\ EntriesOK(s) /\ OthersOK(s) /\ NumbersOK(s)
      /\ FreshOK(s)
  BY SessionIs
<1>3. /\ request[s].key \in Keys /\ Account(s) \in Accounts /\ effect \in Effects /\ Amount(s) \in Amounts
      /\ request[s].fingerprint \in PostFingerprint
      /\ LockSet(request[s]) = {Account(s)}
  BY <1>2, RequestTypes
<1>4. PICK n \in Sequences : writes[s].transactions = {Entry(s, "manual", Account(s), effect, n)}
  BY <1>1, <1>2 DEF EntriesOK
<1>5. /\ writes[s].snapshots = {} /\ writes[s].transfers = {} /\ writes[s].archived = {}
  BY <1>1, <1>2 DEF OthersOK, Inserted, Inserting, Archiving
<1>6. writes[s].mutations = {ClaimRow(s)} /\ Unclaimed("post_transaction", request[s].key)
  BY <1>2 DEF ClaimOK, Claiming
<1>7. Passes(s)
  BY <1>1, <1>2 DEF CheckOK
<1>8. Active(Account(s)) /\ ValidProspectiveEffect(Account(s), effect, Amount(s))
  <2>1. Active(Account(s)) /\ ValidEffect(Account(s), effect, Amount(s))
    BY <1>3, <1>7 DEF Passes
  <2> QED
    BY <1>2, <2>1, ValidEffectIs DEF RowsOK
<1>9. effect \in EffectsFor(Account(s))
  BY <1>1, <1>2 DEF PcOK, InTransaction, Admissible, Account
<1>10. s \in FreshIds
  BY <1>1, <1>2 DEF FreshOK, FreshIds
<1>11. n \in NextSequences(Account(s))
  <2>1. Entry(s, "manual", Account(s), effect, n).sequence = n
        /\ Entry(s, "manual", Account(s), effect, n).account = Account(s)
    BY DEF Entry
  <2> QED
    BY <1>2, <1>4, <2>1 DEF NumbersOK, NextSequences, TransactionsOf
<1>12. PostedRows(request[s].key, Account(s), effect, Amount(s), s, n)
  <2>1. status' = status
    BY <1>1, <1>2, <1>5 DEF RowsOK, TypeOK
  <2>2. request[s].fingerprint = [account |-> Account(s), effect |-> effect, amount |-> Amount(s)]
    BY <1>3 DEF PostFingerprint, Account, Amount
  <2> QED
    BY <1>1, <1>4, <1>5, <1>6, <2>1, <2>2 DEF PostedRows, Entry, ClaimRow
<1>13. PostManualTransaction(request[s].key, Account(s), effect, Amount(s))
  BY <1>6, <1>8, <1>9, <1>10, <1>11, <1>12 DEF PostManualTransaction
<1> QED
  BY <1>3, <1>13 DEF Next

LEMMA CommittedSnapshot ==
  ASSUME SInv, NEW s \in Sessions, Commit(s), Claiming(s), request[s].operation = "create_snapshot"
  PROVE  Next
<1> DEFINE balance == request[s].fingerprint.balance
           cutoff == request[s].fingerprint.cutoff
<1>1. /\ pc[s] = "commit" /\ Inserted(s, "create_snapshot")
      /\ status' = [a \in Accounts |-> IF a \in writes[s].archived THEN "archived" ELSE status[a]]
      /\ transactions' = transactions \cup writes[s].transactions
      /\ transfers' = transfers \cup writes[s].transfers
      /\ snapshots' = snapshots \cup writes[s].snapshots
      /\ mutations' = mutations \cup writes[s].mutations
  BY CommitFacts DEF Inserted
<1>2. /\ Shape /\ RowsOK /\ PcOK(s) /\ ClaimOK(s) /\ CheckOK(s) /\ EntriesOK(s) /\ OthersOK(s) /\ NumbersOK(s)
      /\ FreshOK(s)
  BY SessionIs
<1>3. /\ request[s].key \in Keys /\ Account(s) \in Accounts
      /\ balance \in SnapshotBalances /\ cutoff \in 0..MaxSequence
      /\ request[s].fingerprint \in SnapshotFingerprint
      /\ LockSet(request[s]) = {Account(s)}
  BY <1>2, RequestTypes
<1>4. PICK n \in Orders : writes[s].snapshots = {Observation(s, n)}
  BY <1>1, <1>2 DEF OthersOK
<1>5. /\ writes[s].transactions = {} /\ writes[s].transfers = {} /\ writes[s].archived = {}
  BY <1>1, <1>2 DEF EntriesOK, OthersOK, Inserted, Inserting, Archiving
<1>6. writes[s].mutations = {ClaimRow(s)} /\ Unclaimed("create_snapshot", request[s].key)
  BY <1>2 DEF ClaimOK, Claiming
<1>7. Passes(s)
  BY <1>1, <1>2 DEF CheckOK
<1>8. Active(Account(s)) /\ CutoffKnown(Account(s), cutoff) /\ ~ CutoffRegresses(Account(s), cutoff)
  BY <1>3, <1>7 DEF Passes
<1>9. Account(s) \in LiabilityAccounts => balance >= 0
  BY <1>1, <1>2 DEF PcOK, InTransaction, Admissible, Account
<1>10. s \in FreshIds
  BY <1>1, <1>2 DEF FreshOK, FreshIds
<1>11. n \in NextOrders(Account(s))
  <2>1. Observation(s, n).order = n /\ Observation(s, n).account = Account(s)
    BY DEF Observation
  <2> QED
    BY <1>2, <1>4, <2>1 DEF NumbersOK, NextOrders, SnapshotsOf
<1>12. SnapshotRows(request[s].key, Account(s), balance, cutoff, s, n)
  <2>1. status' = status
    BY <1>1, <1>2, <1>5 DEF RowsOK, TypeOK
  <2>2. request[s].fingerprint = [account |-> Account(s), balance |-> balance, cutoff |-> cutoff]
    BY <1>3 DEF SnapshotFingerprint, Account
  <2> QED
    BY <1>1, <1>4, <1>5, <1>6, <2>1, <2>2 DEF SnapshotRows, Observation, ClaimRow
<1>13. CreateSnapshot(request[s].key, Account(s), balance, cutoff)
  BY <1>6, <1>8, <1>9, <1>10, <1>11, <1>12 DEF CreateSnapshot
<1> QED
  BY <1>3, <1>13 DEF Next

LEMMA CommittedTransfer ==
  ASSUME SInv, NEW s \in Sessions, Commit(s), Claiming(s), request[s].operation = "create_transfer"
  PROVE  Next
<1>1. /\ pc[s] = "commit" /\ Inserted(s, "create_transfer") /\ ~ Inserted(s, "post_transaction")
      /\ status' = [a \in Accounts |-> IF a \in writes[s].archived THEN "archived" ELSE status[a]]
      /\ transactions' = transactions \cup writes[s].transactions
      /\ transfers' = transfers \cup writes[s].transfers
      /\ snapshots' = snapshots \cup writes[s].snapshots
      /\ mutations' = mutations \cup writes[s].mutations
  BY CommitFacts DEF Inserted
<1>2. /\ Shape /\ RowsOK /\ PcOK(s) /\ ClaimOK(s) /\ CheckOK(s) /\ EntriesOK(s) /\ OthersOK(s) /\ NumbersOK(s)
      /\ FreshOK(s)
  BY SessionIs
<1>3. /\ request[s].key \in Keys /\ Source(s) \in Accounts /\ Destination(s) \in Accounts /\ Amount(s) \in Amounts
      /\ request[s].fingerprint \in TransferFingerprint
      /\ LockSet(request[s]) = {Source(s), Destination(s)}
  BY <1>2, RequestTypes
<1>4. PICK m, n \in Sequences :
        m < n /\ writes[s].transactions = {Leg(s, Source(s), TRUE, m), Leg(s, Destination(s), FALSE, n)}
  BY <1>1, <1>2 DEF EntriesOK
<1>5. /\ writes[s].snapshots = {} /\ writes[s].transfers = {Link(s)} /\ writes[s].archived = {}
  BY <1>1, <1>2 DEF OthersOK, Inserted, Archiving
<1>6. writes[s].mutations = {ClaimRow(s)} /\ Unclaimed("create_transfer", request[s].key)
  BY <1>2 DEF ClaimOK, Claiming
<1>7. Passes(s)
  BY <1>1, <1>2 DEF CheckOK
<1>8. /\ Active(Source(s)) /\ Active(Destination(s))
      /\ ValidProspectiveEffect(Source(s), TransferEffect(Source(s), TRUE), Amount(s))
      /\ ValidProspectiveEffect(Destination(s), TransferEffect(Destination(s), FALSE), Amount(s))
  <2>1. /\ Active(Source(s)) /\ Active(Destination(s))
        /\ ValidEffect(Source(s), TransferEffect(Source(s), TRUE), Amount(s))
        /\ ValidEffect(Destination(s), TransferEffect(Destination(s), FALSE), Amount(s))
    BY <1>3, <1>7 DEF Passes
  <2> QED
    BY <1>2, <2>1, ValidEffectIs DEF RowsOK
<1>9. Source(s) # Destination(s) /\ Source(s) \notin LiabilityAccounts
  BY <1>1, <1>2 DEF PcOK, InTransaction, Admissible, Source, Destination
<1>10. s \in FreshIds
  BY <1>1, <1>2 DEF FreshOK, FreshIds
<1>11. m \in NextSequences(Source(s)) /\ n \in NextSequences(Destination(s))
  <2>1. /\ Leg(s, Source(s), TRUE, m).sequence = m /\ Leg(s, Source(s), TRUE, m).account = Source(s)
        /\ Leg(s, Destination(s), FALSE, n).sequence = n /\ Leg(s, Destination(s), FALSE, n).account = Destination(s)
    BY DEF Leg, Entry
  <2>2. /\ \A u \in transactions : u.sequence # m /\ (u.account = Source(s) => u.sequence < m)
        /\ \A u \in transactions : u.sequence # n /\ (u.account = Destination(s) => u.sequence < n)
    BY <1>2, <1>4, <2>1 DEF NumbersOK
  <2> QED
    BY <1>4, <2>2 DEF NextSequences, TransactionsOf
<1>12. TransferRows(request[s].key, Source(s), Destination(s), Amount(s), s, m, n)
  <2>1. status' = status
    BY <1>1, <1>2, <1>5 DEF RowsOK, TypeOK
  <2>2. request[s].fingerprint = [source |-> Source(s), destination |-> Destination(s), amount |-> Amount(s)]
    BY <1>3 DEF TransferFingerprint, Source, Destination, Amount
  <2> QED
    BY <1>1, <1>4, <1>5, <1>6, <2>1, <2>2 DEF TransferRows, Leg, Entry, Link, ClaimRow
<1>13. CreateTransfer(request[s].key, Source(s), Destination(s), Amount(s))
  BY <1>4, <1>6, <1>8, <1>9, <1>10, <1>11, <1>12 DEF CreateTransfer
<1> QED
  BY <1>3, <1>13 DEF Next

LEMMA CommittedArchival ==
  ASSUME SInv, NEW s \in Sessions, Commit(s), request[s].operation = "archive"
  PROVE  Next
<1>1. /\ pc[s] = "commit" /\ Archiving(s)
      /\ status' = [a \in Accounts |-> IF a \in writes[s].archived THEN "archived" ELSE status[a]]
      /\ transactions' = transactions \cup writes[s].transactions
      /\ transfers' = transfers \cup writes[s].transfers
      /\ snapshots' = snapshots \cup writes[s].snapshots
      /\ mutations' = mutations \cup writes[s].mutations
  BY CommitFacts DEF Archiving
<1>2. /\ Shape /\ RowsOK /\ ClaimOK(s) /\ CheckOK(s) /\ EntriesOK(s) /\ OthersOK(s)
  BY SessionIs
<1>3. /\ Account(s) \in Accounts /\ LockSet(request[s]) = {Account(s)}
  BY <1>2, RequestTypes
<1>4. /\ ~ Inserted(s, "post_transaction") /\ ~ Inserted(s, "create_transfer") /\ ~ Inserted(s, "create_snapshot")
      /\ ~ Inserting(s, "create_transfer") /\ ~ Keyed(s)
  BY <1>1 DEF Inserted, Inserting, Archiving, Keyed
<1>5. /\ writes[s].transactions = {} /\ writes[s].snapshots = {} /\ writes[s].transfers = {}
      /\ writes[s].archived = {Account(s)} /\ writes[s].mutations = {}
  BY <1>1, <1>2, <1>4 DEF EntriesOK, OthersOK, ClaimOK, Claiming
<1>6. Active(Account(s))
  BY <1>1, <1>2, <1>3 DEF CheckOK, Passes
<1>7. status' = [status EXCEPT ![Account(s)] = "archived"]
  BY <1>1, <1>2, <1>3, <1>5 DEF RowsOK, TypeOK
<1>8. ArchiveAccount(Account(s))
  BY <1>1, <1>5, <1>6, <1>7 DEF ArchiveAccount
<1> QED
  BY <1>3, <1>8 DEF Next

\* A replay commits nothing.
LEMMA CommittedReplay ==
  ASSUME SInv, NEW s \in Sessions, Commit(s), ~ Claiming(s), request[s].operation # "archive"
  PROVE  UNCHANGED vars
<1>1. /\ status' = [a \in Accounts |-> IF a \in writes[s].archived THEN "archived" ELSE status[a]]
      /\ transactions' = transactions \cup writes[s].transactions
      /\ transfers' = transfers \cup writes[s].transfers
      /\ snapshots' = snapshots \cup writes[s].snapshots
      /\ mutations' = mutations \cup writes[s].mutations
      /\ pc[s] = "commit"
  BY CommitFacts
<1>2. /\ Shape /\ RowsOK /\ ClaimOK(s) /\ EntriesOK(s) /\ OthersOK(s)
  BY SessionIs
<1>3. /\ ~ Inserted(s, "post_transaction") /\ ~ Inserted(s, "create_transfer") /\ ~ Inserted(s, "create_snapshot")
      /\ ~ Inserting(s, "create_transfer") /\ ~ Archiving(s)
  BY <1>1 DEF Inserted, Inserting, Archiving
<1>4. /\ writes[s].transactions = {} /\ writes[s].snapshots = {} /\ writes[s].transfers = {}
      /\ writes[s].archived = {} /\ writes[s].mutations = {}
  BY <1>2, <1>3 DEF EntriesOK, OthersOK, Claiming
<1>5. status' = status
  BY <1>1, <1>2, <1>4 DEF RowsOK, TypeOK
<1> QED
  BY <1>1, <1>4, <1>5 DEF vars

LEMMA CommitStep ==
  ASSUME SInv, NEW s \in Sessions, Commit(s)
  PROVE  SInv' /\ [Next]_vars
<1>1. CASE Claiming(s)
  <2>1. Keyed(s)
    BY <1>1, SessionIs DEF ClaimOK
  <2> QED
    BY <1>1, <2>1, CommitKeepsInvariant, CommittedPost, CommittedSnapshot, CommittedTransfer DEF Keyed
<1>2. CASE request[s].operation = "archive"
  BY <1>2, CommitKeepsInvariant, CommittedArchival
<1>3. CASE ~ Claiming(s) /\ request[s].operation # "archive"
  BY <1>3, CommitKeepsInvariant, CommittedReplay
<1> QED
  BY <1>1, <1>2, <1>3

-----------------------------------------------------------------------------
(* The invariant holds *)

LEMMA InitSInv == SessionsInit => SInv
<1> SUFFICES ASSUME SessionsInit
             PROVE  SInv
  OBVIOUS
<1>1. /\ status = [a \in Accounts |-> "active"]
      /\ transactions = {} /\ transfers = {} /\ snapshots = {} /\ mutations = {}
      /\ nextSequence = 1 /\ nextOrder = 1
      /\ lock = [a \in Accounts |-> NoSession]
      /\ pc = [s \in Sessions |-> "idle"]
      /\ request \in [Sessions -> RequestRow]
      /\ writes = [s \in Sessions |-> NoWrites]
      /\ answer = [s \in Sessions |-> NoAnswer]
      /\ view = [s \in Sessions |-> NoView]
      /\ observed = [s \in Sessions |-> {}]
  BY WorkloadAssumption DEF SessionsInit, Init
<1>2. NoWrites = [field \in Fields |-> NoWrites[field]]
  BY DEF NoWrites, Fields
<1>3. Shape
  BY <1>1, <1>2 DEF Shape
<1>4. RowsOK
  <2>1. IsFiniteSet(transactions)
    BY <1>1, FS_EmptySet
  <2>2. TypeOK /\ SequencesAreUnique
    BY <1>1 DEF TypeOK, SequencesAreUnique
  <2> QED
    BY <1>1, <2>1, <2>2 DEF RowsOK
<1>5. ASSUME NEW s \in Sessions
      PROVE  SessionOK(s)
  <2>1. pc[s] = "idle" /\ writes[s] = NoWrites
    BY <1>1
  <2>2. /\ ~ Claiming(s) /\ ~ Archiving(s)
        /\ ~ Inserted(s, "post_transaction") /\ ~ Inserted(s, "create_snapshot") /\ ~ Inserted(s, "create_transfer")
    BY <2>1 DEF Claiming, Archiving, Inserted, NoWrites
  <2>3. EntriesOK(s) /\ OthersOK(s) /\ NumbersOK(s)
    BY <2>1, <2>2 DEF EntriesOK, OthersOK, NumbersOK, NoWrites
  <2>4. PcOK(s) /\ LockOK(s) /\ CheckOK(s) /\ AnswerOK(s)
    BY <2>1 DEF PcOK, LockOK, CheckOK, AnswerOK, Archiving, InTransaction
  <2>5. ClaimOK(s) /\ FreshOK(s)
    BY <1>1, <2>1, <2>2 DEF ClaimOK, FreshOK, NoWrites
  <2> QED
    BY <2>3, <2>4, <2>5 DEF SessionOK
<1>6. \A s, o \in Sessions : Apart(s, o)
  BY <1>1 DEF Apart, Claiming, NoWrites
<1> QED
  BY <1>3, <1>4, <1>5, <1>6 DEF SInv

\* When no variable changes, neither does the invariant.
LEMMA StutterKeepsSInv ==
  ASSUME SInv, UNCHANGED sessionVars
  PROVE  SInv' /\ UNCHANGED vars
<1>1. /\ UNCHANGED <<committed, request>> /\ UNCHANGED <<status, transactions, transfers, snapshots, mutations>>
      /\ nextSequence' = nextSequence /\ nextOrder' = nextOrder /\ lock' = lock /\ pc' = pc /\ request' = request
      /\ writes' = writes /\ answer' = answer /\ view' = view /\ observed' = observed
  BY DEF sessionVars, committed, counters, reads
<1>2. Shape' /\ RowsOK'
  <2>1. Shape /\ RowsOK
    BY DEF SInv
  <2>2. Shape'
    BY <1>1, <2>1 DEF Shape
  <2>3. TypeOK' /\ SequencesAreUnique'
    BY <1>1, <2>1 DEF RowsOK, TypeOK, SequencesAreUnique
  <2> QED
    BY <1>1, <2>1, <2>2, <2>3 DEF RowsOK
<1>3. ASSUME NEW o \in Sessions PROVE SessionOK(o)'
  <2>1. nextSequence \in Nat /\ nextOrder \in Nat
    BY DEF SInv, RowsOK
  <2> QED
    BY <1>1, <2>1, SessionStays
<1>4. ASSUME NEW s \in Sessions, NEW o \in Sessions, s # o PROVE Apart(s, o)'
  BY <1>1, <1>4 DEF SInv, Apart, Claiming
<1> QED
  BY <1>1, <1>2, <1>3, <1>4 DEF SInv, vars

\* Every step of the sessions keeps the invariant, and is one step of Ledger or none.
LEMMA NextPreservesSInv ==
  ASSUME SInv, [SessionsNext]_sessionVars
  PROVE  SInv' /\ [Next]_vars
<1>1. CASE UNCHANGED sessionVars
  BY <1>1, StutterKeepsSInv
<1>2. ASSUME NEW s \in Sessions, Begin(s)
      PROVE  SInv' /\ [Next]_vars
  BY <1>2, BeginStep
<1>3. ASSUME NEW s \in Sessions, Fail(s)
      PROVE  SInv' /\ [Next]_vars
  <2>1. End(s, "failed") /\ pc[s] # "done"
    BY <1>3 DEF Fail, InTransaction
  <2> QED
    BY <2>1, EndStep
<1>4. ASSUME NEW s \in Sessions, LockAccount(s) \/ ClaimMutation(s) \/ Check(s)
      PROVE  SInv' /\ [Next]_vars
  BY <1>4, LockStep, ClaimStep, CheckStep
<1>5. ASSUME NEW s \in Sessions, InsertManual(s) \/ InsertSnapshot(s) \/ InsertLink(s) \/ InsertLeg(s)
      PROVE  SInv' /\ [Next]_vars
  BY <1>5, InsertManualStep, InsertSnapshotStep, InsertLinkStep, InsertLegStep
<1>6. ASSUME NEW s \in Sessions, ReadSnapshot(s) \/ ReadTransactions(s)
      PROVE  SInv' /\ [Next]_vars
  BY <1>6, ReadSnapshotStep, ReadTransactionsStep
<1>7. ASSUME NEW s \in Sessions, Commit(s)
      PROVE  SInv' /\ [Next]_vars
  BY <1>7, CommitStep
<1> QED
  BY <1>1, <1>2, <1>3, <1>4, <1>5, <1>6, <1>7 DEF SessionsNext, Progress, AllServed

-----------------------------------------------------------------------------
(* Theorems *)

\* The concurrent transactions of ledger_repository.go change the tables as the
\* atomic operations of Ledger do: what a session checked under its row locks
\* still holds when it commits, the numbers it drew reach each account in
\* order, and its claim is stored with its resource or not at all.
THEOREM SessionsImplementLedger == SessionsSpec => ImplementsLedger
<1>1. SessionsInit => Init
  BY DEF SessionsInit
<1>2. SessionsInit => SInv
  BY InitSInv
<1>3. SInv /\ [SessionsNext]_sessionVars => SInv' /\ [Next]_vars
  BY NextPreservesSInv
<1> QED
  BY <1>1, <1>2, <1>3, PTL DEF SessionsSpec, ImplementsLedger

\* Clients that used one key for one operation are told the same resource, the
\* one that each of them asked for, whichever of them posted it
\* (ClaimMutation and the replay lookups of ledger_repository.go).
THEOREM SessionsAgree == SessionsSpec => []AnswersAgree
<1>1. SInv => AnswersAgree
  <2> SUFFICES ASSUME SInv, NEW s \in Sessions, NEW t \in Sessions, pc[s] = "done", pc[t] = "done",
                      request[s].operation \in {"post_transaction", "create_snapshot", "create_transfer"},
                      SameKey(request[s], request[t])
               PROVE  /\ answer[s] = answer[t]
                      /\ request[s].fingerprint = request[t].fingerprint
                      /\ \E m \in mutations :
                           /\ SameKey(m, request[s])
                           /\ m.resource = answer[s] /\ m.fingerprint = request[s].fingerprint
    BY DEF AnswersAgree
  <2>1. AnswerOK(s) /\ AnswerOK(t) /\ RowsOK
    BY SessionIs
  <2>2. Keyed(s) /\ Keyed(t)
    BY DEF Keyed, SameKey
  <2>3. PICK m \in mutations : /\ SameKey(m, request[s])
                               /\ m.fingerprint = request[s].fingerprint /\ m.resource = answer[s]
    BY <2>1, <2>2 DEF AnswerOK
  <2>4. PICK n \in mutations : /\ SameKey(n, request[t])
                               /\ n.fingerprint = request[t].fingerprint /\ n.resource = answer[t]
    BY <2>1, <2>2 DEF AnswerOK
  <2>5. m = n
    BY <2>1, <2>3, <2>4 DEF RowsOK, SameKey
  <2> QED
    BY <2>3, <2>4, <2>5
<1>2. SessionsInit => SInv
  BY InitSInv
<1>3. SInv /\ [SessionsNext]_sessionVars => SInv'
  BY NextPreservesSInv
<1> QED
  BY <1>1, <1>2, <1>3, PTL DEF SessionsSpec

-----------------------------------------------------------------------------
(* Balances that are read *)

\* A reader whose own state stays still holds a balance that was current, as
\* long as nothing is committed.
LEMMA ReadingStays ==
  ASSUME Shape, UNCHANGED <<committed, request>>, NEW o \in Sessions, ReadOK(o),
         pc'[o] = pc[o], answer'[o] = answer[o], view'[o] = view[o], observed'[o] = observed[o]
  PROVE  ReadOK(o)'
<1>1. BalanceOf(Account(o))' = BalanceOf(Account(o)) /\ request' = request
  BY SameReadings
<1>2. Viewed(o)' = Viewed(o)
  BY <1>1 DEF Viewed, VisibleTransactions, Account
<1> QED
  BY <1>1, <1>2 DEF ReadOK

\* The statements of a writer are no reading.
LEMMA NoReading ==
  ASSUME NEW s \in Sessions, pc'[s] \notin {"idle", "read", "done"}
  PROVE  ReadOK(s)'
BY DEF ReadOK

LEMMA WritersLeaveReaders ==
  ASSUME SInv, ReadInv, NEW s \in Sessions,
         \/ LockAccount(s) \/ ClaimMutation(s) \/ Check(s)
         \/ InsertManual(s) \/ InsertSnapshot(s) \/ InsertLink(s) \/ InsertLeg(s) \/ Fail(s)
  PROVE  ReadInv'
<1>1. /\ UNCHANGED <<committed, request>> /\ view' = view /\ observed' = observed
      /\ pc'[s] \notin {"idle", "read", "done"}
      /\ \A o \in Sessions \ {s} : pc'[o] = pc[o] /\ answer'[o] = answer[o]
  <2> USE DEF SInv, Shape, reads
  <2>1. \A outcome \in {"rejected", "failed"} : End(s, outcome) =>
          /\ UNCHANGED <<committed, request>> /\ view' = view /\ observed' = observed
          /\ pc'[s] \notin {"idle", "read", "done"}
          /\ \A o \in Sessions \ {s} : pc'[o] = pc[o] /\ answer'[o] = answer[o]
    BY DEF End
  <2>2. CASE LockAccount(s)
    BY <2>2 DEF LockAccount
  <2>3. CASE ClaimMutation(s)
    BY <2>1, <2>3 DEF ClaimMutation, Reject
  <2>4. CASE Check(s)
    BY <2>1, <2>4 DEF Check, Reject
  <2>5. CASE InsertManual(s)
    BY <2>5 DEF InsertManual, InsertTransaction
  <2>6. CASE InsertSnapshot(s)
    BY <2>6 DEF InsertSnapshot
  <2>7. CASE InsertLink(s)
    BY <2>7 DEF InsertLink
  <2>8. CASE InsertLeg(s)
    BY <2>8 DEF InsertLeg, InsertTransaction
  <2>9. CASE Fail(s)
    BY <2>1, <2>9 DEF Fail
  <2> QED
    BY <2>2, <2>3, <2>4, <2>5, <2>6, <2>7, <2>8, <2>9
<1>2. ASSUME NEW o \in Sessions, o # s PROVE ReadOK(o)'
  BY <1>1, <1>2, ReadingStays DEF SInv, ReadInv
<1> QED
  BY <1>1, <1>2, NoReading DEF ReadInv

LEMMA BeginLeavesReaders ==
  ASSUME SInv, ReadInv, NEW s \in Sessions, Begin(s)
  PROVE  ReadInv'
<1> DEFINE reading == request[s].operation = "read_balance"
           seen == IF reading THEN {BalanceOf(Account(s))} ELSE {}
<1>1. /\ UNCHANGED <<committed, request>> /\ view' = view /\ answer' = answer
      /\ pc[s] = "idle" /\ pc' = [pc EXCEPT ![s] = IF reading THEN "read" ELSE "lock"]
      /\ observed' = [observed EXCEPT ![s] = seen]
      /\ Shape
  BY DEF Begin, SInv
<1> HIDE DEF seen
<1>2. /\ pc'[s] = IF reading THEN "read" ELSE "lock"
      /\ observed'[s] = seen
      /\ \A o \in Sessions \ {s} : pc'[o] = pc[o] /\ observed'[o] = observed[o]
  BY <1>1 DEF Shape
<1>3. ASSUME NEW o \in Sessions, o # s PROVE ReadOK(o)'
  BY <1>1, <1>2, <1>3, ReadingStays DEF ReadInv
<1>4. ReadOK(s)'
  <2>1. ~ view[s].taken
    BY <1>1 DEF ReadInv, ReadOK
  <2>2. BalanceOf(Account(s))' = BalanceOf(Account(s))
    BY <1>1, SameReadings
  <2>3. reading => BalanceOf(Account(s)) \in seen
    BY DEF seen
  <2> QED
    BY <1>1, <1>2, <2>1, <2>2, <2>3 DEF ReadOK
<1> QED
  BY <1>3, <1>4 DEF ReadInv

LEMMA ReadSnapshotSeesTheBalance ==
  ASSUME SInv, ReadInv, NEW s \in Sessions, ReadSnapshot(s)
  PROVE  ReadInv'
<1> DEFINE seen == [snapshots |-> SnapshotsOf(Account(s)), transactions |-> TransactionsOf(Account(s)),
                    taken |-> TRUE]
<1>1. /\ UNCHANGED <<committed, request>> /\ answer' = answer /\ pc' = pc /\ observed' = observed
      /\ pc[s] = "read" /\ view' = [view EXCEPT ![s] = seen]
      /\ Shape
  BY DEF ReadSnapshot, SInv
<1>2. view'[s] = seen /\ \A o \in Sessions \ {s} : view'[o] = view[o]
  <2> HIDE DEF seen
  <2> QED
    BY <1>1 DEF Shape
<1>3. ASSUME NEW o \in Sessions, o # s PROVE ReadOK(o)'
  BY <1>1, <1>2, <1>3, ReadingStays DEF ReadInv
<1>4. BalanceOf(Account(s))' = BalanceOf(Account(s)) /\ request' = request
  BY <1>1, SameReadings
<1>5. Viewed(s)' = BalanceOf(Account(s))
  <2>1. Account(s)' = Account(s)
    BY <1>4 DEF Account
  <2>2. view'[s].snapshots = SnapshotsOf(Account(s)) /\ view'[s].transactions = TransactionsOf(Account(s))
    BY <1>2
  <2>3. Latest(SnapshotsOf(Account(s))) = LatestSnapshot(Account(s))
    BY DEF Latest, LatestSnapshot
  <2> QED
    BY <2>1, <2>2, <2>3 DEF Viewed, VisibleTransactions, BalanceOf, OpeningBalance, AppliedTransactions,
                            CutoffSequence
<1>6. ReadOK(s)'
  <2>1. BalanceOf(Account(s)) \in observed[s]
    BY <1>1 DEF ReadInv, ReadOK
  <2> QED
    BY <1>1, <1>4, <1>5, <2>1 DEF ReadOK
<1> QED
  BY <1>3, <1>6 DEF ReadInv

LEMMA ReadTransactionsAnswers ==
  ASSUME SInv, ReadInv, NEW s \in Sessions, ReadTransactions(s)
  PROVE  ReadInv'
<1>1. /\ UNCHANGED <<committed, request>> /\ request' = request /\ view' = view /\ observed' = observed
      /\ pc[s] = "read" /\ view[s].taken /\ pc' = [pc EXCEPT ![s] = "done"]
      /\ answer' = [answer EXCEPT ![s] = Viewed(s)]
      /\ Shape
  BY DEF ReadTransactions, Viewed, SInv, reads
<1>2. /\ pc'[s] = "done" /\ answer'[s] = Viewed(s)
      /\ \A o \in Sessions \ {s} : pc'[o] = pc[o] /\ answer'[o] = answer[o]
  BY <1>1 DEF Shape
<1>3. ASSUME NEW o \in Sessions, o # s PROVE ReadOK(o)'
  BY <1>1, <1>2, <1>3, ReadingStays DEF ReadInv
<1>4. ReadOK(s)'
  <2>1. Viewed(s) \in observed[s]
    BY <1>1 DEF ReadInv, ReadOK
  <2> QED
    BY <1>1, <1>2, <2>1 DEF ReadOK
<1> QED
  BY <1>3, <1>4 DEF ReadInv

LEMMA CommitIsObserved ==
  ASSUME SInv, ReadInv, NEW s \in Sessions, Commit(s)
  PROVE  ReadInv'
<1>1. /\ pc[s] = "commit" /\ pc'[s] = "done" /\ request' = request /\ answer' = answer
      /\ \A o \in Sessions \ {s} : pc'[o] = pc[o]
  BY CommitFacts
<1>2. /\ view' = view
      /\ observed' = [r \in Sessions |->
            IF pc[r] = "read" THEN observed[r] \cup {BalanceOf(Account(r))'} ELSE observed[r]]
  BY DEF Commit, Observe
<1>3. ReadOK(s)'
  <2>1. request[s].operation # "read_balance"
    BY <1>1, SessionIs DEF PcOK
  <2> QED
    BY <1>1, <2>1 DEF ReadOK
<1>4. ASSUME NEW o \in Sessions, o # s PROVE ReadOK(o)'
  <2>1. pc'[o] = pc[o] /\ ReadOK(o)
    BY <1>1, <1>4 DEF ReadInv
  <2>2. Viewed(o)' = Viewed(o)
    BY <1>1, <1>2 DEF Viewed, VisibleTransactions, Account
  <2>3. CASE pc[o] = "read"
    <3>1. observed'[o] = observed[o] \cup {BalanceOf(Account(o))'}
      BY <1>2, <2>3
    <3> QED
      BY <1>2, <2>1, <2>2, <2>3, <3>1 DEF ReadOK
  <2>4. CASE pc[o] # "read"
    <3>1. observed'[o] = observed[o]
      BY <1>2, <2>4
    <3> QED
      BY <1>1, <1>2, <2>1, <2>4, <3>1 DEF ReadOK
  <2> QED
    BY <2>3, <2>4
<1> QED
  BY <1>3, <1>4 DEF ReadInv

LEMMA NextPreservesReadInv ==
  ASSUME SInv, ReadInv, [SessionsNext]_sessionVars
  PROVE  ReadInv'
<1>1. CASE UNCHANGED sessionVars
  <2>1. /\ UNCHANGED <<committed, request>> /\ pc' = pc /\ answer' = answer
        /\ view' = view /\ observed' = observed
    BY <1>1 DEF sessionVars, committed, reads
  <2> QED
    BY <2>1, ReadingStays DEF ReadInv, SInv
<1>2. ASSUME NEW s \in Sessions,
             \/ LockAccount(s) \/ ClaimMutation(s) \/ Check(s)
             \/ InsertManual(s) \/ InsertSnapshot(s) \/ InsertLink(s) \/ InsertLeg(s) \/ Fail(s)
      PROVE  ReadInv'
  BY <1>2, WritersLeaveReaders
<1>3. ASSUME NEW s \in Sessions, Begin(s) PROVE ReadInv'
  BY <1>3, BeginLeavesReaders
<1>4. ASSUME NEW s \in Sessions, ReadSnapshot(s) \/ ReadTransactions(s) PROVE ReadInv'
  BY <1>4, ReadSnapshotSeesTheBalance, ReadTransactionsAnswers
<1>5. ASSUME NEW s \in Sessions, Commit(s) PROVE ReadInv'
  BY <1>5, CommitIsObserved
<1> QED
  BY <1>1, <1>2, <1>3, <1>4, <1>5 DEF SessionsNext, Progress, AllServed

\* A balance read while others write is one the account had during the read:
\* the snapshot and the transactions that CurrentBalance folds are of one moment.
THEOREM ReadBalancesAreCurrent == SessionsSpec => []ReadsAreCurrent
<1>1. SessionsInit => SInv /\ ReadInv
  <2>1. SessionsInit => ReadInv
    BY DEF SessionsInit, ReadInv, ReadOK, NoView
  <2> QED
    BY <2>1, InitSInv
<1>2. (SInv /\ ReadInv) /\ [SessionsNext]_sessionVars => (SInv /\ ReadInv)'
  BY NextPreservesSInv, NextPreservesReadInv
<1>3. SInv /\ ReadInv => ReadsAreCurrent
  BY DEF ReadInv, ReadOK, ReadsAreCurrent
<1> QED
  BY <1>1, <1>2, <1>3, PTL DEF SessionsSpec

=============================================================================
