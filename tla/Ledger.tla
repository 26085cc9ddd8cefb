------------------------------- MODULE Ledger -------------------------------
(***************************************************************************)
(* What the ledger promises: the committed rows of the accounts,           *)
(* financial_transactions, linked_transfers, balance_snapshots and         *)
(* financial_mutations tables of one owner, and the four operations of     *)
(* internal/postgres/ledger_repository.go that change them, each as ONE    *)
(* atomic step.  LedgerSessions models how the repository reaches these    *)
(* steps with row locks and commits, and is checked to implement this      *)
(* module.                                                                 *)
(*                                                                         *)
(* A table is a set of rows.  Dates, memos, currencies (only MXN exists)   *)
(* and timestamps carry no condition here and are left out.  A rejected    *)
(* or replayed request changes no row: it is a stuttering step.            *)
(***************************************************************************)
EXTENDS Integers, FiniteSets, Functions

CONSTANTS
  Accounts,           \* account ids of the owner
  LiabilityAccounts,  \* those of type credit_card or loan
  Ids,                \* resource ids idGenerator may produce
  Keys,               \* values of the Idempotency-Key header
  Amounts,            \* magnitudes of transactions
  SnapshotBalances,   \* balances an observation may report
  MinBalance,         \* math.MinInt64
  MaxBalance,         \* math.MaxInt64
  MaxSequence,        \* bound on ledger_sequence
  MaxOrder            \* bound on snapshot_sequence

ASSUME LiabilityAssumption == LiabilityAccounts \subseteq Accounts

ASSUME AmountAssumption == Amounts \subseteq Nat \ {0}

ASSUME BalanceAssumption == /\ MinBalance \in Int
                            /\ MaxBalance \in Int
                            /\ SnapshotBalances \subseteq MinBalance..MaxBalance

ASSUME BoundAssumption == MaxSequence \in Nat /\ MaxOrder \in Nat

VARIABLES
  status,        \* accounts.status
  transactions,  \* rows of financial_transactions
  transfers,     \* rows of linked_transfers
  snapshots,     \* rows of balance_snapshots
  mutations      \* rows of financial_mutations

vars == <<status, transactions, transfers, snapshots, mutations>>

-----------------------------------------------------------------------------
(* Rows and requests *)

Sequences == 1..MaxSequence
Orders == 1..MaxOrder
Effects == {"asset_inflow", "asset_outflow", "liability_charge", "liability_payment"}
Kinds == {"manual", "transfer"}

\* The two legs of a transfer carry the id of the transfer; the ids generated
\* for the legs themselves are drawn with it and name nothing else.
TransactionRow == [id : Ids, kind : Kinds, account : Accounts, effect : Effects,
                   amount : Amounts, sequence : Sequences]

TransferRow == [id : Ids, source : Accounts, destination : Accounts, amount : Amounts]

SnapshotRow == [id : Ids, account : Accounts, balance : SnapshotBalances,
                cutoff : 0..MaxSequence, order : Orders]

\* A fingerprint stands for the fields CanonicalFingerprint hashes.
PostFingerprint == [account : Accounts, effect : Effects, amount : Amounts]
SnapshotFingerprint == [account : Accounts, balance : SnapshotBalances, cutoff : 0..MaxSequence]
TransferFingerprint == [source : Accounts, destination : Accounts, amount : Amounts]

MutationRow ==
  [operation : {"post_transaction"}, key : Keys, fingerprint : PostFingerprint, resource : Ids]
    \cup [operation : {"create_snapshot"}, key : Keys, fingerprint : SnapshotFingerprint, resource : Ids]
    \cup [operation : {"create_transfer"}, key : Keys, fingerprint : TransferFingerprint, resource : Ids]

-----------------------------------------------------------------------------
(* Effects and balances *)

EffectsFor(account) ==
  IF account \in LiabilityAccounts
    THEN {"liability_charge", "liability_payment"}
    ELSE {"asset_inflow", "asset_outflow"}

SignedAmount(effect, amount) ==
  IF effect \in {"asset_inflow", "liability_charge"} THEN amount ELSE -amount

TransferEffect(account, isSource) ==
  IF isSource THEN "asset_outflow"
  ELSE IF account \in LiabilityAccounts THEN "liability_payment" ELSE "asset_inflow"

TransactionsOf(account) == {t \in transactions : t.account = account}
SnapshotsOf(account) == {s \in snapshots : s.account = account}

Supersedes(later, earlier) ==
  \/ later.cutoff > earlier.cutoff
  \/ later.cutoff = earlier.cutoff /\ later.order > earlier.order

LatestSnapshot(account) ==
  CHOOSE s \in SnapshotsOf(account) :
    \A other \in SnapshotsOf(account) : other # s => Supersedes(s, other)

OpeningBalance(account) ==
  IF SnapshotsOf(account) = {} THEN 0 ELSE LatestSnapshot(account).balance

CutoffSequence(account) ==
  IF SnapshotsOf(account) = {} THEN 0 ELSE LatestSnapshot(account).cutoff

AppliedTransactions(account) ==
  {t \in TransactionsOf(account) : t.sequence > CutoffSequence(account)}

AppliedUpTo(account, n) == {t \in AppliedTransactions(account) : t.sequence <= n}

\* The balance after the transactions with a sequence of at most n.
RunningBalance(account, n) ==
  OpeningBalance(account)
    + SumFunction([t \in AppliedUpTo(account, n) |-> SignedAmount(t.effect, t.amount)])

CurrentBalance(account) == RunningBalance(account, MaxSequence)

AcceptableBalance(account, balance) ==
  /\ balance \in MinBalance..MaxBalance
  /\ account \in LiabilityAccounts => balance >= 0

\* ReconstructBalance returns a balance, not an error.
Readable(account) ==
  /\ AcceptableBalance(account, OpeningBalance(account))
  /\ \A t \in AppliedTransactions(account) :
       AcceptableBalance(account, RunningBalance(account, t.sequence))

\* Mutant: the ledger is read, the new entry is not tried on it.
UntriedEffect(account, effect, amount) == Readable(account)

ValidProspectiveEffect(account, effect, amount) ==
  /\ Readable(account)
  /\ AcceptableBalance(account, CurrentBalance(account) + SignedAmount(effect, amount))

-----------------------------------------------------------------------------
(* Identities *)

\* Mutant: an archived account still passes.
ActiveOrArchived(account) == status[account] \in {"active", "archived"}

Active(account) == status[account] = "active"

\* Mutant: the claim is inserted without looking for an earlier one.
NeverClaimed(operation, key) == operation \in STRING /\ key \in Keys

Unclaimed(operation, key) ==
  ~ \E m \in mutations : m.operation = operation /\ m.key = key

FreshIds == Ids \ {m.resource : m \in mutations}

\* Mutant: the identity column starts at the number that means "no cutoff".
SequencesFromZero(account) ==
  {n \in 0..MaxSequence : \A t \in transactions : t.sequence < n}

\* Mutant: numbers of one account are not handed out in order.
UnorderedSequences(account) == {n \in Sequences : \A t \in transactions : t.sequence # n}

\* The identity column hands out a number once.  Numbers of different accounts
\* need not appear in order, those of one account do.
NextSequences(account) ==
  {n \in Sequences : /\ \A t \in transactions : t.sequence # n
                     /\ \A t \in TransactionsOf(account) : t.sequence < n}

NextOrders(account) ==
  {n \in Orders : /\ \A s \in snapshots : s.order # n
                  /\ \A s \in SnapshotsOf(account) : s.order < n}

\* Mutant: off by one.
CutoffRegressesByTwo(account, cutoff) == \E s \in SnapshotsOf(account) : cutoff + 1 < s.cutoff

CutoffRegresses(account, cutoff) == \E s \in SnapshotsOf(account) : cutoff < s.cutoff

CutoffKnown(account, cutoff) ==
  cutoff > 0 => \E t \in TransactionsOf(account) : t.sequence = cutoff

-----------------------------------------------------------------------------
(* Operations *)

Init ==
  /\ status = [a \in Accounts |-> "active"]
  /\ transactions = {}
  /\ transfers = {}
  /\ snapshots = {}
  /\ mutations = {}

\* The rows each operation writes once its checks have passed.
PostedRows(key, account, effect, amount, id, sequence) ==
  /\ transactions' = transactions \cup
       {[id |-> id, kind |-> "manual", account |-> account, effect |-> effect,
         amount |-> amount, sequence |-> sequence]}
  /\ mutations' = mutations \cup
       {[operation |-> "post_transaction", key |-> key, resource |-> id,
         fingerprint |-> [account |-> account, effect |-> effect, amount |-> amount]]}
  /\ UNCHANGED <<status, transfers, snapshots>>

SnapshotRows(key, account, balance, cutoff, id, order) ==
  /\ snapshots' = snapshots \cup
       {[id |-> id, account |-> account, balance |-> balance, cutoff |-> cutoff, order |-> order]}
  /\ mutations' = mutations \cup
       {[operation |-> "create_snapshot", key |-> key, resource |-> id,
         fingerprint |-> [account |-> account, balance |-> balance, cutoff |-> cutoff]]}
  /\ UNCHANGED <<status, transactions, transfers>>

\* Mutant: both legs are written with the effect of the source.
SameEffectRows(key, source, destination, amount, id, sent, received) ==
  /\ transfers' = transfers \cup
       {[id |-> id, source |-> source, destination |-> destination, amount |-> amount]}
  /\ transactions' = transactions \cup
       {[id |-> id, kind |-> "transfer", account |-> leg[1], effect |-> "asset_outflow",
         amount |-> amount, sequence |-> leg[2]] : leg \in {<<source, sent>>, <<destination, received>>}}
  /\ mutations' = mutations \cup
       {[operation |-> "create_transfer", key |-> key, resource |-> id,
         fingerprint |-> [source |-> source, destination |-> destination, amount |-> amount]]}
  /\ UNCHANGED <<status, snapshots>>

TransferRows(key, source, destination, amount, id, sent, received) ==
  /\ transfers' = transfers \cup
       {[id |-> id, source |-> source, destination |-> destination, amount |-> amount]}
  /\ transactions' = transactions \cup
       {[id |-> id, kind |-> "transfer", account |-> source,
         effect |-> TransferEffect(source, TRUE), amount |-> amount, sequence |-> sent],
        [id |-> id, kind |-> "transfer", account |-> destination,
         effect |-> TransferEffect(destination, FALSE), amount |-> amount, sequence |-> received]}
  /\ mutations' = mutations \cup
       {[operation |-> "create_transfer", key |-> key, resource |-> id,
         fingerprint |-> [source |-> source, destination |-> destination, amount |-> amount]]}
  /\ UNCHANGED <<status, snapshots>>

PostManualTransaction(key, account, effect, amount) ==
  /\ effect \in EffectsFor(account)
  /\ Unclaimed("post_transaction", key)
  /\ Active(account)
  /\ ValidProspectiveEffect(account, effect, amount)
  /\ \E id \in FreshIds, sequence \in NextSequences(account) :
       PostedRows(key, account, effect, amount, id, sequence)

CreateSnapshot(key, account, balance, cutoff) ==
  /\ account \in LiabilityAccounts => balance >= 0
  /\ Unclaimed("create_snapshot", key)
  /\ Active(account)
  /\ CutoffKnown(account, cutoff)
  /\ ~ CutoffRegresses(account, cutoff)
  /\ \E id \in FreshIds, order \in NextOrders(account) :
       SnapshotRows(key, account, balance, cutoff, id, order)

CreateTransfer(key, source, destination, amount) ==
  /\ source # destination
  /\ source \notin LiabilityAccounts
  /\ Unclaimed("create_transfer", key)
  /\ Active(source) /\ Active(destination)
  /\ ValidProspectiveEffect(source, TransferEffect(source, TRUE), amount)
  /\ ValidProspectiveEffect(destination, TransferEffect(destination, FALSE), amount)
  /\ \E id \in FreshIds, sent \in NextSequences(source), received \in NextSequences(destination) :
       /\ sent < received
       /\ TransferRows(key, source, destination, amount, id, sent, received)

ArchiveAccount(account) ==
  /\ Active(account)
  /\ status' = [status EXCEPT ![account] = "archived"]
  /\ UNCHANGED <<transactions, transfers, snapshots, mutations>>

Next ==
  \/ \E key \in Keys, account \in Accounts, effect \in Effects, amount \in Amounts :
       PostManualTransaction(key, account, effect, amount)
  \/ \E key \in Keys, account \in Accounts, balance \in SnapshotBalances, cutoff \in 0..MaxSequence :
       CreateSnapshot(key, account, balance, cutoff)
  \/ \E key \in Keys, source \in Accounts, destination \in Accounts, amount \in Amounts :
       CreateTransfer(key, source, destination, amount)
  \/ \E account \in Accounts : ArchiveAccount(account)

Spec == Init /\ [][Next]_vars

-----------------------------------------------------------------------------
(* Properties *)

\* Every row has its columns' types: the tables never hold a row the schema of
\* migrations 0002 and 0003 could not hold.
TypeOK ==
  /\ status \in [Accounts -> {"active", "archived"}]
  /\ transactions \subseteq TransactionRow
  /\ transfers \subseteq TransferRow
  /\ snapshots \subseteq SnapshotRow
  /\ mutations \subseteq MutationRow

\* A sequence number names one transaction: reconstruction refuses a ledger in
\* which two transactions of an account share a cursor.
SequencesAreUnique ==
  \A t, u \in transactions : t.sequence = u.sequence => t = u

\* The cutoff of a snapshot is 0 or the cursor of a transaction of the same
\* account, so that "strictly after the cutoff" splits that account's ledger.
CutoffsNameTransactions ==
  \A s \in snapshots :
    s.cutoff > 0 => \E t \in TransactionsOf(s.account) : t.sequence = s.cutoff

\* A snapshot recorded later never reaches back before one recorded earlier:
\* the latest by cutoff and the latest by time of recording are the same row.
CutoffsNeverRegress ==
  \A s, u \in snapshots :
    s.account = u.account /\ s.order < u.order => s.cutoff <= u.cutoff

\* Snapshots split the ledger of their account at one of its own transactions,
\* and never move that split backwards (CreateSnapshot's two cutoff checks).
CutoffsSplitTheLedger == CutoffsNameTransactions /\ CutoffsNeverRegress

\* The resource a mutation row names is there, as its request described it.
ResourceMatches(m) ==
  /\ m.operation = "post_transaction" =>
       \E t \in transactions :
         /\ t.id = m.resource /\ t.kind = "manual"
         /\ m.fingerprint = [account |-> t.account, effect |-> t.effect, amount |-> t.amount]
  /\ m.operation = "create_snapshot" =>
       \E s \in snapshots :
         /\ s.id = m.resource
         /\ m.fingerprint = [account |-> s.account, balance |-> s.balance, cutoff |-> s.cutoff]
  /\ m.operation = "create_transfer" =>
       \E t \in transfers :
         /\ t.id = m.resource
         /\ m.fingerprint = [source |-> t.source, destination |-> t.destination, amount |-> t.amount]

\* An idempotency key of an operation is claimed once, and the claim is stored
\* with the very resource its request describes: a replay can always be
\* answered, and answers with what was posted.
ClaimsNameTheirResource ==
  /\ \A m, n \in mutations : m.operation = n.operation /\ m.key = n.key => m = n
  /\ \A m \in mutations : ResourceMatches(m)

\* The operations whose mutation row may stand for each kind of resource.
ClaimedBy(id, operation) == \E m \in mutations : m.resource = id /\ m.operation = operation

\* Nothing is posted without a claim, and no two claims share a resource:
\* together with ClaimsNameTheirResource, one key posts exactly once.
ResourcesAreClaimedOnce ==
  /\ \A m, n \in mutations : m.resource = n.resource => m = n
  /\ \A t \in transactions :
       ClaimedBy(t.id, IF t.kind = "manual" THEN "post_transaction" ELSE "create_transfer")
  /\ \A s \in snapshots : ClaimedBy(s.id, "create_snapshot")
  /\ \A t \in transfers : ClaimedBy(t.id, "create_transfer")

\* One key of one operation posts exactly once: nothing without a claim, nothing
\* twice under it, and a retry finds what its key posted (claimMutation).
KeysPostOnce == ClaimsNameTheirResource /\ ResourcesAreClaimedOnce

LegsOf(transfer) == {t \in transactions : t.kind = "transfer" /\ t.id = transfer.id}

IsLeg(t, transfer, account, effect) ==
  /\ t.account = account
  /\ t.effect = effect
  /\ t.amount = transfer.amount

IsComplete(transfer) ==
  \E sent, received \in transactions :
    /\ LegsOf(transfer) = {sent, received}
    /\ IsLeg(sent, transfer, transfer.source, "asset_outflow")
    /\ IsLeg(received, transfer, transfer.destination,
             TransferEffect(transfer.destination, FALSE))

\* A linked transfer has exactly two entries, an outflow of its source and the
\* matching effect on its destination, and every transfer entry belongs to one.
TransfersAreComplete ==
  /\ \A transfer \in transfers :
       transfer.source # transfer.destination /\ IsComplete(transfer)
  /\ \A t \in transactions :
       t.kind = "transfer" => \E transfer \in transfers : transfer.id = t.id

\* Each transaction contributes exactly once: once a snapshot is recorded, no
\* transaction appears at or below its cutoff, where it would never be applied.
NothingPostedUnderACutoff ==
  [][\A t \in transactions' \ transactions, s \in snapshots :
       t.account = s.account => t.sequence > s.cutoff]_vars

\* Posting to the ledger never makes a readable balance unreadable: only a new
\* snapshot of the account can (and CreateSnapshot does not check that).
OnlySnapshotsBreakBalances ==
  [][\A a \in Accounts :
       Readable(a) /\ ~ Readable(a)' => SnapshotsOf(a)' # SnapshotsOf(a)]_vars

\* Rows are append-only, and an archived account gets no more of them and is
\* never reopened.
ArchivedAccountsAreFrozen ==
  [][/\ transactions \subseteq transactions' /\ snapshots \subseteq snapshots'
     /\ transfers \subseteq transfers' /\ mutations \subseteq mutations'
     /\ \A a \in Accounts : status[a] = "archived" =>
          /\ status'[a] = "archived"
          /\ TransactionsOf(a)' = TransactionsOf(a)
          /\ SnapshotsOf(a)' = SnapshotsOf(a)]_vars

\* The amount of a liability account is a non-negative amount owed that can be
\* read (docs/architecture/financial-domain.md:25, docs/adr/0001:29).
LiabilityBalancesAreReadable == \A a \in LiabilityAccounts : Readable(a)

=============================================================================
