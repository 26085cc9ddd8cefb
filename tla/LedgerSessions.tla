--------------------------- MODULE LedgerSessions ---------------------------
(***************************************************************************)
(* How internal/postgres/ledger_repository.go carries out the operations   *)
(* of Ledger: HTTP requests served concurrently, each by one database      *)
(* transaction at READ COMMITTED that locks its account rows FOR UPDATE,   *)
(* claims its idempotency key, checks, inserts and commits, and that may   *)
(* be rolled back anywhere before the commit.  CurrentBalance reads in a   *)
(* REPEATABLE READ transaction without locks.                              *)
(*                                                                         *)
(* A session serves one request.  A retry is another session with the      *)
(* same request: it may start before, while or after the first one runs,   *)
(* whatever the client heard of it.  The ids idGenerator draws for an      *)
(* attempt are named by its session.                                       *)
(*                                                                         *)
(* External: PostgreSQL's row locks, its unique-key insertion, which waits *)
(* for an uncommitted row with the same key, and its identity columns,     *)
(* whose numbers are not returned by a rollback.                           *)
(***************************************************************************)
EXTENDS Ledger, Folds

CONSTANTS
  Workloads,      \* what clients may ask for: functions from sessions to requests
  NoSession,      \* nobody holds the row
  NoAnswer,       \* the client heard nothing, or an error
  Unreadable      \* reconstruction returned an error

\* A session is named by the ids that idGenerator draws for its attempt.
Sessions == Ids

VARIABLES
  nextSequence,   \* identity column of financial_transactions
  nextOrder,      \* identity column of balance_snapshots
  lock,           \* account -> session holding its row FOR UPDATE
  pc,             \* session -> the statement it runs next
  request,        \* session -> what its client asks for
  writes,         \* session -> its uncommitted rows
  answer,         \* session -> resource id or balance returned
  view,           \* reading session -> the rows its transaction sees
  observed        \* reading session -> balances current since it began (history)

committed == <<status, transactions, transfers, snapshots, mutations>>
counters == <<nextSequence, nextOrder>>
reads == <<view, observed>>
sessionVars == <<committed, counters, lock, pc, request, writes, answer, reads>>

ASSUME AccountOrder == Accounts \subseteq Nat  \* ids compare as strings; numbers here

ASSUME NullAssumption == NoSession \notin Sessions /\ Unreadable \notin Int

-----------------------------------------------------------------------------
(* Requests *)

\* What clients may ask for; an archival and a read carry no key.
RequestRow ==
  [operation : {"post_transaction"}, key : Keys, fingerprint : PostFingerprint]
    \cup [operation : {"create_snapshot"}, key : Keys, fingerprint : SnapshotFingerprint]
    \cup [operation : {"create_transfer"}, key : Keys, fingerprint : TransferFingerprint]
    \cup [operation : {"archive", "read_balance"}, fingerprint : [account : Accounts]]

ASSUME WorkloadAssumption == Workloads \subseteq [Sessions -> RequestRow]

NoWrites == [mutations |-> {}, transactions |-> {}, transfers |-> {}, snapshots |-> {},
             archived |-> {}]

\* Mutant: a transfer locks its source only.
SourceLockSet(r) ==
  CASE r.operation = "create_transfer" -> {r.fingerprint.source}
    [] r.operation = "read_balance"    -> {}
    [] OTHER                           -> {r.fingerprint.account}

\* The rows a request locks.
LockSet(r) ==
  CASE r.operation = "create_transfer" -> {r.fingerprint.source, r.fingerprint.destination}
    [] r.operation = "read_balance"    -> {}
    [] OTHER                           -> {r.fingerprint.account}

\* What the service refuses before it opens a transaction.
Admissible(r) ==
  CASE r.operation = "post_transaction" ->
         r.fingerprint.effect \in EffectsFor(r.fingerprint.account)
    [] r.operation = "create_snapshot" ->
         r.fingerprint.account \in LiabilityAccounts => r.fingerprint.balance >= 0
    [] r.operation = "create_transfer" ->
         /\ r.fingerprint.source # r.fingerprint.destination
         /\ r.fingerprint.source \notin LiabilityAccounts
    [] OTHER -> TRUE

Account(s) == request[s].fingerprint.account
Amount(s) == request[s].fingerprint.amount
Source(s) == request[s].fingerprint.source
Destination(s) == request[s].fingerprint.destination

HeldBy(s) == {a \in Accounts : lock[a] = s}
InTransaction(s) == pc[s] \in {"lock", "claim", "check", "insert", "commit", "read"}
Finished(s) == pc[s] \in {"done", "rejected", "failed"}

-----------------------------------------------------------------------------
(* Reconstruction, as ReconstructBalance does it: in sequence order, each    *)
(* step refusing an overflow and a negative liability.                       *)

ApplyEffect(account, balance, t) ==
  LET next == balance + SignedAmount(t.effect, t.amount)
  IN IF balance # Unreadable /\ AcceptableBalance(account, next) THEN next ELSE Unreadable

LastOf(rows) == CHOOSE t \in rows : \A u \in rows : u.sequence <= t.sequence

\* The last row is applied to what the rows before it make of the opening balance.
ReconstructBalance(account, opening, rows) ==
  MapThenFoldSet(LAMBDA t, balance : ApplyEffect(account, balance, t),
                 IF AcceptableBalance(account, opening) THEN opening ELSE Unreadable,
                 LAMBDA t : t, LastOf, rows)

BalanceOf(account) ==
  ReconstructBalance(account, OpeningBalance(account), AppliedTransactions(account))

ValidEffect(account, effect, amount) ==
  ApplyEffect(account, BalanceOf(account), [effect |-> effect, amount |-> amount]) # Unreadable

-----------------------------------------------------------------------------
(* Endings *)

\* Rollback releases the session's locks and drops its rows, its claim included.
Release(s) == lock' = [a \in Accounts |-> IF lock[a] = s THEN NoSession ELSE lock[a]]

End(s, outcome) ==
  /\ pc' = [pc EXCEPT ![s] = outcome]
  /\ writes' = [writes EXCEPT ![s] = NoWrites]
  /\ answer' = [answer EXCEPT ![s] = NoAnswer]
  /\ Release(s)
  /\ UNCHANGED <<committed, counters, request, reads>>

Reject(s) == End(s, "rejected")

\* The connection breaks, the request is cancelled or the process dies.
Fail(s) == InTransaction(s) /\ End(s, "failed")

-----------------------------------------------------------------------------
(* Statements of a transaction *)

Begin(s) ==
  LET reading == request[s].operation = "read_balance" IN
  /\ pc[s] = "idle"
  /\ Admissible(request[s])
  /\ pc' = [pc EXCEPT ![s] = IF reading THEN "read" ELSE "lock"]
  /\ observed' = [observed EXCEPT ![s] = IF reading THEN {BalanceOf(Account(s))} ELSE {}]
  /\ UNCHANGED <<committed, counters, lock, request, writes, answer, view>>

\* Mutant: a transfer locks its source first.
SourceFirst(s) ==
  IF request[s].operation # "create_transfer" THEN Account(s)
  ELSE IF Source(s) \in HeldBy(s) THEN Destination(s) ELSE Source(s)

\* The next row to lock: lockTransferAccounts takes the smaller id first.
NextToLock(s) ==
  CHOOSE a \in LockSet(request[s]) \ HeldBy(s) :
    \A b \in LockSet(request[s]) \ HeldBy(s) : a <= b

LockAccount(s) ==
  LET a == NextToLock(s)
      last == LockSet(request[s]) \subseteq HeldBy(s) \cup {a}
      afterLocks == IF request[s].operation = "archive" THEN "check" ELSE "claim"
  IN
  /\ pc[s] = "lock"
  /\ lock[a] = NoSession
  /\ lock' = [lock EXCEPT ![a] = s]
  /\ pc' = [pc EXCEPT ![s] = IF last THEN afterLocks ELSE "lock"]
  /\ UNCHANGED <<committed, counters, request, writes, answer, reads>>

SameKey(m, r) == m.operation = r.operation /\ m.key = r.key

\* Mutant: no unique index to wait on.
NoKeyHolders(s) == {} \ {s}

\* Sessions whose uncommitted mutation row the insertion of s would wait for.
KeyHolders(s) ==
  {other \in Sessions \ {s} : \E m \in writes[other].mutations : SameKey(m, request[s])}

ClaimMutation(s) ==
  LET r == request[s]
      earlier == {m \in mutations : SameKey(m, r)}
      replay == {m \in earlier : m.fingerprint = r.fingerprint}
  IN
  /\ pc[s] = "claim"
  /\ KeyHolders(s) = {}
  /\ \/ /\ earlier = {}
        /\ writes' = [writes EXCEPT ![s].mutations =
             {[operation |-> r.operation, key |-> r.key, fingerprint |-> r.fingerprint,
               resource |-> s]}]
        /\ answer' = [answer EXCEPT ![s] = s]
        /\ pc' = [pc EXCEPT ![s] = "check"]
        /\ UNCHANGED <<committed, counters, lock, request, reads>>
     \/ \E m \in replay :
          /\ answer' = [answer EXCEPT ![s] = m.resource]
          /\ pc' = [pc EXCEPT ![s] = "commit"]
          /\ UNCHANGED <<committed, counters, lock, request, writes, reads>>
     \/ /\ earlier # {} /\ replay = {}
        /\ Reject(s)

Passes(s) ==
  LET r == request[s] IN
  /\ \A a \in LockSet(r) : Active(a)
  /\ r.operation = "post_transaction" => ValidEffect(Account(s), r.fingerprint.effect, Amount(s))
  /\ r.operation = "create_snapshot" =>
       /\ CutoffKnown(Account(s), r.fingerprint.cutoff)
       /\ ~ CutoffRegresses(Account(s), r.fingerprint.cutoff)
  /\ r.operation = "create_transfer" =>
       /\ ValidEffect(Source(s), TransferEffect(Source(s), TRUE), Amount(s))
       /\ ValidEffect(Destination(s), TransferEffect(Destination(s), FALSE), Amount(s))

Check(s) ==
  /\ pc[s] = "check"
  /\ \/ /\ Passes(s)
        /\ pc' = [pc EXCEPT ![s] = IF request[s].operation = "archive" THEN "commit" ELSE "insert"]
        /\ writes' = IF request[s].operation = "archive"
                       THEN [writes EXCEPT ![s].archived = {Account(s)}] ELSE writes
        /\ UNCHANGED <<committed, counters, lock, request, answer, reads>>
     \/ ~ Passes(s) /\ Reject(s)

\* INSERT ... RETURNING ledger_sequence draws the number under the account lock.
InsertTransaction(s, kind, account, effect, done) ==
  /\ nextSequence <= MaxSequence
  /\ nextSequence' = nextSequence + 1
  /\ writes' = [writes EXCEPT ![s].transactions = @ \cup
       {[id |-> s, kind |-> kind, account |-> account, effect |-> effect,
         amount |-> Amount(s), sequence |-> nextSequence]}]
  /\ pc' = [pc EXCEPT ![s] = IF done THEN "commit" ELSE "insert"]
  /\ UNCHANGED <<committed, nextOrder, lock, request, answer, reads>>

InsertManual(s) ==
  /\ pc[s] = "insert" /\ request[s].operation = "post_transaction"
  /\ InsertTransaction(s, "manual", Account(s), request[s].fingerprint.effect, TRUE)

InsertSnapshot(s) ==
  /\ pc[s] = "insert" /\ request[s].operation = "create_snapshot"
  /\ nextOrder <= MaxOrder
  /\ nextOrder' = nextOrder + 1
  /\ writes' = [writes EXCEPT ![s].snapshots =
       {[id |-> s, account |-> Account(s), balance |-> request[s].fingerprint.balance,
         cutoff |-> request[s].fingerprint.cutoff, order |-> nextOrder]}]
  /\ pc' = [pc EXCEPT ![s] = "commit"]
  /\ UNCHANGED <<committed, nextSequence, lock, request, answer, reads>>

InsertLink(s) ==
  /\ pc[s] = "insert" /\ request[s].operation = "create_transfer"
  /\ writes[s].transfers = {}
  /\ writes' = [writes EXCEPT ![s].transfers =
       {[id |-> s, source |-> Source(s), destination |-> Destination(s), amount |-> Amount(s)]}]
  /\ UNCHANGED <<committed, counters, lock, pc, request, answer, reads>>

InsertLeg(s) ==
  LET first == writes[s].transactions = {}
      account == IF first THEN Source(s) ELSE Destination(s)
  IN
  /\ pc[s] = "insert" /\ request[s].operation = "create_transfer"
  /\ writes[s].transfers # {}
  /\ InsertTransaction(s, "transfer", account, TransferEffect(account, first), ~ first)

\* The history of a read: each commit adds the balance it leaves current.
Observe ==
  observed' = [r \in Sessions |->
    IF pc[r] = "read" THEN observed[r] \cup {BalanceOf(Account(r))'} ELSE observed[r]]

Commit(s) ==
  /\ pc[s] = "commit"
  /\ status' = [a \in Accounts |-> IF a \in writes[s].archived THEN "archived" ELSE status[a]]
  /\ transactions' = transactions \cup writes[s].transactions
  /\ transfers' = transfers \cup writes[s].transfers
  /\ snapshots' = snapshots \cup writes[s].snapshots
  /\ mutations' = mutations \cup writes[s].mutations
  /\ writes' = [writes EXCEPT ![s] = NoWrites]
  /\ pc' = [pc EXCEPT ![s] = "done"]
  /\ Release(s)
  /\ UNCHANGED <<counters, request, answer, view>>
  /\ Observe

-----------------------------------------------------------------------------
(* CurrentBalance *)

NoView == [snapshots |-> {}, transactions |-> {}, taken |-> FALSE]

\* The first statement of a REPEATABLE READ transaction fixes what all of its
\* statements see.
ReadSnapshot(s) ==
  /\ pc[s] = "read" /\ ~ view[s].taken
  /\ view' = [view EXCEPT ![s] = [snapshots |-> SnapshotsOf(Account(s)),
                                  transactions |-> TransactionsOf(Account(s)),
                                  taken |-> TRUE]]
  /\ UNCHANGED <<committed, counters, lock, pc, request, writes, answer, observed>>

\* Mutant: READ COMMITTED, each statement sees what is committed when it runs.
CommittedTransactions(s) == TransactionsOf(Account(s))

VisibleTransactions(s) == view[s].transactions

Latest(rows) == CHOOSE s \in rows : \A other \in rows : other # s => Supersedes(s, other)

ReadTransactions(s) ==
  LET rows == view[s].snapshots
      opening == IF rows = {} THEN 0 ELSE Latest(rows).balance
      cutoff == IF rows = {} THEN 0 ELSE Latest(rows).cutoff
  IN
  /\ pc[s] = "read" /\ view[s].taken
  /\ answer' = [answer EXCEPT ![s] =
       ReconstructBalance(Account(s), opening, {t \in VisibleTransactions(s) : t.sequence > cutoff})]
  /\ pc' = [pc EXCEPT ![s] = "done"]
  /\ UNCHANGED <<committed, counters, lock, request, writes, reads>>

-----------------------------------------------------------------------------
(* Specification *)

SessionsInit ==
  /\ Init
  /\ nextSequence = 1
  /\ nextOrder = 1
  /\ lock = [a \in Accounts |-> NoSession]
  /\ pc = [s \in Sessions |-> "idle"]
  /\ request \in Workloads
  /\ writes = [s \in Sessions |-> NoWrites]
  /\ answer = [s \in Sessions |-> NoAnswer]
  /\ view = [s \in Sessions |-> NoView]
  /\ observed = [s \in Sessions |-> {}]

Progress(s) ==
  \/ LockAccount(s)
  \/ ClaimMutation(s)
  \/ Check(s)
  \/ InsertManual(s)
  \/ InsertSnapshot(s)
  \/ InsertLink(s)
  \/ InsertLeg(s)
  \/ Commit(s)
  \/ ReadSnapshot(s)
  \/ ReadTransactions(s)

AllServed == (\A s \in Sessions : Finished(s)) /\ UNCHANGED sessionVars

SessionsNext ==
  \/ \E s \in Sessions : Begin(s)
  \/ \E s \in Sessions : Progress(s)
  \/ \E s \in Sessions : Fail(s)
  \/ AllServed

\* PostgreSQL runs a statement that can run, and grants a lock that is free.
SessionsSpec == SessionsInit /\ [][SessionsNext]_sessionVars /\ \A s \in Sessions : WF_sessionVars(Progress(s))

-----------------------------------------------------------------------------
(* Properties *)

\* The sessions' commits are the atomic operations of Ledger: what a check found
\* before its inserts still holds when they commit, sequences reach an account
\* in order, and a claim commits with its resource or not at all.
ImplementsLedger == Init /\ [][Next]_vars

\* What clients are told: two successful answers to one operation and key name
\* the same resource, and that resource is what either of them asked for
\* (README.md:133, "the original logical result without posting twice").
AnswersAgree ==
  \A s, t \in Sessions :
    (/\ pc[s] = "done" /\ pc[t] = "done"
     /\ request[s].operation \in {"post_transaction", "create_snapshot", "create_transfer"}
     /\ SameKey(request[s], request[t]))
    => /\ answer[s] = answer[t]
       /\ request[s].fingerprint = request[t].fingerprint
       /\ \E m \in mutations :
            /\ SameKey(m, request[s])
            /\ m.resource = answer[s] /\ m.fingerprint = request[s].fingerprint

\* A balance read concurrently with writers is one the account had during the
\* read, never a mix of an old snapshot and newer transactions.
ReadsAreCurrent ==
  \A s \in Sessions :
    pc[s] = "done" /\ request[s].operation = "read_balance" => answer[s] \in observed[s]

\* Every request that began is answered, rejected or fails: row locks in id
\* order, then the key, never close a cycle, whichever way transfers run, and
\* no session waits for ever for a row or a key.
EverySessionEnds == \A s \in Sessions : InTransaction(s) ~> Finished(s)

=============================================================================
