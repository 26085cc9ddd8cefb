------------------------------ MODULE Schedule ------------------------------
(***************************************************************************)
(* Cash that is expected: obligations, manual cash flows, receivables and  *)
(* what was collected of them (internal/postgres/schedule_repository.go,   *)
(* each repository call as ONE atomic step).  Dates and recurrence change  *)
(* no state here; times are in ScheduleSessions.                           *)
(***************************************************************************)
EXTENDS ScheduleRows, FiniteSets, Functions

VARIABLES
  ledger,         \* financial_transactions a collection may be linked to
  obligations,    \* obligations
  flows,          \* scheduled_cash_flows of manual sources
  receivables,    \* receivables
  collections,    \* receivable_collections
  claims          \* financial_mutations: operation, key and fingerprint

vars == <<ledger, obligations, flows, receivables, collections, claims>>

-----------------------------------------------------------------------------
(* Reading the tables *)

Unclaimed(operation, key) == \A c \in claims : <<c[1], c[2]>> # <<operation, key>>

Claimed(operation, key, fingerprint) == claims' = claims \cup {<<operation, key, fingerprint>>}

Outstanding(r) == r.original - r.collected

Final(r) == r.status \in {"collected", "cancelled"}

CollectionsOf(r) == {c \in collections : c.receivable = r.id}

After(c) == c.before + c.amount

\* The trigger on collections: the linked transaction brought in that amount.
Compatible(link, amount) ==
  link # NoLink => \E t \in ledger : t.id = link /\ t.amount = amount /\ t.effect = "asset_inflow"

\* Mutant: a transaction is linked once to each receivable.
UnlinkedHere(link, receivable) ==
  link # NoLink => \A c \in collections : c.link # link \/ c.receivable # receivable

\* UNIQUE (owner_id, ledger_transaction_id)
Unlinked(link, receivable) ==
  link # NoLink => \A c \in collections : c.link # link

-----------------------------------------------------------------------------
(* Operations *)

Init ==
  /\ ledger = {}
  /\ obligations = {}
  /\ flows = {}
  /\ receivables = {}
  /\ collections = {}
  /\ claims = {}

\* The ledger posts a transaction.
PostTransaction(id, effect, amount) ==
  /\ \A t \in ledger : t.id # id
  /\ ledger' = ledger \cup {[id |-> id, effect |-> effect, amount |-> amount]}
  /\ UNCHANGED <<obligations, flows, receivables, collections, claims>>

NewObligation(key) == [id |-> key, status |-> "active"]

CreateObligation(key) ==
  /\ Unclaimed("create_obligation", key)
  /\ obligations' = obligations \cup {NewObligation(key)}
  /\ Claimed("create_obligation", key, <<>>)
  /\ UNCHANGED <<ledger, flows, receivables, collections>>

ArchiveObligation(key, o) ==
  /\ Unclaimed("archive_obligation", key)
  /\ o.status = "active"
  /\ obligations' = (obligations \ {o}) \cup {[o EXCEPT !.status = "archived"]}
  /\ Claimed("archive_obligation", key, <<o.id>>)
  /\ UNCHANGED <<ledger, flows, receivables, collections>>

NewFlow(key) == [id |-> key, status |-> "scheduled"]

CreateScheduledFlow(key) ==
  /\ Unclaimed("create_scheduled_flow", key)
  /\ flows' = flows \cup {NewFlow(key)}
  /\ Claimed("create_scheduled_flow", key, <<>>)
  /\ UNCHANGED <<ledger, obligations, receivables, collections>>

CancelScheduledFlow(key, f) ==
  /\ Unclaimed("cancel_scheduled_flow", key)
  /\ f.status = "scheduled"
  /\ flows' = (flows \ {f}) \cup {[f EXCEPT !.status = "cancelled"]}
  /\ Claimed("cancel_scheduled_flow", key, <<f.id>>)
  /\ UNCHANGED <<ledger, obligations, receivables, collections>>

NewReceivable(key, original) ==
  [id |-> key, original |-> original, collected |-> 0, status |-> "open"]

CreateReceivable(key, original) ==
  /\ Unclaimed("create_receivable", key)
  /\ receivables' = receivables \cup {NewReceivable(key, original)}
  /\ Claimed("create_receivable", key, <<original>>)
  /\ UNCHANGED <<ledger, obligations, flows, collections>>

\* Mutant: a partial collection leaves the status as it was.
StatusKept(r, amount) == IF amount = Outstanding(r) THEN "collected" ELSE r.status

StatusAfter(r, amount) == IF amount = Outstanding(r) THEN "collected" ELSE "partially_collected"

\* Receivable.RecordCollection: the receivable and the row of the collection.
CollectedReceivable(r, amount) ==
  [r EXCEPT !.collected = @ + amount, !.status = StatusAfter(r, amount)]

NewCollection(key, r, amount, link) ==
  [id |-> key, receivable |-> r.id, amount |-> amount, before |-> r.collected,
   resulting |-> StatusAfter(r, amount), link |-> link]

RecordReceivableCollection(key, r, amount, link) ==
  /\ Unclaimed("collect_receivable", key)
  /\ ~ Final(r)
  /\ amount <= Outstanding(r)
  /\ Compatible(link, amount)
  /\ Unlinked(link, r.id)
  /\ receivables' = (receivables \ {r}) \cup {CollectedReceivable(r, amount)}
  /\ collections' = collections \cup {NewCollection(key, r, amount, link)}
  /\ Claimed("collect_receivable", key, <<r.id, amount, link>>)
  /\ UNCHANGED <<ledger, obligations, flows>>

CancelReceivable(key, r) ==
  /\ Unclaimed("cancel_receivable", key)
  /\ ~ Final(r)
  /\ receivables' = (receivables \ {r}) \cup {[r EXCEPT !.status = "cancelled"]}
  /\ Claimed("cancel_receivable", key, <<r.id>>)
  /\ UNCHANGED <<ledger, obligations, flows, collections>>

Next ==
  \/ \E id \in Transactions, effect \in Effects, amount \in Amounts : PostTransaction(id, effect, amount)
  \/ \E key \in Keys :
       \/ CreateObligation(key)
       \/ CreateScheduledFlow(key)
       \/ \E original \in Originals : CreateReceivable(key, original)
       \/ \E o \in obligations : ArchiveObligation(key, o)
       \/ \E f \in flows : CancelScheduledFlow(key, f)
       \/ \E r \in receivables, amount \in Amounts, link \in Transactions \cup {NoLink} :
            RecordReceivableCollection(key, r, amount, link)
       \/ \E r \in receivables : CancelReceivable(key, r)

Spec == Init /\ [][Next]_vars

-----------------------------------------------------------------------------
(* Properties *)

\* Every row has its columns' types (migrations 0004, 0005, 0007).
TypeOK ==
  /\ ledger \subseteq TransactionRow
  /\ obligations \subseteq ObligationRow
  /\ flows \subseteq FlowRow
  /\ receivables \subseteq ReceivableRow
  /\ collections \subseteq CollectionRow
  /\ \A c \in claims : c[1] \in Operations /\ c[2] \in Keys

\* What is collected of a receivable is the sum of its collections, which follow
\* one another without gap or overlap, and its status says how much is left;
\* cancelling keeps what was collected (the CHECKs and the deferred trigger of migration 0004).
CollectionsReconcile ==
  \A r \in receivables :
    /\ r.collected = SumFunction([c \in CollectionsOf(r) |-> c.amount])
    /\ \A c \in CollectionsOf(r) :
         /\ c.before = 0 \/ \E d \in CollectionsOf(r) : After(d) = c.before
         /\ c.resulting = "collected" <=> After(c) = r.original
    /\ CASE r.status = "open"                -> r.collected = 0
         [] r.status = "partially_collected" -> r.collected \in 1..r.original - 1
         [] r.status = "collected"           -> r.collected = r.original
         [] r.status = "cancelled"           -> r.collected < r.original

\* A ledger transaction is evidence for one collection, of an inflow of its
\* amount (README.md:191, "an optional compatible ledger inflow").
LinksAreEvidence ==
  \A c \in collections : c.link # NoLink =>
    /\ \A d \in collections : d.link = c.link => d = c
    /\ \E t \in ledger : t = [id |-> c.link, effect |-> "asset_inflow", amount |-> c.amount]

\* Archived, cancelled and collected are final, collections stay, and collecting only adds.
OutcomesAreFinal ==
  [][/\ collections \subseteq collections'
     /\ \A o \in obligations : o.status = "archived" => o \in obligations'
     /\ \A f \in flows : f.status = "cancelled" => f \in flows'
     /\ \A r \in receivables :
          IF r.status \in {"collected", "cancelled"} THEN r \in receivables'
          ELSE \E q \in receivables' : /\ q.id = r.id /\ q.original = r.original
                                       /\ q.collected >= r.collected]_vars

=============================================================================
