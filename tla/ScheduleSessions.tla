-------------------------- MODULE ScheduleSessions --------------------------
(***************************************************************************)
(* How schedule_repository.go carries out the operations of Schedule:      *)
(* concurrent transactions at READ COMMITTED.  A creation claims its key,  *)
(* then inserts its row; a change locks its row first, then claims its     *)
(* key; a collection then inserts its own row, which may wait for another  *)
(* collection that was linked to the same ledger transaction.  The service *)
(* reads its clock before the transaction begins: a session may reach its  *)
(* row with a time older than the row's.                                   *)
(*                                                                         *)
(* A session serves one request; a retry is another session with the same  *)
(* request.                                                                *)
(***************************************************************************)
EXTENDS Schedule, FiniteSetsExt

CONSTANTS
  Sessions,     \* requests being served
  Workloads,    \* what clients may ask for: functions from sessions to requests
  NoAnswer      \* nothing was answered

\* What a client may ask for; a field that an operation does not read is any value.
RequestRow == [operation : Operations, key : Keys, row : Keys, original : Originals,
               amount : Amounts, link : Transactions \cup {NoLink}]

ASSUME WorkloadAssumption == Workloads \subseteq [Sessions -> RequestRow]

ASSUME SessionAssumption == IsFiniteSet(Sessions)

VARIABLES
  updated,      \* updated_at of a row, created_at of a collection
  locks,        \* rows a session holds FOR UPDATE
  pc,           \* the statement a session runs next, or how it ended
  request,      \* what the client of a session asks for
  moment,       \* time the service read for a session
  writes,       \* uncommitted rows
  answer        \* the row a session was told

committed == <<ledger, obligations, flows, receivables, collections, claims, updated>>
sessionVars == <<committed, locks, pc, request, moment, writes, answer>>

-----------------------------------------------------------------------------
(* Requests, rows and locks *)

Tables == {"obligations", "flows", "receivables", "collections"}

NoWrites == [obligations |-> {}, flows |-> {}, receivables |-> {}, collections |-> {}, claims |-> {}]

Ended == {"done", "rejected", "failed"}

Creations == {"create_obligation", "create_scheduled_flow", "create_receivable"}

\* The table of the row that a request creates or changes.
Table(s) ==
  CASE request[s].operation \in {"create_obligation", "archive_obligation"}        -> "obligations"
    [] request[s].operation \in {"create_scheduled_flow", "cancel_scheduled_flow"} -> "flows"
    [] OTHER                                                                       -> "receivables"

CommittedRows(table) ==
  CASE table = "obligations" -> obligations
    [] table = "flows"       -> flows
    [] table = "receivables" -> receivables
    [] table = "collections" -> collections

\* The row a change is about: none, while its creation has not committed.
Target(s) == {r \in CommittedRows(Table(s)) : r.id = request[s].row}

Fingerprint(s) ==
  CASE request[s].operation \in {"create_obligation", "create_scheduled_flow"} -> <<>>
    [] request[s].operation = "create_receivable"  -> <<request[s].original>>
    [] request[s].operation = "collect_receivable" -> <<request[s].row, request[s].amount, request[s].link>>
    [] OTHER                                       -> <<request[s].row>>

Claim(s) == <<request[s].operation, request[s].key, Fingerprint(s)>>

Holders(s, row) == {o \in Sessions \ {s} : row \in locks[o]}

\* Insertion of a unique value waits for a session that has inserted it.
KeyBlockers(s) ==
  {o \in Sessions \ {s} : \E c \in writes[o].claims : <<c[1], c[2]>> = <<Claim(s)[1], Claim(s)[2]>>}

LinkBlockers(s) ==
  {o \in Sessions \ {s} : request[s].link # NoLink
                            /\ \E c \in writes[o].collections : c.link = request[s].link}

WaitsFor(s) ==
  CASE pc[s] = "row"   -> UNION {Holders(s, <<Table(s), r.id>>) : r \in Target(s)}
    [] pc[s] = "claim" -> KeyBlockers(s)
    [] pc[s] = "link"  -> IF Compatible(request[s].link, request[s].amount) THEN LinkBlockers(s) ELSE {}
    [] OTHER           -> {}

Ready(s, statement) == pc[s] = statement /\ WaitsFor(s) = {}

Goto(s, statement) == pc' = [pc EXCEPT ![s] = statement]

End(s, outcome) ==
  /\ Goto(s, outcome)
  /\ locks' = [locks EXCEPT ![s] = {}]
  /\ writes' = [writes EXCEPT ![s] = NoWrites]
  /\ UNCHANGED <<request, moment>>

\* Mutant: an early return leaves its transaction open.
RejectWithoutRollback(s) == Goto(s, "rejected") /\ UNCHANGED <<committed, locks, request, moment, writes, answer>>

\* An early return: the deferred rollback.
Reject(s) == End(s, "rejected") /\ UNCHANGED <<committed, answer>>

-----------------------------------------------------------------------------
(* Statements *)

\* The service reads its clock, then the repository begins.
Begin(s) ==
  /\ pc[s] = "idle"
  /\ moment' = [moment EXCEPT ![s] = Max({moment[o] : o \in Sessions}) + 1]
  /\ Goto(s, IF request[s].operation \in Creations THEN "claim" ELSE "row")
  /\ UNCHANGED <<committed, locks, request, writes, answer>>

\* Mutant: the row is read without FOR UPDATE.
ReadRow(s) ==
  /\ pc[s] = "row"
  /\ IF Target(s) # {}
       THEN Goto(s, "claim") /\ UNCHANGED <<committed, locks, request, moment, writes, answer>>
       ELSE Reject(s)

LockRow(s) ==
  /\ Ready(s, "row")
  /\ IF Target(s) # {}
       THEN /\ locks' = [locks EXCEPT ![s] = {<<Table(s), request[s].row>>}]
            /\ Goto(s, "claim")
            /\ UNCHANGED <<committed, request, moment, writes, answer>>
       ELSE Reject(s)

\* Mutant: the replay of a creation answers the row as it is now.
CurrentResult(table, r) == r

\* originalObligationResult, originalScheduledFlowResult, originalReceivableResult
OriginalResult(table, r) ==
  CASE table = "obligations" -> NewObligation(r.id)
    [] table = "flows"       -> NewFlow(r.id)
    [] table = "receivables" -> NewReceivable(r.id, r.original)

\* What the call that claimed the key is answered again.
Replayed(s) ==
  IF request[s].operation = "collect_receivable"
    THEN CHOOSE c \in collections : c.id = request[s].key
  ELSE IF request[s].operation \in Creations
    THEN OriginalResult(Table(s), CHOOSE r \in CommittedRows(Table(s)) : r.id = request[s].key)
  ELSE CHOOSE r \in Target(s) : TRUE

\* claimMutation: a key new to the operation, the same mutation again, another one.
ClaimMutation(s) ==
  /\ Ready(s, "claim")
  /\ \/ /\ Unclaimed(request[s].operation, request[s].key)
        /\ writes' = [writes EXCEPT ![s].claims = {Claim(s)}]
        /\ Goto(s, IF request[s].operation \in Creations THEN "insert" ELSE "change")
        /\ UNCHANGED <<committed, locks, request, moment, answer>>
     \/ /\ Claim(s) \in claims
        /\ answer' = [answer EXCEPT ![s] = Replayed(s)]
        /\ End(s, "done")
        /\ UNCHANGED committed
     \/ /\ ~ Unclaimed(request[s].operation, request[s].key)
        /\ Claim(s) \notin claims
        /\ Reject(s)

NewRow(s) ==
  CASE request[s].operation = "create_obligation"     -> NewObligation(request[s].key)
    [] request[s].operation = "create_scheduled_flow" -> NewFlow(request[s].key)
    [] request[s].operation = "create_receivable"     -> NewReceivable(request[s].key, request[s].original)

Write(s, table, row) ==
  /\ writes' = [writes EXCEPT ![s][table] = {row}]
  /\ answer' = [answer EXCEPT ![s] = row]

InsertRow(s) ==
  /\ Ready(s, "insert")
  /\ Write(s, Table(s), NewRow(s))
  /\ Goto(s, "commit")
  /\ UNCHANGED <<committed, locks, request, moment>>

\* Mutant: the time of the row is not compared.
AnyTime(s, r) == TRUE

\* A change may not be older than the row's last one.
Fresh(s, r) == moment[s] >= updated[<<Table(s), r.id>>]

IsChange(s, operation) == Ready(s, "change") /\ request[s].operation = operation

\* The domain's answer to a change of row r: the new row, or an error.
Change(s, r, allowed, new) ==
  IF allowed /\ Fresh(s, r)
    THEN /\ Write(s, Table(s), new)
         /\ Goto(s, IF request[s].operation = "collect_receivable" THEN "link" ELSE "commit")
         /\ UNCHANGED <<committed, locks, request, moment>>
    ELSE Reject(s)

ArchiveLockedObligation(s) ==
  /\ IsChange(s, "archive_obligation")
  /\ \E o \in Target(s) : Change(s, o, o.status = "active", [o EXCEPT !.status = "archived"])

CancelLockedFlow(s) ==
  /\ IsChange(s, "cancel_scheduled_flow")
  /\ \E f \in Target(s) : Change(s, f, f.status = "scheduled", [f EXCEPT !.status = "cancelled"])

CancelLockedReceivable(s) ==
  /\ IsChange(s, "cancel_receivable")
  /\ \E r \in Target(s) : Change(s, r, ~ Final(r), [r EXCEPT !.status = "cancelled"])

UpdateReceivable(s) ==
  /\ IsChange(s, "collect_receivable")
  /\ \E r \in Target(s) :
       Change(s, r, ~ Final(r) /\ request[s].amount <= Outstanding(r),
              CollectedReceivable(r, request[s].amount))

\* The collection row, which the trigger compares with its ledger transaction.
InsertCollection(s) ==
  LET q == request[s] IN
  /\ Ready(s, "link")
  /\ IF Compatible(q.link, q.amount) /\ Unlinked(q.link, q.row)
       THEN /\ \E r \in Target(s) : Write(s, "collections", NewCollection(q.key, r, q.amount, q.link))
            /\ Goto(s, "commit")
            /\ UNCHANGED <<committed, locks, request, moment>>
       ELSE Reject(s)

\* Rows of writes replace the committed rows that have their ids.
Merged(rows, new) == {r \in rows : \A n \in new : n.id # r.id} \cup new

\* Names of the rows that a session writes.
Written(s) == UNION {{<<table, r.id>> : r \in writes[s][table]} : table \in Tables}

Commit(s) ==
  LET w == writes[s] IN
  /\ pc[s] = "commit"
  /\ obligations' = Merged(obligations, w.obligations)
  /\ flows' = Merged(flows, w.flows)
  /\ receivables' = Merged(receivables, w.receivables)
  /\ collections' = Merged(collections, w.collections)
  /\ claims' = claims \cup w.claims
  /\ updated' = [row \in DOMAIN updated |-> IF row \in Written(s) THEN moment[s] ELSE updated[row]]
  /\ End(s, "done")
  /\ UNCHANGED <<ledger, answer>>

-----------------------------------------------------------------------------
(* Specification *)

SessionsInit ==
  /\ Init
  /\ updated = [row \in Tables \X Keys |-> 0]
  /\ locks = [s \in Sessions |-> {}]
  /\ pc = [s \in Sessions |-> "idle"]
  /\ request \in Workloads
  /\ moment = [s \in Sessions |-> 0]
  /\ writes = [s \in Sessions |-> NoWrites]
  /\ answer = [s \in Sessions |-> NoAnswer]

Progress(s) ==
  \/ LockRow(s) \/ ClaimMutation(s) \/ InsertRow(s) \/ Commit(s)
  \/ ArchiveLockedObligation(s) \/ CancelLockedFlow(s) \/ CancelLockedReceivable(s)
  \/ UpdateReceivable(s) \/ InsertCollection(s)

\* The connection breaks or the process dies.
Fail(s) ==
  /\ pc[s] \notin Ended \cup {"idle"}
  /\ End(s, "failed")
  /\ UNCHANGED <<committed, answer>>

\* The ledger posts a transaction, which locks no row of these (one that no
\* request is about to link is left out: nothing reads it).
LedgerPosts ==
  /\ \E s \in Sessions, effect \in Effects, amount \in Amounts :
       pc[s] \notin Ended /\ request[s].link # NoLink /\ PostTransaction(request[s].link, effect, amount)
  /\ UNCHANGED <<updated, locks, pc, request, moment, writes, answer>>

AllServed == (\A s \in Sessions : pc[s] \in Ended) /\ UNCHANGED sessionVars

SessionsNext ==
  \/ \E s \in Sessions : Begin(s)
  \/ \E s \in Sessions : Progress(s)
  \/ \E s \in Sessions : Fail(s)
  \/ LedgerPosts
  \/ AllServed

\* PostgreSQL runs a statement that can run, and grants a lock that is free.
SessionsSpec ==
  SessionsInit /\ [][SessionsNext]_sessionVars /\ \A s \in Sessions : WF_sessionVars(Progress(s))

-----------------------------------------------------------------------------
(* Properties *)

\* Committed and uncommitted rows have their tables' types, and no row has two holders.
SessionTypeOK ==
  /\ TypeOK
  /\ pc \in [Sessions -> {"idle", "row", "claim", "insert", "change", "link", "commit"} \cup Ended]
  /\ \A s \in Sessions :
       /\ \A row \in locks[s] : Holders(s, row) = {}
       /\ writes[s].receivables \subseteq ReceivableRow
       /\ writes[s].collections \subseteq CollectionRow

\* The commits are the atomic operations of Schedule: concurrent collections of
\* one receivable, or a collection and a cancellation, do not lose each other.
ImplementsSchedule == Init /\ [][Next]_vars

\* What is collected of a receivable is the sum of its collections, and a ledger
\* transaction is evidence for one collection of its amount (see Schedule).
CommittedCollectionsReconcile == CollectionsReconcile /\ LinksAreEvidence

\* Sessions that used the same key for the same operation are told the same row,
\* whatever happened to the row between them (README.md:133 and 172,
\* "the original logical result").
AnswersAgree ==
  \A s, o \in Sessions :
    /\ pc[s] = "done" /\ pc[o] = "done"
    /\ request[s].operation = request[o].operation /\ request[s].key = request[o].key
    => answer[s] = answer[o]

\* What is archived, cancelled or collected stays (see Schedule), and the time of
\* a row's last change never goes back: though the service reads its clock
\* before it waits for the row, the times of a receivable's collections order
\* them as their amounts do (receivable.go:133).
HistoryIsKept ==
  OutcomesAreFinal /\ [][\A row \in DOMAIN updated : updated[row] <= updated'[row]]_updated

\* Every request that began is answered, refused or fails: no client waits for
\* a row, a key or a link for ever.
EverySessionEnds == <>[](\A s \in Sessions : pc[s] \in Ended \cup {"idle"})

=============================================================================
