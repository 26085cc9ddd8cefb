---------------------------- MODULE CardSessions ----------------------------
(***************************************************************************)
(* How internal/postgres/card_repository.go carries out the operations of  *)
(* CardPayments: concurrent database transactions at READ COMMITTED, each  *)
(* statement seeing what is committed when it starts, row locks, waits,    *)
(* PostgreSQL's re-evaluation of a row that changed under a wait, and its  *)
(* deadlock detector.  A session serves one request; a retry is another    *)
(* session with the same request.                                          *)
(*                                                                         *)
(* The rows that sessions wait for are the card account, the cycles and    *)
(* the intents.  Statement rows are locked only under their cycle's lock   *)
(* and flow rows only under their intent's, so their locks never wait.     *)
(*                                                                         *)
(* External: the locks PostgreSQL takes.  FOR UPDATE excludes everything;  *)
(* the FOR KEY SHARE of a foreign-key check excludes FOR UPDATE only.      *)
(***************************************************************************)
EXTENDS CardPayments

CONSTANTS
  Sessions,     \* requests being served
  Workloads     \* what clients may ask for: functions from sessions to requests

Requests ==
  [operation : {"register_credit_card_statement"}, key : Keys, cycle : Cycles,
   authority : {"estimated", "issued"}, balance : Balances, due : Dates]
    \cup [operation : {"replace"}, cycle : Cycles, amount : Amounts, planned : Dates]
    \cup [operation : {"cancel"}, cycle : Cycles]
    \cup [operation : {"settle_credit_card_payment_intent"}, key : Keys, cycle : Cycles,
          transfer : Transfers]

ASSUME WorkloadAssumption == Workloads \subseteq [Sessions -> Requests]

\* The variables of CardPayments are the committed rows.
VARIABLES
  exclusive,    \* rows a session holds FOR UPDATE (or has updated)
  shared,       \* rows a session holds FOR KEY SHARE
  pc,           \* the statement a session runs next, or how it ended
  request,      \* what the client of a session asks for
  seen,         \* statements the first query of ReplaceIntent found
  writes        \* uncommitted rows

committed == vars
locks == <<exclusive, shared>>
sessionVars == <<committed, locks, pc, request, seen, writes>>

-----------------------------------------------------------------------------
(* Requests, rows and locks *)

\* Row versions a session replaces, and those it adds.
NoWrites == [out |-> [statements |-> {}, flows |-> {}],
             in  |-> [statements |-> {}, flows |-> {}, intents |-> {}, settlements |-> {},
                      mutations |-> {}]]

AccountRow(card) == <<"account", card>>
CycleRow(cycle) == <<"cycle", cycle>>
PlanRow(cycle) == <<"intent", cycle>>

Cycle(s) == request[s].cycle
Amount(s) == request[s].amount

Ended == {"done", "rejected", "no_statement", "failed"}

\* Sessions that keep s from a row.
ExclusiveBlockers(s, row) == {o \in Sessions \ {s} : row \in exclusive[o] \cup shared[o]}
ShareBlockers(s, row) == {o \in Sessions \ {s} : row \in exclusive[o]}

\* Insertion of a unique value waits for a session that has inserted it.
KeyBlockers(s) ==
  {o \in Sessions \ {s} : <<request[s].operation, request[s].key>> \in writes[o].in.mutations}

TransferBlockers(s) ==
  {o \in Sessions \ {s} : \E n \in writes[o].in.settlements : n.transfer = request[s].transfer}

\* A correction must lock an intent it outgrows in what is committed.
MustReview(s) == Outgrown(Cycle(s), request[s].balance, request[s].due)

WaitsFor(s) ==
  CASE pc[s] = "account"                     -> ExclusiveBlockers(s, AccountRow(CardOf[Cycle(s)]))
    [] pc[s] = "claim"                       -> KeyBlockers(s)
    [] pc[s] = "cycle"                       -> ExclusiveBlockers(s, CycleRow(Cycle(s)))
    [] pc[s] \in {"intent", "review_intent"} -> ExclusiveBlockers(s, PlanRow(Cycle(s)))
    [] pc[s] = "link"                        -> TransferBlockers(s)
    [] pc[s] = "link_cycle"                  -> ShareBlockers(s, CycleRow(Cycle(s)))
    [] pc[s] = "first_intent"                -> ShareBlockers(s, AccountRow(CardOf[Cycle(s)]))
    [] OTHER                                 -> {}

\* s is one of a set of sessions that wait only for one another.
InDeadlock(s) ==
  /\ WaitsFor(s) # {}
  /\ \E waiting \in SUBSET {o \in Sessions : WaitsFor(o) # {}} :
       s \in waiting /\ \A o \in waiting : WaitsFor(o) \cap waiting # {}

Ready(s, statement) == pc[s] = statement /\ WaitsFor(s) = {}

Goto(s, statement) == pc' = [pc EXCEPT ![s] = statement]

Take(s, row) == exclusive' = [exclusive EXCEPT ![s] = @ \cup {row}]

Share(s, row) == shared' = [shared EXCEPT ![s] = @ \cup {row}]

End(s, outcome) ==
  /\ Goto(s, outcome)
  /\ exclusive' = [exclusive EXCEPT ![s] = {}]
  /\ shared' = [shared EXCEPT ![s] = {}]
  /\ writes' = [writes EXCEPT ![s] = NoWrites]
  /\ UNCHANGED <<request, seen>>

\* Mutant: an early return leaves its transaction open.
EndWithoutRollback(s, outcome) ==
  Goto(s, outcome) /\ UNCHANGED <<committed, locks, request, seen, writes>>

\* The transaction ends and leaves no row: rolled back, or a commit without writes.
EndUnchanged(s, outcome) == End(s, outcome) /\ UNCHANGED committed

-----------------------------------------------------------------------------
(* Statements shared by several calls *)

FirstStatement(r) ==
  CASE r.operation = "register_credit_card_statement"     -> "account"
    [] r.operation = "settle_credit_card_payment_intent"  -> "claim"
    [] r.operation = "replace"                            -> "read"
    [] r.operation = "cancel"                             -> "intent"

Begin(s) ==
  /\ pc[s] = "idle"
  /\ Goto(s, FirstStatement(request[s]))
  /\ UNCHANGED <<committed, locks, request, seen, writes>>

\* claimMutation: a key already claimed is replayed or, for another request,
\* refused; neither changes a row.
ClaimMutation(s) ==
  LET claim == <<request[s].operation, request[s].key>> IN
  /\ Ready(s, "claim")
  /\ IF claim \in mutations
       THEN EndUnchanged(s, "done")
       ELSE /\ writes' = [writes EXCEPT ![s].in.mutations = {claim}]
            /\ Goto(s, IF request[s].operation = "register_credit_card_statement"
                         THEN "cycle" ELSE "intent")
            /\ UNCHANGED <<committed, locks, request, seen>>

\* Mutant: the row is read without FOR UPDATE.
ReadIntent(s) ==
  /\ pc[s] = "intent"
  /\ IF HasIntent(Cycle(s))
       THEN Goto(s, "change") /\ UNCHANGED <<committed, locks, request, seen, writes>>
     ELSE IF request[s].operation = "replace"
       THEN Goto(s, "first_intent") /\ UNCHANGED <<committed, locks, request, seen, writes>>
     ELSE EndUnchanged(s, "rejected")

\* SELECT ... FROM credit_card_payment_intents ... FOR UPDATE: the row as it is
\* once no one else holds it; without a row there is nothing to lock.
LockIntent(s) ==
  /\ Ready(s, "intent")
  /\ \/ /\ HasIntent(Cycle(s))
        /\ Take(s, PlanRow(Cycle(s)))
        /\ Goto(s, "change")
        /\ UNCHANGED <<committed, shared, request, seen, writes>>
     \/ /\ ~ HasIntent(Cycle(s)) /\ request[s].operation = "replace"
        /\ Goto(s, "first_intent")
        /\ UNCHANGED <<committed, locks, request, seen, writes>>
     \/ /\ ~ HasIntent(Cycle(s)) /\ request[s].operation # "replace"
        /\ EndUnchanged(s, "rejected")

\* The rows of an intent's new version and of its flows.
IntentWrites(s, intent, flowsOut, flowsIn) ==
  writes' = [writes EXCEPT ![s].in.intents = intent, ![s].out.flows = flowsOut,
                           ![s].in.flows = flowsIn]

EndedFlow(f, outcome, transfer) == [f EXCEPT !.status = outcome, !.settledBy = transfer]

FlowsEnded(cycle, outcome, transfer) ==
  {EndedFlow(f, outcome, transfer) : f \in ScheduledFlows(cycle)}

Commit(s) ==
  LET w == writes[s] IN
  /\ pc[s] = "commit"
  /\ statements' = (statements \ w.out.statements) \cup w.in.statements
  /\ flows' = (flows \ w.out.flows) \cup w.in.flows
  /\ intents' = IF w.in.intents = {} THEN intents
                ELSE [intents EXCEPT ![Cycle(s)] = CHOOSE i \in w.in.intents : TRUE]
  /\ settlements' = settlements \cup w.in.settlements
  /\ mutations' = mutations \cup w.in.mutations
  /\ UNCHANGED <<cardStatus, payments>>
  /\ End(s, "done")

-----------------------------------------------------------------------------
(* RegisterStatement: account, key, cycle, supersede and insert, review *)

LockAccount(s) ==
  /\ Ready(s, "account")
  /\ IF cardStatus[CardOf[Cycle(s)]] = "active"
       THEN /\ Take(s, AccountRow(CardOf[Cycle(s)]))
            /\ Goto(s, "claim")
            /\ UNCHANGED <<committed, shared, request, seen, writes>>
       ELSE EndUnchanged(s, "rejected")

\* The cycle row is inserted, or locked FOR UPDATE.  ReplaceIntent then looks at
\* the statement its query found again: one that was superseded meanwhile drops
\* out of the result, and the query returns no row.
LockCycle(s) ==
  /\ Ready(s, "cycle")
  /\ IF request[s].operation = "replace" /\ seen[s] \cap ActiveStatements(Cycle(s)) = {}
       THEN EndUnchanged(s, "no_statement")
       ELSE /\ Take(s, CycleRow(Cycle(s)))
            /\ Goto(s, IF request[s].operation = "replace" THEN "validate" ELSE "statement")
            /\ UNCHANGED <<committed, shared, request, seen, writes>>

InsertStatement(s) ==
  LET r == request[s]
      prior == ActiveStatements(r.cycle)
  IN
  /\ Ready(s, "statement")
  /\ IF \E p \in prior : ~ MayReplace(p, r.authority)
       THEN EndUnchanged(s, "rejected")
       ELSE /\ writes' = [writes EXCEPT
                 ![s].out.statements = prior,
                 ![s].in.statements =
                   {[p EXCEPT !.supersededBy = r.key] : p \in prior}
                     \cup {[id |-> r.key, cycle |-> r.cycle, revision |-> NextRevision(r.cycle),
                            authority |-> r.authority, balance |-> r.balance, due |-> r.due,
                            supersededBy |-> NoKey]}]
            /\ Goto(s, IF MustReview(s) THEN "review_intent" ELSE "commit")
            /\ UNCHANGED <<committed, locks, request, seen>>

\* UPDATE ... WHERE status='active' AND ...: evaluated again after a wait.
ReviewIntent(s) ==
  LET i == intents[Cycle(s)] IN
  /\ Ready(s, "review_intent")
  /\ Goto(s, "commit")
  /\ IF MustReview(s)
       THEN /\ Take(s, PlanRow(Cycle(s)))
            /\ IntentWrites(s, {[i EXCEPT !.status = "needs_review"]}, ScheduledFlows(Cycle(s)),
                            FlowsEnded(Cycle(s), "cancelled", NoKey))
       ELSE UNCHANGED <<exclusive, writes>>
  /\ UNCHANGED <<committed, shared, request, seen>>

-----------------------------------------------------------------------------
(* ReplaceIntent: read, lock cycle and statement, validate, lock intent, write *)

ReadStatement(s) ==
  /\ Ready(s, "read")
  /\ IF ActiveStatements(Cycle(s)) = {}
       THEN EndUnchanged(s, "no_statement")
       ELSE /\ seen' = [seen EXCEPT ![s] = ActiveStatements(Cycle(s))]
            /\ Goto(s, "cycle")
            /\ UNCHANGED <<committed, locks, request, writes>>

Validate(s) ==
  /\ Ready(s, "validate")
  /\ IF \E st \in seen[s] : Amount(s) <= st.balance /\ request[s].planned <= st.due
       THEN Goto(s, "intent") /\ UNCHANGED <<committed, locks, request, seen, writes>>
       ELSE EndUnchanged(s, "rejected")

\* createCardFlow, and the version the flow belongs to.
Replacement(s, version) ==
  LET planned == request[s].planned IN
  /\ FlowIdFree(Cycle(s), version, Amount(s))
  /\ IntentWrites(s,
       {[amount |-> Amount(s), planned |-> planned, version |-> version, status |-> "active"]},
       ScheduledFlows(Cycle(s)),
       FlowsEnded(Cycle(s), "cancelled", NoKey) \cup {Flow(Cycle(s), version, Amount(s), planned)})

\* The first intent of a cycle: its foreign key shares the account row.
InsertIntent(s) ==
  /\ Ready(s, "first_intent")
  /\ Share(s, AccountRow(CardOf[Cycle(s)]))
  /\ Replacement(s, 1)
  /\ Goto(s, "commit")
  /\ UNCHANGED <<committed, exclusive, request, seen>>

\* The deferred trigger refuses a plan that was paid in part.
ReplaceVersion(s) ==
  LET i == intents[Cycle(s)] IN
  /\ Ready(s, "change") /\ request[s].operation = "replace"
  /\ IF i.status \in {"cancelled", "settled"} THEN EndUnchanged(s, "rejected")
     ELSE IF IsPlanned(Cycle(s), Amount(s), request[s].planned) THEN EndUnchanged(s, "done")
     ELSE IF SettledAmount(Cycle(s)) # 0 \/ i.version = MaxVersion THEN EndUnchanged(s, "rejected")
     ELSE /\ Replacement(s, i.version + 1)
          /\ Goto(s, "commit")
          /\ UNCHANGED <<committed, locks, request, seen>>

-----------------------------------------------------------------------------
(* CancelIntent *)

Cancel(s) ==
  LET i == intents[Cycle(s)] IN
  /\ Ready(s, "change") /\ request[s].operation = "cancel"
  /\ IF i.status = "cancelled" THEN EndUnchanged(s, "done")
     ELSE IF i.status = "settled" THEN EndUnchanged(s, "rejected")
     ELSE /\ IntentWrites(s, {[i EXCEPT !.status = "cancelled", !.version = @ + 1]},
                          ScheduledFlows(Cycle(s)), FlowsEnded(Cycle(s), "cancelled", NoKey))
          /\ Goto(s, "commit")
          /\ UNCHANGED <<committed, locks, request, seen>>

-----------------------------------------------------------------------------
(* SettleIntent: key, intent, link the transfer, its foreign keys, the flow *)

IsSettlement(s) == request[s].operation = "settle_credit_card_payment_intent"

CheckSettlement(s) ==
  /\ Ready(s, "change") /\ IsSettlement(s)
  /\ IF /\ intents[Cycle(s)].status = "active"
        /\ \E p \in payments : /\ p.id = request[s].transfer
                               /\ p.destination = CardOf[Cycle(s)]
                               /\ FitsRemaining(p, Cycle(s))
       THEN Goto(s, "link") /\ UNCHANGED <<committed, locks, request, seen, writes>>
       ELSE EndUnchanged(s, "rejected")

Payment(s) == CHOOSE p \in payments : p.id = request[s].transfer

\* The unique index on the transfer decides between two intents it could settle.
InsertSettlement(s) ==
  LET p == Payment(s) IN
  /\ Ready(s, "link")
  /\ IF \E n \in settlements : n.transfer = p.id
       THEN EndUnchanged(s, "rejected")
       ELSE /\ writes' = [writes EXCEPT ![s].in.settlements =
                 {[id |-> request[s].key, cycle |-> Cycle(s), transfer |-> p.id, amount |-> p.amount]}]
            /\ Goto(s, "link_cycle")
            /\ UNCHANGED <<committed, locks, request, seen>>

CheckForeignKey(s) ==
  /\ Ready(s, "link_cycle")
  /\ Share(s, CycleRow(Cycle(s)))
  /\ Goto(s, "flow")
  /\ UNCHANGED <<committed, exclusive, request, seen, writes>>

SettleFlow(s) ==
  LET p == Payment(s)
      i == intents[Cycle(s)]
      left == Remaining(Cycle(s)) - p.amount
  IN
  /\ Ready(s, "flow")
  /\ IF left = 0
       THEN IntentWrites(s, {[i EXCEPT !.status = "settled", !.version = @ + 1]},
                         ScheduledFlows(Cycle(s)), FlowsEnded(Cycle(s), "settled", p.id))
       ELSE /\ FlowIdFree(Cycle(s), i.version, left)
            /\ IntentWrites(s, {}, ScheduledFlows(Cycle(s)),
                 FlowsEnded(Cycle(s), "cancelled", NoKey)
                   \cup {Flow(Cycle(s), i.version, left, i.planned)})
  /\ Goto(s, "commit")
  /\ UNCHANGED <<committed, locks, request, seen>>

-----------------------------------------------------------------------------
(* Specification *)

SessionsInit ==
  /\ Init
  /\ exclusive = [s \in Sessions |-> {}]
  /\ shared = [s \in Sessions |-> {}]
  /\ pc = [s \in Sessions |-> "idle"]
  /\ request \in Workloads
  /\ seen = [s \in Sessions |-> {}]
  /\ writes = [s \in Sessions |-> NoWrites]

\* The detector ends one of the transactions of a wait cycle (SQLSTATE 40P01).
BreakDeadlock(s) == InDeadlock(s) /\ EndUnchanged(s, "failed")

Progress(s) ==
  \/ ClaimMutation(s) \/ LockIntent(s) \/ Commit(s)
  \/ LockAccount(s) \/ LockCycle(s) \/ InsertStatement(s) \/ ReviewIntent(s)
  \/ ReadStatement(s) \/ Validate(s) \/ InsertIntent(s) \/ ReplaceVersion(s)
  \/ Cancel(s)
  \/ CheckSettlement(s) \/ InsertSettlement(s) \/ CheckForeignKey(s) \/ SettleFlow(s)
  \/ BreakDeadlock(s)

\* The connection breaks or the process dies.
Fail(s) == pc[s] \notin Ended \cup {"idle"} /\ EndUnchanged(s, "failed")

LedgerPosts ==
  /\ \E transfer \in Transfers, card \in Cards, amount \in Amounts :
       PostTransfer(transfer, card, amount)
  /\ UNCHANGED <<locks, pc, request, seen, writes>>

\* The ledger archives the card under its FOR UPDATE lock.
LedgerArchives ==
  /\ \E card \in Cards :
       /\ ArchiveAccount(card)
       /\ \A s \in Sessions : AccountRow(card) \notin exclusive[s] \cup shared[s]
  /\ UNCHANGED <<locks, pc, request, seen, writes>>

AllServed == (\A s \in Sessions : pc[s] \in Ended) /\ UNCHANGED sessionVars

SessionsNext ==
  \/ \E s \in Sessions : Begin(s)
  \/ \E s \in Sessions : Progress(s)
  \/ \E s \in Sessions : Fail(s)
  \/ LedgerPosts
  \/ LedgerArchives
  \/ AllServed

SessionsSpec ==
  SessionsInit /\ [][SessionsNext]_sessionVars /\ \A s \in Sessions : WF_sessionVars(Progress(s))

-----------------------------------------------------------------------------
(* Properties *)

\* The commits are the atomic operations of CardPayments: no interleaving of
\* corrections, replacements, cancellations and settlements loses one of them,
\* settles a plan twice or leaves a plan a correction should have sent to review.
ImplementsCardPayments == Init /\ [][Next]_vars

\* Every request that began is answered or fails: what waits for a row gets it
\* or is the victim of a deadlock.
EverySessionEnds == \A s \in Sessions : pc[s] # "idle" ~> pc[s] \in Ended

\* A plan is refused for want of a statement only if its cycle had none
\* (card_repository_test.go:376, :395: a correction and a replacement serialize,
\* and the replacement succeeds or is an invalid payment intent).
RefusalsAreAboutTheStatement ==
  \A s \in Sessions : pc[s] = "no_statement" => seen[s] = {}

=============================================================================
