------------------------- MODULE ProjectionSessions -------------------------
(***************************************************************************)
(* The projection's transactions beside those that change what it reads:   *)
(* internal/postgres/projection_repository.go.  ReplacePolicy locks its    *)
(* owner's row, then shares the accounts it names, at READ COMMITTED; the  *)
(* projection reads the policy, the accounts and the future rows one after *)
(* another at REPEATABLE READ.  The ledger archives accounts and posts to  *)
(* them (an account's row, then the owner's for the foreign key of the     *)
(* claimed key); the schedule cancels flows (a flow's row, then the        *)
(* owner's likewise).  Replays of a claimed key are in LedgerSessions and  *)
(* ScheduleSessions: here every change is asked for under a key of its own.*)
(*                                                                         *)
(* A session serves one request; a retry is another session with the same  *)
(* request.                                                                *)
(***************************************************************************)
EXTENDS Projection

CONSTANTS
  Sessions,     \* requests being served
  Cases,        \* what the tables hold and what clients ask for: records [tables, request]
  Today,        \* dates that a clock may show
  NoRequest,    \* nobody asks
  NoAnswer      \* nothing was answered

\* What a client may ask for; a field that an operation does not read is any value.
RequestRow == [operation : {"replace_policy", "archive", "post", "cancel_flow", "baseline", "safe_to_spend"},
               account : Nat, flow : Nat, amount : Int, asOf : Today, configuration : Configuration]

ASSUME TodayAssumption == Today \subseteq Dates

ASSUME SessionAssumption == IsFiniteSet(Sessions)

ASSUME CaseAssumption ==
  \A c \in Cases : IsTables(c.tables) /\ c.request \in [Sessions -> RequestRow \cup {NoRequest}]

ASSUME NobodyAssumption == NoRequest \notin RequestRow

VARIABLES
  tables,       \* committed rows
  exclusive,    \* rows a session holds FOR UPDATE
  shared,       \* rows a session holds FOR SHARE or FOR KEY SHARE
  pc,           \* the statement a session runs next, or how it ended
  request,      \* what the client of a session asks for
  moment,       \* time the service read for a session
  snapshot,     \* what was committed when a reader ran its first query
  rows,         \* what a reader has read
  answer        \* what a session was told

locks == <<exclusive, shared>>
reading == <<snapshot, rows>>
vars == <<tables, locks, pc, request, moment, reading, answer>>

-----------------------------------------------------------------------------
(* Requests and locks *)

Ended == {"done", "rejected", "failed"}

Reads == {"baseline", "safe_to_spend"}

IsRead(s) == request[s] # NoRequest /\ request[s].operation \in Reads

OwnerRow == <<"owner">>
AccountOf(a) == <<"account", a>>
FlowOf(id) == <<"flow", id>>

\* Accounts that a policy names, which exist, and which are not locked yet.
Unchecked(s) ==
  {a \in request[s].configuration.ids : a \in DOMAIN tables.accounts /\ AccountOf(a) \notin shared[s]}

ExclusiveBlockers(s, row) == {o \in Sessions \ {s} : row \in exclusive[o] \cup shared[o]}
ShareBlockers(s, row) == {o \in Sessions \ {s} : row \in exclusive[o]}

WaitsFor(s) ==
  CASE pc[s] = "owner"    -> ExclusiveBlockers(s, OwnerRow)
    [] pc[s] = "accounts" -> IF Unchecked(s) = {} THEN {} ELSE ShareBlockers(s, AccountOf(Min(Unchecked(s))))
    [] pc[s] = "account"  -> ExclusiveBlockers(s, AccountOf(request[s].account))
    [] pc[s] = "flow"     -> ExclusiveBlockers(s, FlowOf(request[s].flow))
    [] pc[s] = "claim"    -> ShareBlockers(s, OwnerRow)
    [] OTHER              -> {}

\* s is one of some sessions that wait only for one another.
InDeadlock(s) ==
  /\ WaitsFor(s) # {}
  /\ \E waiting \in SUBSET {o \in Sessions : WaitsFor(o) # {}} :
       s \in waiting /\ \A o \in waiting : WaitsFor(o) \cap waiting # {}

Ready(s, statement) == pc[s] = statement /\ WaitsFor(s) = {}

Goto(s, statement) == pc' = [pc EXCEPT ![s] = statement]

Take(s, row) == exclusive' = [exclusive EXCEPT ![s] = @ \cup {row}] /\ UNCHANGED shared

Share(s, row) == shared' = [shared EXCEPT ![s] = @ \cup {row}] /\ UNCHANGED exclusive

End(s, outcome) ==
  /\ Goto(s, outcome)
  /\ exclusive' = [exclusive EXCEPT ![s] = {}]
  /\ shared' = [shared EXCEPT ![s] = {}]
  /\ UNCHANGED <<request, moment, reading>>

\* Mutant: an early return leaves its transaction open.
RejectWithoutRollback(s) == Goto(s, "rejected") /\ UNCHANGED <<tables, locks, request, moment, reading, answer>>

Reject(s) == End(s, "rejected") /\ UNCHANGED <<tables, answer>>

Done(s, told) == End(s, "done") /\ answer' = [answer EXCEPT ![s] = told]

\* The service reads its clock before the repository begins.
Begin(s) ==
  /\ pc[s] = "idle"
  /\ moment' = [moment EXCEPT ![s] = Max({moment[o] : o \in Sessions}) + 1]
  /\ Goto(s, CASE request[s].operation = "replace_policy"     -> "owner"
               [] request[s].operation \in {"archive", "post"} -> "account"
               [] request[s].operation = "cancel_flow"        -> "flow"
               [] OTHER                                       -> "policy")
  /\ UNCHANGED <<tables, locks, request, reading, answer>>

-----------------------------------------------------------------------------
(* Replacement of the policy *)

\* Mutant: the owner's row is read, not locked.
ReadOwner(s) ==
  /\ Ready(s, "owner")
  /\ Goto(s, "accounts")
  /\ UNCHANGED <<tables, locks, request, moment, reading, answer>>

LockOwner(s) ==
  /\ Ready(s, "owner")
  /\ Take(s, OwnerRow)
  /\ Goto(s, "accounts")
  /\ UNCHANGED <<tables, request, moment, reading, answer>>

\* The named accounts are shared in the order of their ids, each as it is when
\* its lock is granted; an unknown one is missed when all of them are.
CheckAccount(s) ==
  /\ Ready(s, "accounts")
  /\ IF Unchecked(s) # {} THEN
       IF Eligible(tables, Min(Unchecked(s)))
         THEN Share(s, AccountOf(Min(Unchecked(s)))) /\ UNCHANGED <<pc, tables, request, moment, reading, answer>>
         ELSE Reject(s)
     ELSE IF request[s].configuration.ids \subseteq DOMAIN tables.accounts
       THEN Goto(s, "compare") /\ UNCHANGED <<tables, locks, request, moment, reading, answer>>
       ELSE Reject(s)

samePolicyConfiguration(s) ==
  tables.policy # NoPolicy /\ tables.policy.configuration = request[s].configuration

\* The policy in force is the answer when it is what was asked for.
ComparePolicy(s) ==
  /\ Ready(s, "compare")
  /\ IF samePolicyConfiguration(s)
       THEN Done(s, tables.policy) /\ UNCHANGED tables
       ELSE Goto(s, "write") /\ UNCHANGED <<tables, locks, request, moment, reading, answer>>

\* A new policy, or the next version of the one that is there.
NewPolicy(s) ==
  [configuration |-> request[s].configuration, updated |-> moment[s],
   version |-> IF tables.policy = NoPolicy THEN 1 ELSE tables.policy.version + 1,
   created |-> IF tables.policy = NoPolicy THEN moment[s] ELSE tables.policy.created]

\* Mutant: the times are not compared.
WriteAnyTime(s) ==
  /\ Ready(s, "write")
  /\ tables' = [tables EXCEPT !.policy = NewPolicy(s)]
  /\ Done(s, NewPolicy(s))

\* Upsert and commit; the table checks that updated_at >= created_at.
WritePolicy(s) ==
  /\ Ready(s, "write")
  /\ IF NewPolicy(s).updated < NewPolicy(s).created THEN Reject(s)
     ELSE /\ tables' = [tables EXCEPT !.policy = NewPolicy(s)]
          /\ Done(s, NewPolicy(s))

-----------------------------------------------------------------------------
(* The ledger and the schedule *)

LockAccount(s) ==
  /\ Ready(s, "account")
  /\ Take(s, AccountOf(request[s].account))
  /\ Goto(s, IF request[s].operation = "archive" THEN "archive" ELSE "claim")
  /\ UNCHANGED <<tables, request, moment, reading, answer>>

IsActive(s) == tables.accounts[request[s].account].status = "active"

ArchiveAccount(s) ==
  /\ Ready(s, "archive")
  /\ IF IsActive(s)
       THEN tables' = [tables EXCEPT !.accounts[request[s].account].status = "archived"] /\ Done(s, NoAnswer)
       ELSE Reject(s)

\* The claimed key refers to the owner, whose row its insertion shares.
ClaimMutation(s) ==
  /\ Ready(s, "claim")
  /\ Share(s, OwnerRow)
  /\ Goto(s, IF request[s].operation = "post" THEN "post" ELSE "cancel")
  /\ UNCHANGED <<tables, request, moment, reading, answer>>

PostTransaction(s) ==
  /\ Ready(s, "post")
  /\ IF IsActive(s)
       THEN tables' = [tables EXCEPT !.accounts[request[s].account].balance = @ + request[s].amount] /\ Done(s, NoAnswer)
       ELSE Reject(s)

\* A flow is locked before the key of its cancellation is claimed.
LockFlow(s) ==
  /\ Ready(s, "flow")
  /\ IF \E f \in tables.flows : f.id = request[s].flow
       THEN Take(s, FlowOf(request[s].flow)) /\ Goto(s, "claim") /\ UNCHANGED <<tables, request, moment, reading, answer>>
       ELSE Reject(s)

Cancelled(f) == [f EXCEPT !.status = "cancelled"]

\* The flows with one of them cancelled.
WithCancelled(flows, id) == {IF f.id = id THEN Cancelled(f) ELSE f : f \in flows}

\* Only a scheduled flow is cancelled.
CancelFlow(s) ==
  /\ Ready(s, "cancel")
  /\ IF \E f \in tables.flows : f.id = request[s].flow /\ f.status = "scheduled"
       THEN tables' = [tables EXCEPT !.flows = WithCancelled(@, request[s].flow)] /\ Done(s, NoAnswer)
       ELSE Reject(s)

-----------------------------------------------------------------------------
(* The projection's reads *)

\* Mutant: READ COMMITTED.
Committed(s) == IF IsRead(s) THEN tables ELSE snapshot[s]

\* What a query of a reader sees: REPEATABLE READ.
Visible(s) == snapshot[s]

ReadPolicy(s) ==
  /\ Ready(s, "policy")
  /\ snapshot' = [snapshot EXCEPT ![s] = tables]
  /\ rows' = [rows EXCEPT ![s] = tables]
  /\ Goto(s, "read_accounts")
  /\ UNCHANGED <<tables, locks, request, moment, answer>>

ReadAccounts(s) ==
  /\ Ready(s, "read_accounts")
  /\ rows' = [rows EXCEPT ![s].accounts = Visible(s).accounts]
  /\ Goto(s, "read_future")
  /\ UNCHANGED <<tables, locks, request, moment, snapshot, answer>>

\* Obligations, flows, receivables, payment issues.
ReadFuture(s) ==
  /\ Ready(s, "read_future")
  /\ rows' = [rows EXCEPT ![s] = [Visible(s) EXCEPT !.policy = rows[s].policy, !.accounts = rows[s].accounts]]
  /\ Goto(s, "calculate")
  /\ UNCHANGED <<tables, locks, request, moment, snapshot, answer>>

Answer(s, t) ==
  IF request[s].operation = "baseline" THEN Baseline(t, request[s].asOf)
  ELSE SafeToSpend(t, Baseline(t, request[s].asOf), request[s].account)

Calculated(s) ==
  /\ Ready(s, "calculate")
  /\ Done(s, Answer(s, rows[s]))
  /\ UNCHANGED tables

-----------------------------------------------------------------------------
(* Specification *)

Init ==
  /\ \E c \in Cases : tables = c.tables /\ request = c.request
  /\ exclusive = [s \in Sessions |-> {}]
  /\ shared = [s \in Sessions |-> {}]
  /\ pc = [s \in Sessions |-> IF request[s] = NoRequest THEN "done" ELSE "idle"]
  /\ moment = [s \in Sessions |-> 0]
  /\ snapshot = [s \in Sessions |-> NoAnswer]
  /\ rows = [s \in Sessions |-> NoAnswer]
  /\ answer = [s \in Sessions |-> NoAnswer]

\* The deadlock detector ends one of the sessions that wait for one another.
BreakDeadlock(s) == InDeadlock(s) /\ End(s, "failed") /\ UNCHANGED <<tables, answer>>

Progress(s) ==
  \/ LockOwner(s) \/ CheckAccount(s) \/ ComparePolicy(s) \/ WritePolicy(s)
  \/ LockAccount(s) \/ ArchiveAccount(s) \/ ClaimMutation(s) \/ PostTransaction(s)
  \/ LockFlow(s) \/ CancelFlow(s)
  \/ ReadPolicy(s) \/ ReadAccounts(s) \/ ReadFuture(s) \/ Calculated(s)
  \/ BreakDeadlock(s)

\* The connection breaks or the process dies.
Fail(s) ==
  /\ pc[s] \notin Ended \cup {"idle"}
  /\ End(s, "failed")
  /\ UNCHANGED <<tables, answer>>

AllServed == (\A s \in Sessions : pc[s] \in Ended) /\ UNCHANGED vars

Next ==
  \/ \E s \in Sessions : Begin(s)
  \/ \E s \in Sessions : Progress(s)
  \/ \E s \in Sessions : Fail(s)
  \/ AllServed

\* PostgreSQL runs a statement that can run, grants a lock that is free, and
\* ends a deadlock.
Spec == Init /\ [][Next]_vars /\ \A s \in Sessions : WF_vars(Progress(s))

-----------------------------------------------------------------------------
(* Properties *)

\* Rows have their tables' types, and no row that is locked for update is
\* locked by another session.
TablesTypeOK ==
  /\ IsTables(tables)
  /\ \A s \in Sessions : \A row \in exclusive[s] : ExclusiveBlockers(s, row) = {}

\* Between any two dates an obligation expands to every due date once, and
\* fails only past the last date or over the limit (recurrence.go:32,
\* README.md:191).
ExpansionsAreExact ==
  \A o \in tables.obligations : \A from \in Dates : \A to \in from..LastDate : ExpandsExactly(o, from, to)

\* What is safe to spend is the greatest amount that the account holds and that
\* leaves every balance on the way at the reserve or above it, outflows of a
\* day first; its status names what limits it, and the days of the lowest
\* balance and of the first breach (docs/architecture/financial-domain.md:154,
\* docs/adr/0001-financial-core-invariants.md:96).
SafeToSpendIsExact ==
  \A asOf \in Today :
    LET b == Baseline(tables, asOf) IN
    \A a \in DOMAIN tables.accounts :
      LET s == SafeToSpend(tables, b, a) IN
      s.error = "none" =>
        IF IsLiquid(tables.accounts[a]) /\ tables.issues = {}
          THEN SpendableIs(b, tables.accounts[a], s.amount) /\ StatusIs(b, tables.accounts[a], s)
          ELSE s.amount = 0

\* A projection counts every row that it should once: what is owed always, an
\* inflow when the policy relies on it, neither undated nor uncertain ones nor
\* what is collected; the others it reports, and no row makes it fail
\* (docs/adr/0001-financial-core-invariants.md:87-93).
EveryRowIsCountedOnce ==
  \A asOf \in Today :
    LET b == Baseline(tables, asOf) IN
    /\ b.error # "invalid_event"
    /\ b.error = "none" => CountedOnce(tables, b) /\ ExplainedOnce(tables, b)

\* An answer is that of the moment at which its first query ran, though its
\* rows were read by several queries and other transactions committed between
\* them: no balance of one moment meets a policy or flows of another.
AnswersAreOfOneMoment ==
  \A s \in Sessions : IsRead(s) /\ pc[s] = "done" => answer[s] = Answer(s, snapshot[s])

\* A policy changes by one version, to another configuration, and only while
\* every account that it names is active: no archival comes between the check
\* and the commit, and a retry of the same request changes nothing.
PolicyChangesAreSound ==
  [][tables'.policy # tables.policy =>
       LET new == tables'.policy IN
       /\ \A a \in new.configuration.ids : Eligible(tables, a)
       /\ IF tables.policy = NoPolicy THEN new.version = 1
          ELSE /\ new.version = tables.policy.version + 1
               /\ new.configuration # tables.policy.configuration
               /\ new.created = tables.policy.created]_vars

\* Every request that began is answered, refused or fails, though replacing a
\* policy and posting to an account that it names can wait for each other.
EverySessionEnds == <>[](\A s \in Sessions : pc[s] \in Ended \cup {"idle"})

=============================================================================
