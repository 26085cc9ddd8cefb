# Runway: a TLA+ model of its financial core

Runway is a single-owner personal-finance server (Go, PostgreSQL) with a web
client. Its promise is bookkeeping that stays right: a request repeated after a
lost answer posts once, balances can be reconstructed, a planned card payment is
counted once, what is safe to spend is never overstated. Most of that rests on
how repository code orders its SQL statements, row locks and commits, and on
what the schema's triggers refuse, which tests reach only for the few
interleavings somebody wrote down. These modules model that code, TLC checks
small instances of them, and TLAPS proves for all instances the invariants of the
ledger, of card payments, of installments, of the schedule and of the client's
keys, sums of money among them; that the interleaved transactions of the first
four implement their atomic operations, and the card as a whole its parts; and
that a projection expands every obligation exactly, counts every row once and is
exact about what is safe to spend.

Line numbers refer to `src/`; `be/` stands for `src/backend/`.

## 1. The system

| Component | Code | State | Operations |
|---|---|---|---|
| Ledger | `be/internal/ledger`, `be/internal/postgres/ledger_repository.go`, `be/internal/domain/{ledger,account,money}`, migrations 0002, 0003 | accounts, financial_transactions (append-only, numbered by an identity column), linked_transfers, balance_snapshots, financial_mutations (claimed idempotency keys) | create and archive an account, post a transaction, transfer, observe a balance (snapshot), reconstruct the current balance |
| Card payments | `be/internal/card`, `card_repository.go`, `be/internal/domain/card/card.go`, migrations 0008-0010, 0013-0015 | statement cycles, revisions of a statement, one payment intent per cycle, the scheduled cash flow of what is left to pay, settlements | register or correct a statement, plan, replace or cancel a payment, link a posted transfer to it |
| Installments | `installment_repository.go`, `be/internal/domain/card/installment.go`, migrations 0011, 0012 | plans, allocations of principal to cycles, principal payments | create a plan, take up its allocations when their statement is registered, record a principal payment, summarize |
| Schedule | `be/internal/schedule`, `schedule_repository.go`, `be/internal/domain/schedule`, migrations 0004, 0005, 0007 | obligations (recurring), manual cash flows, receivables and their collections | create, archive, cancel, collect |
| Projection | `be/internal/projection`, `be/internal/domain/projection`, `projection_repository.go`, migration 0006 | policy versions; reads everything else in one REPEATABLE READ transaction | replace the policy, project daily balances, safe to spend |
| Authentication | `be/internal/auth`, `auth_repository.go`, migration 0001 | owner, sessions | log in, resolve, log out |
| HTTP layer | `be/internal/httpapi` | none | parse, authorize, map errors |
| Web client | `src/frontend/app`, mostly `hooks/use-idempotent-mutation.ts`, `page.tsx` and `lib/api.ts` | who is signed in, which view is mounted, one idempotency key per unfinished submission of a mounted form | submit, retry, switch views, log in and out, reload |

How they interact. Every mutation is one HTTP request served by its own
goroutine and its own database transaction; all shared state is in PostgreSQL.
Components meet in the tables: a card settlement links a row of
linked_transfers that the ledger posted; a correction of a statement changes
the intent, its cash flow and the installment allocations of its cycle; a
collection of a receivable may name a transaction of the ledger; the
projection reads all of it. There are no background jobs and no messages. What
is hard is therefore concurrency and failure at the granularity of SQL
statements: rows read before a lock and used after it, lock orders, unique-key
insertion that waits, the visibility of committed rows, a connection that breaks
anywhere before the commit, retries that overlap their first attempt, and
deferred triggers that refuse a commit. On the other side of the network the
client alone knows which requests belong together: it makes a key, keeps it
for a retry, and forgets it.

What makes each component correct: for the **ledger**, one post per key, transfers
with exactly two legs, snapshots whose cutoffs split an account's history so
that each transaction contributes exactly once, balances that stay readable,
archived accounts that stay frozen. For **card payments**, one chain of statement
revisions, an active plan that fits the statement in force, a scheduled flow that
is exactly the unpaid rest of an active plan, settlements that are posted
transfers counted once. For **installments**, principal that is conserved over
allocation, payment and correction. For the **schedule**, a receivable's
outstanding amount equal to what was expected minus what was collected, and
recurrence that neither skips nor repeats a month. For the **projection**, a safe
amount that really is safe on every projected day, computed from rows of one
moment, each counted once. For **authentication**, sessions that end when they
should. For the **web client**, one key for one movement until its outcome is known.

The hazards, each at its line with the properties that cover it, are listed in
`PROJECT.json`.

## 2. Modules

Each component has an *abstract* module whose actions are whole repository calls,
one atomic step each, and, where concurrency matters, a *sessions* module in which
each call is a sequence of SQL statements that interleave with those of other
calls. The sessions module EXTENDS the abstract one (`InstallmentSessions` INSTANCEs it): the committed rows are
the abstract module's variables, and "what the sessions commit is what the abstract module allows" is a
property that TLC checks and a theorem: the refinement mapping is the identity on the tables
and forgets locks, program counters and uncommitted rows.

| Module | Models |
|---|---|
| `Ledger` | the tables of one owner's ledger and the four operations that change them |
| `LedgerSessions` | the same operations as transactions: account rows locked FOR UPDATE in id order, the claim of the key, the checks, identity numbers, inserts, commit or rollback; balance reads at REPEATABLE READ |
| `CardPayments` | statements, intents, flows, settlements; the checks of the repository and the deferred triggers |
| `CardSessions` | the same operations statement by statement, with exclusive and shared row locks, PostgreSQL's re-evaluation of a row that changed under a wait, and its deadlock detector |
| `InstallmentTerms` | how a principal is divided among months, shared by the next two |
| `Installments` | plans, their allocations to cycles, principal payments; the statements of cycles only as far as allocations see them |
| `InstallmentSessions` | the same operations statement by statement, the UPDATE of a statement's allocations row by row, and the summary's two queries |
| `CardCycle` | a card as a whole: `CardPayments` and `Installments` joined in `RegisterStatement` |
| `CardProjection` | what a projection makes of the card's rows: issues and counted flows |
| `ScheduleRows` | the row types that the next two share |
| `Schedule` | obligations, manual flows, receivables, collections and their links to the ledger |
| `ScheduleSessions` | the same operations statement by statement, with the service's clock |
| `Recurrence` | calendar dates and the expansion of an obligation, beside what the expansion should be |
| `Projection` | from rows to events, balances and what is safe to spend, beside what these should be |
| `ProjectionSessions` | replacements of the policy and the projection's reads among the transactions that change what is read |
| `Client` | a browser with its forms, an unreliable network, and sessions of the server |
| `SumTheorems` | facts about the sum over a finite set |
| `LedgerProofs`, `CardProofs`, `InstallmentsProofs`, `ScheduleProofs` | the inductive invariants of each abstract module and the theorems; all but `InstallmentsProofs` also those of its sessions module; `CardProofs` also that `CardCycle` implements `CardPayments` and `Installments`, and what follows for it |
| `InstallmentSessionsProofs` | that `InstallmentSessions` implements `Installments`, and that its sessions never wait in a circle |
| `ProjectionProofs` | that expansions, balances and what is safe to spend are what they should be; that answers are of one moment and policy changes sound |
| `ClientProofs` | that the client's keys keep a movement from being posted twice, and that sessions end |
| `MC...` | instances for TLC |

### Ledger

A table is a set of rows; a request that is refused or replayed changes nothing
and is a stuttering step. `PostManualTransaction`, `CreateSnapshot`,
`CreateTransfer` and `ArchiveAccount` carry the guards in the order of the code:
what the service refuses, the claim of the key (`Unclaimed`), the status, the
balance with the new entry (`ValidProspectiveEffect`) or the cutoff. Identity columns
are modelled by what may be assumed of them: a number is used once, and numbers
of one account come in order (`NextSequences`) because they are drawn under that account's row lock.
`LedgerSessions` has the real counter and must justify that assumption. Overflow
of int64 is a bound on balances, checked after every applied transaction as
`ReconstructBalance` does.

Left out: memos, dates and timestamps (no condition of the ledger reads them),
currencies (only MXN exists), owners (every query is by owner; one is modelled).
`CreateAccount` inserts one row whose fresh id nobody else can know; accounts
exist from `Init` on.

### LedgerSessions

What clients ask for is chosen in `Init` (`Workloads`, a set of functions from
sessions to requests); `Begin` starts a session at any time, `LockAccount` locks the next row, `ClaimMutation`
inserts the key (waiting for a session that has inserted the same one, replaying
or refusing if it is committed), `Check` evaluates the conditions on committed
rows, `InsertManual`, `InsertSnapshot`, `InsertLink` and `InsertLeg` write, `Commit`
publishes. `Fail` may end a session anywhere, rolling it back. A retry is another session
with the same request, so it may overlap the first attempt or follow its
failure. `ReconstructBalance` is the loop over the transactions in sequence order, each applied to
what those before it made of the opening balance, where `Ledger` speaks of sums. `ReadSnapshot` and `ReadTransactions` are the two reads of
`loadBalanceStateInTransaction` in the REPEATABLE READ transaction of
`LoadBalanceState`.

### CardPayments

`PostTransfer` and `ArchiveAccount` are the ledger's steps that matter to a
card. `RegisterStatement` supersedes the active statement, inserts the new
revision and sends an outgrown plan to review, cancelling its flow, in one step. `ReplaceIntent`
relies on the deferred trigger of migration 0015 to refuse some plans, so the
trigger (`LifecycleConsistent`) is one of its guards, on the new state. The other operations are
not guarded by the trigger: that they never need it is the invariant
`PlansReconcileWithPayments`. A row inserted under an idempotency key is named by
that key. The allocations that `RegisterStatement` marks are in `Installments`; `CardCycle` puts the two halves of that operation together.

`CardProjection` EXTENDS it with `loadCardPaymentIssues`: for every day of a projection and
every last day, the issue of a cycle (`PaymentIssue`) and the flows that are counted
(`CountedFlows`). The rows are those that `CardPayments` reaches, not a choice of
the model's, which is the point: no sequence of plans, corrections and payments
hides a payment from the projection or shows it twice.

### CardSessions

What is committed are the variables of `CardPayments`; `LedgerPosts` and
`LedgerArchives` are the ledger's steps beside the sessions, the latter under
the account's lock. Rows that sessions wait for are account, cycle and intent rows; statement rows
are locked only under their cycle's lock and flow rows only under their
intent's. Foreign-key checks take shared locks: that of a first intent on the
account row and that of a settlement on the cycle row are what closes lock
cycles. `LockCycle` models what READ COMMITTED does with `ReplaceIntent`'s
locking join: the rows it found are looked at again after the wait and drop out
if they no longer qualify. `BreakDeadlock` is PostgreSQL's detector: any member
of a wait cycle may be its victim.

### Installments, InstallmentSessions and CardCycle

A cycle is named by its card and its month, because a plan's allocations go to
consecutive months; a cycle is *billed* once it has an active statement, which it
then keeps through corrections. `CreateInstallmentPlan` divides the purchase
(`InstallmentPrincipal`, the remainder to the first installments) and gives each
allocation the status that its cycle calls for (`InitialStatus`).
`RegisterStatement` is the part of that call which takes up pending allocations.
`RecordPrincipalPayment` marks the allocation paid and the plan completed when
nothing is left of them.

The sessions have two lock orders: plans and statements lock the account, then
statements reach allocations; payments lock allocation, then plan, then claim
their key. `FindAllocations` and `TakeUp` are the UPDATE of a statement: the rows
its snapshot shows, in any order, each waited for and looked at again. A
summary reads the plan, and in another query what was paid of it.

`CardCycle` EXTENDS `CardPayments` and INSTANCEs `Installments` with `billed`
defined as "has an active statement", so that `I!Spec`'s next-state relation is
checked against statements that are corrected, sent by two authorities and superseded.
It also carries the invariants of `Installments`, which has no run of its own.

### Schedule and ScheduleSessions

Obligations and manual flows are created and ended once; a receivable is
collected in parts. `RecordReceivableCollection` changes the receivable and inserts the
collection with what was collected before it, under the trigger's comparison
with the linked transaction (`Compatible`) and the unique index on links
(`Unlinked`). In `ScheduleSessions` a creation claims its key first and a change
locks its row first; the insertion of a collection waits for an uncommitted one with the same
link. `moment` is the time the service read before the transaction began, `updated`
the time stored in the row; `Fresh` is the domain's comparison of the two. Successive requests
read later times; equal times are not modelled, nor a clock set back. A creation's replay answers the
original row (`OriginalResult`), a change's replay the row as it is.

Left out: names, dates, certainty and provenance (payload; the projection reads
them), settled flows (nothing in `src/` settles a manual flow), and flows of
cards, which belong to `CardPayments`.

### Recurrence and Projection

Both modules are operators, since the code keeps no state between a read and an answer.
Each has two halves: the code, in the order in which it takes its decisions,
and what the code should compute, said without its loops.

In `Recurrence` a date is a day number and a calendar the sequence of its months' last days;
the last day of all stands for 9999-12-31. `occurrenceDates` is the loop over candidates, said
without recursion: `LeavesAt` are the conditions under which the loop ends at its k-th candidate, in
the code's order, `Steps` the first candidate at which one of them holds, and `Found` what was
collected by then; an expansion is refused when that candidate is no date or one occurrence too many. `DueDates`
is the set of days of the month or week grid that
are within range, end and archival. `ExpandsExactly` compares them for every range.

In `Projection` the rows are one record of tables, typed by `IsTables`: columns, foreign keys and the CHECKs that
arithmetic relies on; `CaseAssumption` asks the same of the tables that a behaviour starts from. `Events` and `Exclusions` follow
`AssembleAndCalculate`; `Precedes` is the engine's sort order; `Calculate` has the
balance after each event (the opening balance and the sum over `UpTo`), the lowest one and the event that reaches it first; `Baseline` and
`SafeToSpend` put them together with the errors in the order the code finds them. The other half knows
nothing of that order: `Lowest` is the opening balance with the inflows of earlier days and
the outflows of earlier days and today, `SpendableIs` tries every amount, `CountedOnce`
compares what each day ends with to the rows themselves.

Left out: all but one currency and one time zone (a request carries its own day),
names and labels, ties between equal ids, and rows of another owner.

### ProjectionSessions

`ReplacePolicy` locks the owner's row (`LockOwner`), shares the named accounts in id order
(`CheckAccount`), compares (`ComparePolicy`) and writes the next version (`WritePolicy`, with the
CHECK on its times). Beside it run an archival, a posting, whose claim shares the
owner's row through its foreign key (`ClaimMutation`), and a cancellation of a flow: it locks the flow's
row (`LockFlow`), claims its key as a posting does, so that it too can wait for a replacement, and cancels the flow if it
is still scheduled (`CancelFlow`). Replays of keys are left to `LedgerSessions` and `ScheduleSessions`. A reader's
first query fixes its snapshot (`ReadPolicy`), two more fill in the accounts and
the future rows, and `Calculated` answers from what was read. `BreakDeadlock` is needed here:
a posting holds an account and waits for the owner's row, a replacement holds that row and waits for the
account.

### Client

A form is a movement or transfer form of `accounts.tsx` and stands for one movement its user wants posted once. `Submit` makes a key,
`Retry` sends the one that is kept; `Deliver` and `Disconnect` settle a fetch
as the hook does: the key is kept after a network error and dropped after any answer that
is an error. `SwitchView`, a success elsewhere (`Succeed` reloads the accounts) and `Reload`
unmount the forms, whose fetches go on. The network may lose a request, lose an answer, or
deliver a request after its fetch was given up. `Authorize`, `Serve`, `ServeLogout`,
`Login` and `Expire` are the server: a request is authenticated when it arrives and served
later; a row is claimed and inserted in one step, since `LedgerSessions` has
the detail. `ReadRefused` stands for the page's own reads that find the session over.

Left out: what forms contain, the list of accounts, failed logins, a cookie
that the browser drops at its expiry, which is refused like one it keeps, and the three forms of
`credit-card.tsx` (statement, settlement, installment plan), which use the hook but retry in another way (section 5).

## 3. Runs

| Run | Instance | Shows |
|---|---|---|
| `ledger` | bank + card, 2 keys per operation, 4 ids, amounts {1,2}, balances in -2..3 | row types, one post per key, complete transfers, cutoffs that split the ledger; nothing posted under a cutoff, balances that only snapshots break, frozen accounts |
| `ledger_readable` | same | **violation**: a snapshot makes a card unreadable (section 5) |
| `ledger_sessions` | 3 sessions, each with a request of one of three menus: retries, shared keys, double payment, archival and snapshot on bank + card; transfers both ways between three accounts; balance reads beside postings and snapshots | refinement of `Ledger`; answers of retries agree; reads are current; every request ends, so that nobody waits in a circle |
| `card_payments` | 2 cycles of one card, 2 keys, 2 transfers that may go to another card, balances {0,2}, amounts {1,2}, 2 dates, 2 versions; every day and last day of a projection in 0..3 | statements form a chain that plans follow; plans, flows, settlements and payments reconcile; no card payment is overlooked or counted twice by a projection; history is kept |
| `card_sessions` | 4 sessions: the first statement of a cycle and three of a correction, two plans, a settlement, a cancellation; retries | refinement of `CardPayments`; every request ends, through the deadlock detector if need be |
| `card_race` | as `card_sessions` | **violation**: a refusal that is not about the statement (section 5) |
| `installment_sessions` | 4 sessions: a plan and three of another plan of the purchase, payments of both installments, a statement; two plans with shared cycles; retries | refinement of `Installments`; no wait cycle |
| `installment_summary` | same | **violation**: a summary of two states (section 5) |
| `card_cycle` | one card, 2 months, 2 keys, two purchases of 2 or 3 in up to 2 installments, 1 transfer | a `CardPayments` card drives `Installments` as that module assumes; principal is conserved; allocations reconcile with plans and statements; schedules are history |
| `schedule_sessions` | 4 sessions: a receivable of 2 and three of two partial collections, a full one, a cancellation; two receivables that compete for a transaction or a key; obligations and flows ended twice; retries | refinement of `Schedule`; collections reconcile, links among them; history is kept and ordered in time; answers of retries agree; every request ends |
| `projection` | two liquid accounts and a card, months ending on days 4, 6 and 10, a week of 2 days, a limit of 3 occurrences, a horizon of 3 days, amounts up to 8; every kind of obligation, small sets of flows, balances at the limit, rows of every kind under both inflow policies; up to 4 sessions that replace (and retry), archive, post, cancel and read | expansions are exact; safe to spend is exact; every row is counted once; answers are of one moment; policy changes are sound; every request ends |
| `client` | 2 forms, 2 cookies, 2 keys per form, 2 attempts per key, 2 requests under way | a movement is posted under a second key only after its form gave up the first; no request is authenticated after its session's end |

Why the bounds are enough to be interesting. Two accounts of the two kinds, two
amounts and room for four transactions contain every pair of operations on one
account and on both, a snapshot between transactions, and balances that hit zero and the
upper bound. Two keys per operation allow a replay, a reuse and a fresh request. Three sessions
contain every pairwise race plus a third that fails or waits; a cycle of waits between
transfers needs two accounts locked both ways, and a third account is there to
lengthen it. For cards, two cycles are needed only to let two intents compete for
one transfer; four sessions are needed for a statement, a plan, a settlement and
a correction to cross, for a plan, its two last payments and a statement, and for a
receivable, two collections and a cancellation. A balance of 0 is the statement that cannot be
planned, one of 2 the least that can be paid in parts. Principals of 2 and 3 over two installments
leave a remainder and leave none. The calendar has a short month between two longer ones, so that a
day is clamped and comes back, and ends, so that an expansion may run off it; expansions of four
dates meet the limit of three. Three flows on two days are the least for which the order within a
day, and a tie of the lowest balance, matter. Two forms are needed for the success of one to
unmount the other, two cookies for an answer to the older session to reach the newer.

Versions, identity numbers, keys and requests are bounded by `MaxVersion`, `MaxSequence`,
`MaxOrder`, `LastMonth`, `Keys`, `MaxKeys`, `MaxAttempts` and `MaxUnderWay`: a guard stops
the growth, so runs on the abstract modules may stop, and so may a browser whose keys are used up
(CHECK_DEADLOCK FALSE), while in the
sessions modules deadlock is checked: only a state in which every session has
ended may repeat itself (`AllServed`). Sessions are alike, so a workload lists its
requests in one order; the order in which they begin is free, and a session that never begins
makes every smaller workload part of a larger one. The abstract `Schedule` has no run of its own: its
properties are checked on the sessions, whose commits are its steps.

Every property is also checked to notice a plausible bug: the modules carry
small *mutants* next to the definitions they alter (a lock on one account only,
a claim that is not looked for, a flow that stays scheduled...), listed in `PROJECT.json`
with the property each must break.

### Fairness

Safety needs none. `InstallmentSessions`, of which only safety is checked (`NoWaitCycle` and
the absence of deadlock say that somebody can always move), states none, and neither
does `Client`: nothing makes a user retry or a network deliver. `EverySessionEnds` of the
other four sessions modules assumes weak fairness of each session's
`Progress`: the server's goroutine issues its next statement and PostgreSQL
executes a statement whose locks are free. Weak fairness suffices because in
these instances a lock that is waited for is released and then contended for a bounded number of times:
requests are finite in number. It is not assumed that requests begin,
that they fail, or that transfers are posted. `ScheduleSessions` and `ProjectionSessions` say the same as
"eventually no session is under way, for ever",
which is equivalent since a session begins once, and cheaper to check. In `CardSessions` and
`ProjectionSessions` the victim's
rollback belongs to progress, since PostgreSQL's detector always resolves a
deadlock after `deadlock_timeout`.

## 4. Proofs

Each proof module proves its theorems for every set of accounts, cards, keys,
ids, sessions and amounts and every bound, from the modules' named ASSUMEs. All have the
same shape: `IInv` is a conjunction of named parts, one of them the types; one
lemma per operation shows that it preserves them, with one step per part;
`InitIInv` and `NextPreservesIInv` collect the lemmas, and each theorem follows
by temporal logic. The parts that no property states are there because a row
can only be known to be new if every row has its claim. What is about money has
an invariant of its own on top of the first (`MoneyInv`, `SumInv`).

`SumTheorems` is what the others need about `SumFunction` of the community modules: the sum over a
finite set grows by the value of an added element (`SumWith`), loses that of a removed one, changes by the
difference when one value changes (`SumChanged`), is an integer, not negative when its terms are not
(`SumOfNaturals`), and does not depend on how rows are named (`SumOfImage`, `SumEmbedded`). For the projection it adds
the sum over a union of disjoint sets (`SumOfUnion`), over a family of them (`SumOfParts`), of the
negated and of a constant term (`SumNegated`, `SumOfConstant`), and that a finite set of numbers has a greatest (`GreatestNumber`). `SumFunction` is a fold, a
function chosen by a recursive equation, and the library's induction theorems cannot be used; so
`SumExists` shows that the equation has a solution, and `SumEquation` that the fold is one, by the least set that would be a
counterexample (`MinimalSet`, from the well-foundedness of the natural numbers, `LeastNumber`).

`LedgerProofs`, about `Ledger`:

* `LedgerTypeCorrect`: `TypeOK`;
* `LedgerPostsOnce` (`KeysPostOnce`): a key posts once, its claim names the row it describes, and no row lacks a claim;
* `LedgerTransfersComplete`: transfers have exactly their two legs;
* `LedgerCutoffs` (`CutoffsSplitTheLedger`): cutoffs name transactions of their account and never regress;
* `LedgerNothingPostedUnderACutoff` and `LedgerArchivedAccountsAreFrozen`: two action properties;
* `LedgerBalancesStayReadable` (`OnlySnapshotsBreakBalances`): nothing but a snapshot makes a balance unreadable.

No conjunct is inductive alone: that a new claim's
resource is new for every table needs "no row without a claim"
(`ResourcesAreClaimedOnce`), that transfers stay complete when a leg is added needs that no
leg already carries the new id, which is the same fact seen from the other
side, and that nothing is posted under a cutoff needs that the cutoff is the
number of a transaction of the account (`CutoffsNameTransactions`), below which `NextSequences`
never draws again. A balance is readable if the sum up to each transaction is acceptable: a posting
leaves the sums up to the earlier ones as they are, because its number is higher, and the one up to itself
is what `ValidProspectiveEffect` tried (`TriedEntryIsReadable`).

`CardProofs`, about `CardPayments`:

* `CardTypes`: `TypeOK`;
* `CardPlansFollowTheStatement` (`PlansFollowTheStatement`): the statements of a cycle are one chain, and an active plan fits the one in force;
* `CardPlansReconcile` (`PlansReconcileWithPayments`): what is left of a plan is its amount less its settlements, the flow is scheduled for exactly that,
  and what is settled is a transfer posted to the plan's card, counted once;
* `CardHistoryIsKept` (`HistoryIsKept`): rows that have ended stay, versions grow, and a plan that was paid in part keeps its amount;
* `CardPaymentsAreNotOverlooked` (`NoCardPaymentIsOverlooked`): the projection counts or reports every payment, whatever led to the rows.

`NextRevision` reads the statement in force alone, so that revisions stay distinct needs that this
statement has the highest one (`LatestIsInForce`). That an active plan fits needs `Outgrown` to be
asked of the plan as the correction finds it, and everything that changes a plan's amount to have
asked `Plannable`. That a plan may still change its version (`OpenPlansMayChange`) keeps the types. `MoneyInv` adds that
every intent has its flow, scheduled exactly while the plan is active and for what `Remaining` says, and that settlements stay within the
amount; `ReplaceIntent` keeps it only through the deferred trigger (`LifecycleConsistent`), the other operations without: that is
what makes `HistoryIsKept` true of plans that were paid in part.

`InstallmentsProofs`:

* `InstallmentTypes`: no installment is empty, none falls beyond the supported dates (`InstallmentsArePositive` is the arithmetic of `BuildInstallmentSchedule`);
* `InstallmentsAreTakenUp` (`StatementsTakeUpAllocations`): an unpaid allocation is taken up exactly when its cycle has a statement;
* `InstallmentsConservePrincipal` (`SchedulesConservePrincipal`): allocations sum to the principal, for any number of them (`ScheduleDividesPrincipal`, from
  `PartsAddUp`: the remainder goes to the first installments, one unit each);
* `InstallmentsReconcile` (`OutstandingIsUnpaidAllocations`): what a plan owes is what its unpaid allocations owe, and it is completed when that is nothing;
* `InstallmentsDividePurchases`: plans divide distinct purchases posted to their card, and no more than these amount to (`PlansAreCharged`);
* `InstallmentHistory` (`SchedulesAreHistory`): allocations only advance, plans only complete.

`ScheduleProofs`:

* `ScheduleLinksAreEvidence` (`LinksAreEvidence`): a ledger transaction is evidence for one collection, of an inflow of its amount;
* `ScheduleReceivablesAreBounded`: a receivable never collects more than it was for, its status says how much is left, and no collection reaches beyond what was collected;
* `ScheduleCollectionsReconcile` (`CollectionsReconcile`): collections sum to what was collected, and each records what was collected before it;
* `ScheduleOutcomesAreFinal` (`OutcomesAreFinal`).

`CardProofs`, about `CardCycle`:

* `CycleImplementsPayments`: the composition is a `CardPayments`, so that the theorems above hold of it;
* `CycleImplementsInstallments` (`ImplementsInstallments`): seen through `Billed`, it is an
  `Installments`. The step that needs proof is a correction: `RegisterBills` shows
  from `IInv` that it leaves exactly one statement in force in its own cycle and those of the
  other cycles alone, so that what is billed grows by this cycle and by nothing else.
* `CycleTypes`, `CycleConservesPrincipal`, `CycleReconciles`, `CycleHistory`: the theorems of
  `InstallmentsProofs` carried over that implementation (`CycleFollowsPlans`), for the properties that the `card_cycle` run checks.

`LedgerProofs`, about `LedgerSessions` with any set of sessions with any requests:

* `SessionsImplementLedger` (`ImplementsLedger`): what interleaved statements commit is a behaviour of `Ledger`, so that the theorems above hold of the committed tables;
* `SessionsAgree` (`AnswersAgree`): clients that used one key for one operation are told the same resource, the one each asked for;
* `ReadBalancesAreCurrent` (`ReadsAreCurrent`): a balance read while others write is one the account had during the read.

`ReconstructBalance` refuses at each row and `Ledger` compares sums, so `Rebuilt` first shows that the loop
gives the sum if the sum up to every row is acceptable and an error otherwise; `LastRow` finds the row that is applied last, by its number.
`SInv` then follows a session from its locks to its commit: it holds all rows that its check reads and its own rows are about
(`LockOK`, `RowsAreLocked`), so what others commit leaves the check's outcome (`CheckOK`) and the order of the numbers of an account (`NumbersOK`) as they
are; its key is in no table and no other session has it (`ClaimOK`, `Apart`). `SessionStep` is all that statements which commit nothing have in common; a commit
keeps the invariant of the others (`CommitKeepsOthers`) and is one action of `Ledger`, or none for a replay (`CommittedPost` to `CommittedReplay`): that the
identity column's numbers are what `NextSequences` allows is `NumbersOK`. Readers hold no lock; `ReadInv` says that
the rows they have seen make a balance that was current when they saw them.

`ScheduleProofs`, about `ScheduleSessions` with any finite set of sessions with any requests:

* `SessionsImplementSchedule` (`ImplementsSchedule`): what interleaved statements commit is a behaviour of `Schedule`;
* `SessionsReconcileCollections` (`CommittedCollectionsReconcile`), from it and the theorems of `Schedule`;
* `SessionTypes` (`SessionTypeOK`);
* `SessionsKeepHistory` (`HistoryIsKept`): outcomes are final, amounts only grow, and times in a row only grow;
* `SessionsAgree` (`AnswersAgree`): however a request and its retries overlap, all that are answered are told the same.

The argument is what locks and claims guarantee of rows that are not committed yet. `SInv` says it session by session: a session
past its lock holds the row it changes and nobody else does; past its claim no other session has an uncommitted claim of the key; past
its insertion no other has a collection with that link; and what it has written is what the atomic operation
would write if it ran now. Each statement establishes its part (`RowLocked`, `KeyClaimed`, `CollectionInserted`, ...); what another session does leaves
it alone because it writes only rows that it holds (`OthersReadTheSame`, `OthersAreFine`); and then a commit is one action of
`Schedule` (`CommitIsAStep`). `TimeInv` adds that a row's stored time is not later than that of the session that is about to change it.
`AnswerInv` says what an answer rests on: a creation was told of a row that is the original of its key, for good, and a change of a row
that has ended and so reads the same ever after; it is only since outcomes are final that a replay of a change, which reads the row as it is, agrees with the
first answer. The proof found a defect of the model: the guards of `Fingerprint`'s CASE overlapped, which TLC resolves by their order and
the semantics does not. They are disjoint now.

`CardProofs`, about `CardSessions` with any set of sessions with any requests:

* `SessionsImplementPayments` (`ImplementsCardPayments`): what interleaved corrections, plans, cancellations and settlements commit is a behaviour of `CardPayments`;
* `SessionsReconcile` (`PlansFollowTheStatement`, `PlansReconcileWithPayments`): so in the committed rows active plans fit the statements in
  force, and what is planned, paid and left adds up.

`SInv` has the invariants of `CardPayments` for the committed rows (`IInv`, `MoneyInv`, and that a flow which is not settled names no
settlement) and, for every session by its program counter, what it holds, what it has claimed and what it has written (`Fine`); no two
sessions hold one row or insert one key or link (`Apart`). Three things carry the argument. Who holds a cycle keeps its statements and the absence of a
plan, who holds a plan keeps the plan, its flows and settlements, whatever others commit (`Undisturbed`, `StaysFine`). A row that was waited for is looked at
when the lock is granted and not before, so what a statement reads under its lock is what it finds at its commit; only the query of `ReadStatement` is earlier, and
`LockCycle` looks again at what that found. And a commit changes rows of one cycle only (`Reaches`, `OfCycle`), so that it is one
action of `CardPayments` (`RegistrationCommits`, `ReplacementCommits`, `CancellationCommits`, `SettlementCommits`). The shared
locks of foreign keys, which close the circles that the deadlock detector breaks, are not needed for any of this: they cost requests and protect nothing that
these properties speak of.

`InstallmentSessionsProofs`, about any set of sessions with any requests:

* `SessionsImplementInstallments` (`ImplementsInstallments`): what interleaved plans, statements and payments commit is a behaviour of `Installments`;
* `InstallmentSessionsReconcile`: so in the committed rows schedules sum to their principals, plans owe what their allocations owe and allocations of billed
  cycles are taken up;
* `InstallmentSessionsNeverDeadlock` (`NoWaitCycle`): no number of sessions ever wait for each other in a circle.

`Fine` says of a session, by its program counter, what it holds, what it has read and what it is about to write; a step moves one
session along it (`SessionStep`) and leaves the others where they are, since they depend on rows that they hold alone
(`StaysFine`). What is new against the other two is the UPDATE of a statement, which takes and changes its allocations one after the other
while payments of them go on: at any time the allocations of the cycle are those it has taken, whose new values it holds, and those it has still to
reach (`StatementOK`); no plan can add one, since a plan of that card needs the account's lock, which the statement holds. When the last is taken, the union of
what it wrote and what it left is `TakenUp` of the table as it is then, whatever was paid meanwhile.
Waiting is ordered by `WaitRank`: whoever holds an account is past it, whoever holds an allocation waits at most for a
plan, and so on; two statements of one cycle would break this order at the allocations, but they share an account and so are never both past it.

`ProjectionProofs`, about any calendar, limit, rows, dates and finite set of sessions:

* `ProjectionTypes` (`TablesTypeOK`): no session's commit leaves a row outside its columns' types and CHECKs, or its policy's times in the wrong order;
* `ProjectionExpansionsAreExact` (`ExpansionsAreExact`): an obligation expands to each of its due dates once, and is refused only for
  more dates than the limit or for a calendar that ends before the loop does;
* `ProjectionSafeToSpendIsExact` (`SafeToSpendIsExact`): what is called safe is the largest amount whose spending today leaves the account covered and every
  projected balance at the reserve, and the limiting and the breach date are the first days that say so;
* `ProjectionCountsEveryRowOnce` (`EveryRowIsCountedOnce`): each day ends with the opening balance and the rows that matter by then, each once, and every row in
  range that is not counted has one explanation;
* `ProjectionsAreOfOneMoment` (`AnswersAreOfOneMoment`): an answer is what the tables said at the first query, whatever commits between the queries;
* `ProjectionPoliciesAreSound` (`PolicyChangesAreSound`): a policy changes by one version, to another configuration, whose accounts are all active and liquid at that moment.

The first and the last two are about sessions. `PInv` says of a replacement what it has checked (`ChecksHold`: it shares the accounts it has looked at, so none
of them can be archived before it writes), of a reader that what it has is what its first query saw (`ReadsHold`), and that no row locked for
update is held by another (`LocksHold`).

The other three are about operators, for all tables of type `IsTables`. For the expansion, the candidates rise strictly
along the grid (`Candidates`, from `MonthlyGrid` and the clamped days), so that every due date up to the end of the range is a candidate that the loop has looked
at when it leaves (`NothingIsMissed`), and leaving at no date at all means that the grid's last day is still within the range (`LastOfGrid`).
For the balances, the engine's order is total on the events of the rows (`EventsAreOrdered`), since source and id break ties; the balance after an event is therefore a sum over a set, the events up to it.
Within a day inflows come after outflows, so that the lowest balance of a day is that after its last outflow, or that of the evening
before: `LowestIsReached` shows that some event or the opening has it, `LowestIsLowest` that no event has less. From these the engine's minimum is
the least of the days' lowest balances (`MinimumIsLowest`), its events that reach it and that fall below the reserve name the first such days (`FirstDayUnder`,
`PointsAreFirst`), and `SpendingIsExact` is arithmetic. For the rows, `EventsOfRows` says which rows have made the events up to a day; the events are images of rows, the sources
are disjoint, so the sums over events are sums over rows (`InflowsAreExpected`, `OutflowsAreOwed`).

`ClientProofs`, about any forms and tokens and all bounds:

* `ClientSubmissionsPostOnce` (`SubmissionsPostOnce`): a movement is posted under a second key only after its form gave up the first, and a form that saw
  success has posted;
* `ClientSessionsEnd` (`SessionsEnd`): no request is authenticated by a session that was logged out or is over.

A request may be served long after its form has forgotten it, so nothing can be said of rows by looking at forms alone. `KeysAreAccountedFor` does it by
numbers: every key before the last that a form made was dropped, and the last is kept, dropped or seen to succeed; that `submit` makes
a key only when none is pending or under way, and never after success, is what keeps it. `MessagesAreKnown` says that
a request or an answer, however late, is about a key that was made, and that an answer of success has its row.

All these invariants were checked by TLC on the runs' instances before they were proved.

Only model-checked is liveness, which is out of reach of these provers: `EverySessionEnds` of the four sessions modules that state fairness. That the
sessions of `InstallmentSessions` never wait in a circle is proved, since it is a safety property.

## 5. Where the code departs from what is said of it

* **A snapshot may make a liability unreadable.** `CreateSnapshot` checks the
  observed balance and the cutoff but not the balance the account has with
  them. Charge 1, pay 1, then record a snapshot of 0 with cutoff 1 (the charge):
  the payment, applied after it, gives -1. `ReconstructBalance` refuses, the balance cannot be
  read (HTTP 500), and no transaction can be posted until a snapshot with a later cutoff.
  `OnlySnapshotsBreakBalances` shows that nothing else does this.
* **A plan can be refused for a missing statement that is there.** When
  `ReplaceIntent` waits for a correction, the statement it found is superseded and the new one is
  not in its snapshot: `ErrNoAuthoritativeStatement`. The test of that race accepts only
  success or an invalid intent.
* **A summary can contradict the schema.** `GetInstallmentPlanSummary` reads the
  plan and what was paid in two queries without a transaction: a plan may be
  reported active with nothing outstanding, a state that migration 0012 refuses
  to commit (`SummariesAreConsistent`).

Further observations, which no run isolates:

* principal is paid without a payment: `docs/adr/0001-financial-core-invariants.md:65` lets only
  a posted payment linked to the plan reduce its principal, `RecordInstallmentPrincipalPayment`
  names no transaction, and no column could hold one;
* a plan paid in part can never be replaced (`HistoryIsKept`: the
  deferred trigger refuses it at commit, with an error that does not say so), and
  once a correction sent it to review only cancellation remains;
* the deadlock between a settlement and a correction is reported to its victim as an invalid request;
* `RegisterStatement` and `CreateInstallmentPlan` look at the card's status before
  the idempotency key: a retry after the card was archived is refused, not replayed;
* the schedule service reads its clock before it waits for the row: a
  collection, cancellation or archival that waited behind one with a later time is refused as
  invalid although nothing else speaks against it;
* `CancelScheduledFlow` does not ask for a flow's source; a card plan's flow is
  kept from being cancelled through it only by the deferred triggers of
  migrations 0013 and 0015;
* `ReplacePolicy` locks the owner row and then shares accounts, while postings, transfers, snapshots,
  statements and installment plans lock an account and then share the owner row through the
  foreign key of their claim: any of them on an account that the new policy names can
  deadlock with it; the detector ends it and one of them fails (`EverySessionEnds`);
* when two first policies race, the one whose clock read earlier may write later: the CHECK of
  `migrations/0006_projection_policy.sql:15` refuses it and the client is told that its account
  selection is invalid (`be/internal/postgres/projection_repository.go:533`); between later versions `updated_at`
  may go back;
* money that was posted to the ledger before its receivable is collected is counted twice by the projection, once in the
  balance and once as an expected inflow;
* an intent that is settled is never looked at again: a correction to a larger balance is neither
  reported nor can it be planned;
* `addCalendarMonths` clamps both ends of a cycle on their own
  (`be/internal/domain/card/installment.go:128`): a first cycle from 31 December to 30 January is followed by one that ends on
  28 February and one that begins on it, so that neighbouring cycles of a plan share a day, while a first cycle
  of 1 to 28 February leaves 29 to 31 March out; no code reads what lies within a cycle;
* an obligation without end cannot be expanded up to 9999-12-31: the loop asks for the date after it and
  the whole expansion fails;
* the client's message after a network error is "You can safely retry this pending action."
  (`src/frontend/lib/api.ts:151`), but its key is gone when a retry is answered by an error or a
  401 although the first request was served or still is under way, and whenever the form is
  unmounted: by another view or account, by a reload, or by the success of another form,
  which reloads the accounts. What is submitted then has a new key (`dropped` in `SubmissionsPostOnce`);
* the forms of `credit-card.tsx` retry with a bare `void mutation.retry()` (lines 125, 256, 300): a retry that succeeds
  neither reloads nor resets the form, whose contents can then be submitted again under a new key, and
  a retry that is answered by 401 does not lead to the login form;
* a logout whose fetch fails shows the login form while cookie and session live on; an answer of
  401 to a fetch of an ended session signs out the page of a newer login; a late answer to a logout
  removes a newer cookie.

## 6. Not modelled, and the plan

Not modelled because there is no behaviour that these properties could tell apart: parsing and
formatting of HTTP bodies, money and dates; configuration and start-up; the migration runner; passwords and
token digests; the contents of forms and views.

Not modelled, though it could be: `addCalendarMonths` of installments clamps the day as
recurrence does, so that cycles of one plan begin on different days of their months (here
months are numbers); the statement, settlement and installment plan forms of `credit-card.tsx` beside those of `Client`; `CreateAccount`, whose row nobody can know before it commits; a user
with two browsers; owners beside the one.

What comes next: **`addCalendarMonths`** beside `anchoredMonth` in `Recurrence`, and cycles of `Installments`
named by dates, so that the overlaps and gaps of section 5 become part of what the modules say.
