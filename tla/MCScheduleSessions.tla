------------------------- MODULE MCScheduleSessions -------------------------
(***************************************************************************)
(* Instance of ScheduleSessions for TLC: receivables of 2 collected by 1   *)
(* or 2, one ledger transaction; sessions are numbered.                    *)
(***************************************************************************)
EXTENDS ScheduleSessions, TLC

CONSTANTS k1, k2, t1

Request(operation, key, row) ==
  [operation |-> operation, key |-> key, row |-> row, original |-> 2, amount |-> 1, link |-> NoLink]

Receivable(key) == Request("create_receivable", key, key)
Cancel(row) == Request("cancel_receivable", k1, row)
Collect(key, row, amount, link) ==
  [Request("collect_receivable", key, row) EXCEPT !.amount = amount, !.link = link]

\* Collections of one receivable, two of which share a key, and its cancellation.
Menu ==
  <<Collect(k1, k1, 1, NoLink), Collect(k2, k1, 1, t1), Collect(k2, k1, 2, NoLink), Cancel(k1)>>

\* The receivable, and three different requests of the menu.
Crossing ==
  {<<Receivable(k1), Menu[i[1]], Menu[i[2]], Menu[i[3]]>> :
     i \in {n \in (DOMAIN Menu) \X (DOMAIN Menu) \X (DOMAIN Menu) : n[1] < n[2] /\ n[2] < n[3]}}

\* Retries of the creation, of a collection and of the cancellation.
Retried ==
  {<<Receivable(k1), Receivable(k1), Collect(k1, k1, 1, NoLink), Cancel(k1)>>,
   <<Receivable(k1), Collect(k1, k1, 1, t1), Collect(k1, k1, 1, t1), Cancel(k1)>>,
   <<Receivable(k1), Cancel(k1), Cancel(k1), Collect(k2, k1, 2, NoLink)>>,
   <<Receivable(k1), [Receivable(k1) EXCEPT !.original = 1], Collect(k1, k1, 1, NoLink), Collect(k1, k1, 2, NoLink)>>}

\* Collections of two receivables that compete for one transaction, or for one key.
TwoReceivables ==
  {<<Receivable(k1), Receivable(k2), Collect(k1, k1, 1, t1), Collect(k2, k2, 1, t1)>>,
   <<Receivable(k1), Receivable(k2), Collect(k1, k1, 1, NoLink), Collect(k1, k2, 1, NoLink)>>}

\* Obligations and flows: a creation, its retry, two ways to end it.
Ending(create, end) ==
  {<<Request(create, k1, k1), Request(create, k1, k1), Request(end, k1, k1), Request(end, k2, k1)>>}

AllWorkloads ==
  Crossing \cup Retried \cup TwoReceivables
    \cup Ending("create_obligation", "archive_obligation")
    \cup Ending("create_scheduled_flow", "cancel_scheduled_flow")

=============================================================================
