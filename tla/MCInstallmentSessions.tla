------------------------ MODULE MCInstallmentSessions ------------------------
(***************************************************************************)
(* Instance of InstallmentSessions for TLC: one card, purchases of 2 paid  *)
(* in two installments or one; sessions are numbered.                      *)
(***************************************************************************)
EXTENDS InstallmentSessions, TLC

CONSTANTS card, p1, p2, k1, k2

Plan(key, purchase, principal, count) ==
  [operation |-> "create_installment_plan", key |-> key, card |-> card, purchase |-> purchase,
   principal |-> principal, count |-> count, first |-> 0]

Pay1(key, plan, number) ==
  [operation |-> "record_installment_principal_payment", key |-> key, plan |-> plan,
   number |-> number, amount |-> 1]

Statement(month) == [operation |-> "register", card |-> card, month |-> month]

Summary(plan) == [operation |-> "summary", plan |-> plan]

\* The purchase planned in another way, payments of the plan, two of which share
\* a key, and a statement of its first cycle.
Menu ==
  <<Plan(k2, p1, 2, 1), Pay1(k1, k1, 1), Pay1(k2, k1, 2), Pay1(k2, k1, 1), Statement(0)>>

\* Three different requests of the menu beside the plan.
Crossing ==
  {<<Plan(k1, p1, 2, 2), Menu[i[1]], Menu[i[2]], Menu[i[3]]>> :
     i \in {n \in (DOMAIN Menu) \X (DOMAIN Menu) \X (DOMAIN Menu) : n[1] < n[2] /\ n[2] < n[3]}}

\* Retries that overlap or follow their first attempt.
Retried ==
  {<<Plan(k1, p1, 2, 2), Plan(k1, p1, 2, 2), Pay1(k1, k1, 1), Statement(0)>>,
   <<Plan(k1, p1, 2, 2), Pay1(k1, k1, 1), Pay1(k1, k1, 1), Statement(1)>>}

\* Two plans that share their cycles, payments of both under one key, a statement.
TwoPlans ==
  {<<Plan(k1, p1, 2, 2), Plan(k2, p2, 2, 2), Pay1(k1, k1, 1), Pay1(k1, k2, 1)>>,
   <<Plan(k1, p1, 2, 2), Plan(k2, p2, 2, 2), Pay1(k1, k1, 2), Statement(1)>>}

\* A plan of a principal that is not the purchase's; a summary of a plan being paid.
Summarized ==
  {<<Plan(k1, p1, 3, 2), Plan(k1, p1, 2, 1), [Pay1(k1, k1, 1) EXCEPT !.amount = 2], Summary(k1)>>,
   <<Plan(k1, p1, 2, 2), Pay1(k1, k1, 1), Pay1(k2, k1, 2), Summary(k1)>>}

AllWorkloads == Crossing \cup Retried \cup TwoPlans \cup Summarized

=============================================================================
