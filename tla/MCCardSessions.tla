--------------------------- MODULE MCCardSessions ---------------------------
(***************************************************************************)
(* Instance of CardSessions for TLC: one card and one of its cycles;       *)
(* sessions are numbered.                                                  *)
(***************************************************************************)
EXTENDS CardSessions, TLC

CONSTANTS card, c1, k1, k2, t1

OneCard == [c \in Cycles |-> card]

Register(key, cycle, balance) ==
  [operation |-> "register_credit_card_statement", key |-> key, cycle |-> cycle,
   authority |-> "issued", balance |-> balance, due |-> 1]

Replace(cycle, amount) ==
  [operation |-> "replace", cycle |-> cycle, amount |-> amount, planned |-> 1]

CancelPlan(cycle) == [operation |-> "cancel", cycle |-> cycle]

Settle(key, cycle, transfer) ==
  [operation |-> "settle_credit_card_payment_intent", key |-> key, cycle |-> cycle,
   transfer |-> transfer]

\* A correction, a plan and another, a settlement in part or in full, a cancellation.
Menu ==
  <<Register(k2, c1, 1), Replace(c1, 2), Replace(c1, 1), Settle(k1, c1, t1), CancelPlan(c1)>>

\* Three different requests of the menu beside the cycle's first statement.
Crossing ==
  {<<Register(k1, c1, 2), Menu[i[1]], Menu[i[2]], Menu[i[3]]>> :
     i \in {n \in (DOMAIN Menu) \X (DOMAIN Menu) \X (DOMAIN Menu) : n[1] < n[2] /\ n[2] < n[3]}}

\* Retries that overlap or follow their first attempt.
Retried ==
  {<<Register(k1, c1, 2), Register(k1, c1, 2), Replace(c1, 2), Settle(k1, c1, t1)>>,
   <<Register(k1, c1, 2), Replace(c1, 2), Settle(k1, c1, t1), Settle(k1, c1, t1)>>,
   <<Register(k1, c1, 2), Replace(c1, 2), Replace(c1, 2), Register(k2, c1, 1)>>}

AllWorkloads == Crossing \cup Retried

=============================================================================
