--------------------------- MODULE CardProjection ---------------------------
(***************************************************************************)
(* What a projection makes of card payments: loadCardPaymentIssues of      *)
(* internal/postgres/projection_repository.go and the card flows that      *)
(* internal/projection/service.go counts, for the rows that CardPayments   *)
(* can reach.  A projection with an issue answers that nothing is safe to  *)
(* spend (issues and cardFlows of Projection).                             *)
(***************************************************************************)
EXTENDS CardPayments

CONSTANT Horizons   \* pairs of the day of a projection and its last day

ASSUME HorizonAssumption == \A h \in Horizons : h \in Nat \X Nat /\ h[1] < h[2]

-----------------------------------------------------------------------------

\* The statement in force is owed, and due or planned to be paid by then.
IsConsidered(cycle, asOf, end) ==
  \E s \in ActiveStatements(cycle) :
    /\ s.balance > 0
    /\ s.due <= end \/ (HasIntent(cycle) /\ intents[cycle].planned <= asOf)

IsSettled(cycle) == HasIntent(cycle) /\ intents[cycle].status = "settled"

IsDueToday(cycle, asOf) ==
  \/ \E s \in ActiveStatements(cycle) : s.due = asOf
  \/ HasIntent(cycle) /\ intents[cycle].planned = asOf

\* Mutant: a flow of an earlier day is an old one.
FlowNotOverdue(date, asOf, end) ==
  CASE date = asOf -> "card_payment_due_today_unsettled"
    [] date > end  -> "invalid_card_payment_flow"
    [] OTHER       -> "none"

\* What is wrong with the date of the flow of an active plan.
FlowIssue(date, asOf, end) ==
  CASE date = asOf -> "card_payment_due_today_unsettled"
    [] date < asOf -> "card_payment_past_due_unsettled"
    [] date > end  -> "invalid_card_payment_flow"
    [] OTHER       -> "none"

\* The issue of a cycle that is considered.
ConsideredIssue(cycle, asOf, end) ==
  IF IsSettled(cycle) THEN "none"
  ELSE IF IsDueToday(cycle, asOf) THEN "card_payment_due_today_unsettled"
  ELSE IF ~ HasIntent(cycle) \/ intents[cycle].status = "cancelled" THEN "card_payment_intent_missing"
  ELSE IF intents[cycle].status = "needs_review" THEN "card_payment_intent_needs_review"
  ELSE IF Cardinality(ScheduledFlows(cycle)) # 1 THEN "invalid_card_payment_flow"
  ELSE FlowIssue((CHOOSE f \in ScheduledFlows(cycle) : TRUE).date, asOf, end)

PaymentIssue(cycle, asOf, end) ==
  IF IsConsidered(cycle, asOf, end) THEN ConsideredIssue(cycle, asOf, end) ELSE "none"

\* The flows of card payments that the projection takes for outflows.
CountedFlows(cycle, asOf, end) == {f \in ScheduledFlows(cycle) : asOf < f.date /\ f.date <= end}

-----------------------------------------------------------------------------
(* Properties *)

\* No card payment that falls in the horizon is overlooked, and none is counted
\* twice: a cycle owed by the last day is settled, or reported, or counted by
\* one flow of what is left of its plan.  A scheduled flow of an earlier day or
\* of today is reported, what is reported is not counted, and the rows never
\* make an invalid flow (src/README.md:228).
NoCardPaymentIsOverlooked ==
  \A h \in Horizons, c \in Cycles :
    LET issue == PaymentIssue(c, h[1], h[2])
        counted == CountedFlows(c, h[1], h[2])
    IN
    /\ issue # "invalid_card_payment_flow"
    /\ issue # "none" => counted = {}
    /\ issue = "none" /\ (\E s \in ActiveStatements(c) : s.balance > 0 /\ s.due <= h[2]) =>
         \/ IsSettled(c) /\ counted = {}
         \/ \E f \in counted : counted = {f} /\ f.amount = Remaining(c)
    /\ (\E f \in ScheduledFlows(c) : f.date <= h[1]) => issue # "none"

=============================================================================
