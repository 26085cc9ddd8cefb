------------------------ MODULE MCProjectionSessions ------------------------
(***************************************************************************)
(* Instance of ProjectionSessions for TLC: two liquid accounts and a card, *)
(* a calendar of three short months.  Most cases are tables that nobody    *)
(* changes: single obligations of every kind, small sets of flows, rows of *)
(* every kind under both inflow policies.  The others are requests that    *)
(* meet.                                                                   *)
(***************************************************************************)
EXTENDS ProjectionSessions, TLC

Quiet == [s \in Sessions |-> NoRequest]

Calendar == <<4, 6, 10>>

Account(type, balance) == [type |-> type, status |-> "active", balance |-> balance]

Policy(reserve, inflows, mode, ids) ==
  [configuration |-> [reserve |-> reserve, horizon |-> 3, inflows |-> inflows, mode |-> mode, ids |-> ids],
   version |-> 1, created |-> 0, updated |-> 0]

Tables(first, second, policy) ==
  [accounts |-> (1 :> Account("bank", first) @@ 2 :> Account("cash", second) @@ 3 :> Account("credit_card", 4)),
   policy |-> policy, obligations |-> {}, flows |-> {}, cardFlows |-> {}, issues |-> {}, receivables |-> {}]

All(reserve, inflows) == Policy(reserve, inflows, "all_active_liquid", {})

-----------------------------------------------------------------------------
(* Obligations *)

ObligationRows ==
  {o \in [id : {1}, amount : {1}, exact : {TRUE}, start : Dates, recurrence : Recurrences,
          end : {3, 8, NoDate}, inactiveFrom : {2, 7, NoDate}] : IsObligation(o)}

ObligationCases == {[Tables(3, 0, All(1, "confirmed_only")) EXCEPT !.obligations = {o}] : o \in ObligationRows}

-----------------------------------------------------------------------------
(* The engine *)

Flow(id, direction, date, amount) ==
  [id |-> id, date |-> date, amount |-> amount, direction |-> direction, status |-> "scheduled",
   exact |-> TRUE, eligible |-> TRUE]

\* An outflow, an inflow and a third flow, near the first of the two dates.
FlowSets ==
  {{Flow(1, "outflow", d[1], x[1]), Flow(2, "inflow", d[2], x[2]), Flow(3, direction, d[3], 1)} :
     d \in {3, 4} \X {3, 4} \X {3, 5}, x \in {1, 3} \X {1, 2}, direction \in {"inflow", "outflow"}}

EngineCases ==
  {[Tables(first, second, All(reserve, "confirmed_only")) EXCEPT !.flows = F] :
     F \in FlowSets, first \in {-1, 0, 1, 3}, second \in {0, 2}, reserve \in {0, 1}}

\* Balances at the limit of what a sum may be.
LimitCases ==
  {[Tables(first, second, All(reserve, "confirmed_only")) EXCEPT !.flows = {Flow(1, direction, 3, amount)}] :
     first \in {-8, 7, 8}, second \in {-1, 1}, reserve \in {0, 8}, amount \in {1, 2},
     direction \in {"inflow", "outflow"}}

-----------------------------------------------------------------------------
(* Rows of every kind *)

\* A flow of every kind, and one after the horizon.
AnyFlow ==
  {Flow(1, "inflow", 6, 2)} \cup
  [id : {1}, date : {3}, amount : {2}, direction : {"inflow", "outflow"}, status : {"scheduled", "cancelled"},
   exact : BOOLEAN, eligible : BOOLEAN]

AnyReceivable ==
  {r \in [id : {1}, date : {2, 4, NoDate}, original : {2}, collected : {0, 1, 2}, exact : {FALSE},
          certainty : {"confirmed", "expected", "uncertain"},
          status : {"pending", "partially_collected", "collected", "cancelled"}] :
     /\ r.status = "pending" => r.collected = 0
     /\ r.status = "partially_collected" => r.collected = 1
     /\ r.status = "collected" => r.collected = 2
     /\ r.status = "cancelled" => r.collected < 2}

Weekly == [id |-> 1, amount |-> 1, exact |-> FALSE, start |-> 1, recurrence |-> "weekly", end |-> NoDate,
           inactiveFrom |-> NoDate]

RowCases ==
  {[Tables(3, 0, policy) EXCEPT !.flows = {f}, !.receivables = {r}, !.obligations = {Weekly},
                                !.cardFlows = {[id |-> 1, date |-> 4, amount |-> 1]}] :
     f \in AnyFlow, r \in AnyReceivable,
     policy \in {All(1, "confirmed_only"), Policy(1, "include_expected", "explicit", {1})}}

\* A cycle whose payment is in doubt; an account of the policy that was archived.
DoubtCases ==
  {[Tables(3, 0, All(1, "confirmed_only")) EXCEPT !.issues = {1}],
   [Tables(3, 2, Policy(1, "confirmed_only", "explicit", {1, 2})) EXCEPT !.accounts[2].status = "archived"],
   [Tables(3, 2, All(1, "confirmed_only")) EXCEPT !.accounts[2].status = "archived"]}

-----------------------------------------------------------------------------
(* Requests *)

Request(operation) ==
  [operation |-> operation, account |-> 1, flow |-> 1, amount |-> 1, asOf |-> 2,
   configuration |-> Policy(1, "confirmed_only", "explicit", {1}).configuration]

Replace(policy) == [Request("replace_policy") EXCEPT !.configuration = policy.configuration]

Menu ==
  <<Replace(Policy(1, "confirmed_only", "explicit", {1, 2})), Replace(Policy(1, "confirmed_only", "explicit", {1, 2})),
    Replace(All(0, "confirmed_only")), [Request("archive") EXCEPT !.account = 2],
    [Request("post") EXCEPT !.account = 2], Request("cancel_flow"), Request("cancel_flow")>>

Held(policy) == [Tables(3, 2, policy) EXCEPT !.flows = {Flow(1, "outflow", 3, 2)}]

Before == {Held(NoPolicy), Held(Policy(1, "confirmed_only", "explicit", {1}))}

\* A reader and two requests of the menu (the second asks for the policy of the first, the last for the
\* flow of the one before), before and after the first policy.
Crossing ==
  {[request |-> <<Request("safe_to_spend"), Menu[i[1]], Menu[i[2]], NoRequest>>, tables |-> t] :
     t \in Before, i \in {n \in (DOMAIN Menu \ {2}) \X (DOMAIN Menu) : n[1] < n[2]}}

\* A replacement, its retry, and what may lock or archive an account that they name.
Contending ==
  {[request |-> <<Menu[1], Menu[2], [Request("archive") EXCEPT !.account = 2], [Request("post") EXCEPT !.account = 2]>>,
    tables |-> Held(NoPolicy)]}

\* Two cancellations of one flow and a replacement, which meet at the owner's row.
Cancelling ==
  {[request |-> <<Menu[1], Menu[6], Menu[7], NoRequest>>, tables |-> Held(NoPolicy)]}

\* A policy that names what it may not, a reader of the baseline; a flow that does not exist, or that has ended.
Unusual ==
  {[request |-> <<Request("baseline"), Replace(Policy(1, "confirmed_only", "explicit", ids)), NoRequest, NoRequest>>,
    tables |-> Tables(3, 2, All(1, "confirmed_only"))] : ids \in {{1, 3}, {2, 4}, {}}}
  \cup
  {[request |-> <<Request("baseline"), [Request("cancel_flow") EXCEPT !.flow = id], NoRequest, NoRequest>>,
    tables |-> [Held(NoPolicy) EXCEPT !.flows = {[Flow(1, "outflow", 3, 2) EXCEPT !.status = "cancelled"]}]] :
     id \in {1, 2}}

AllCases ==
  Crossing \cup Contending \cup Cancelling \cup Unusual
    \cup {[tables |-> t, request |-> Quiet] : t \in ObligationCases \cup EngineCases \cup LimitCases \cup RowCases \cup DoubtCases}

=============================================================================
