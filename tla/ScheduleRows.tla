---------------------------- MODULE ScheduleRows ----------------------------
(***************************************************************************)
(* The rows of obligations, manual cash flows, receivables and their       *)
(* collections (migrations 0004, 0005, 0007), shared by Schedule and       *)
(* ScheduleSessions.  A row inserted under an idempotency key is named by  *)
(* that key.                                                               *)
(***************************************************************************)
EXTENDS Integers

CONSTANTS
  Keys,           \* values of the Idempotency-Key header
  Transactions,   \* ids of ledger transactions
  Originals,      \* original amounts of receivables
  Amounts,        \* amounts of collections and transactions
  NoLink          \* a collection without ledger transaction

ASSUME AmountAssumption == Originals \subseteq Nat \ {0} /\ Amounts \subseteq Nat \ {0}

ASSUME LinkAssumption == NoLink \notin Transactions

-----------------------------------------------------------------------------
(* Rows *)

Effects == {"asset_inflow", "asset_outflow"}

TransactionRow == [id : Transactions, effect : Effects, amount : Amounts]

ObligationRow == [id : Keys, status : {"active", "archived"}]

FlowRow == [id : Keys, status : {"scheduled", "cancelled"}]

ReceivableRow == [id : Keys, original : Originals, collected : Nat,
                  status : {"open", "partially_collected", "collected", "cancelled"}]

CollectionRow == [id : Keys, receivable : Keys, amount : Amounts, before : Nat,
                  resulting : {"partially_collected", "collected"}, link : Transactions \cup {NoLink}]

Operations == {"create_obligation", "archive_obligation", "create_scheduled_flow",
               "cancel_scheduled_flow", "create_receivable", "collect_receivable", "cancel_receivable"}

=============================================================================
