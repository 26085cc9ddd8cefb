-------------------------- MODULE MCLedgerSessions --------------------------
(***************************************************************************)
(* Instance of LedgerSessions for TLC: sessions are numbered, account 2 is *)
(* a card and the others are bank accounts.                                *)
(***************************************************************************)
EXTENDS LedgerSessions, TLC

Post(key, account, effect, amount) ==
  [operation |-> "post_transaction", key |-> key,
   fingerprint |-> [account |-> account, effect |-> effect, amount |-> amount]]

Snapshot(key, account, balance, cutoff) ==
  [operation |-> "create_snapshot", key |-> key,
   fingerprint |-> [account |-> account, balance |-> balance, cutoff |-> cutoff]]

Transfer(key, source, destination, amount) ==
  [operation |-> "create_transfer", key |-> key,
   fingerprint |-> [source |-> source, destination |-> destination, amount |-> amount]]

Archive(account) == [operation |-> "archive", fingerprint |-> [account |-> account]]
Read(account) == [operation |-> "read_balance", fingerprint |-> [account |-> account]]

\* Retries, one key used on two accounts, a card paid twice, an account archived
\* under a posting, a snapshot taken beside a posting.
Mixed ==
  <<Post("k1", 1, "asset_inflow", 1), Post("k1", 1, "asset_outflow", 1),
    Post("k1", 2, "liability_charge", 1), Transfer("k1", 1, 2, 1), Transfer("k2", 1, 2, 1),
    Snapshot("k1", 2, 0, 1), Archive(1)>>

\* Transfers between two bank accounts, both ways and under shared keys, and to
\* the card of either.
Crossing ==
  <<Transfer("k1", 1, 3, 1), Transfer("k1", 3, 1, 1), Transfer("k2", 3, 1, 1), Transfer("k2", 1, 2, 1)>>

\* A balance read beside observations and postings.
Reading ==
  <<Read(1), Post("k1", 1, "asset_inflow", 1), Post("k2", 1, "asset_outflow", 1),
    Snapshot("k1", 1, 2, 0), Snapshot("k2", 1, 2, 1)>>

\* Sessions are alike: one of the orders in which they share a menu will do.
Shared(menu) ==
  {[s \in Sessions |-> menu[choice[s]]] :
     choice \in {f \in [Sessions -> DOMAIN menu] : \A s, t \in Sessions : s < t => f[s] <= f[t]}}

AllWorkloads == Shared(Mixed) \cup Shared(Crossing) \cup Shared(Reading)

BalancesZeroTwo == {0, 2}
SmallestBalance == -2

=============================================================================
