---------------------------- MODULE BalanceLedger ----------------------------
(***************************************************************************)
(* What the casino wallet promises a game provider: a transaction, named   *)
(* by its txn_id and txn_type, moves one balance of one user once, and a   *)
(* balance moves for no other reason.  No handlers, locks or replies.      *)
(***************************************************************************)
EXTENDS Integers

CONSTANTS Users,         \* the users that exist
          TxnIds,        \* transaction ids the providers use
          InitialBalance \* what every balance holds at the start

VARIABLES row,  \* row[u][b]: the balance b of user u
          txns  \* the accepted transactions

ledgerVars == <<row, txns>>

BalanceTypes == {"realBalance", "testBalance"}
TxnTypes     == {"debit", "credit", "debit_credit"}

(***************************************************************************)
(* A debit ignores the win and a credit ignores the bet, whatever the      *)
(* request carries in the other field.                                     *)
(***************************************************************************)
Staked(t) == IF t.txn_type = "credit" THEN 0 ELSE t.bet
Gained(t) == IF t.txn_type = "debit" THEN 0 ELSE t.win

SameTxn(s, t) == s.txn_id = t.txn_id /\ s.txn_type = t.txn_type
Recorded(t)   == \E s \in txns : SameTxn(s, t)

TxnRecord == [user: Users, txn_id: TxnIds, txn_type: TxnTypes, bet: Nat,
              win: Nat, balanceType: BalanceTypes, after: Nat]

LedgerInit ==
  /\ row = [u \in Users |-> [b \in BalanceTypes |-> InitialBalance]]
  /\ txns = {}

Accept(t) ==
  /\ ~Recorded(t)
  /\ row[t.user][t.balanceType] >= Staked(t)
  /\ t.after = row[t.user][t.balanceType] - Staked(t) + Gained(t)
  /\ row' = [row EXCEPT ![t.user][t.balanceType] = t.after]
  /\ txns' = txns \cup {t}

\* The accepted transaction is the one the step adds, so \E ranges over txns'.
LedgerNext == \E t \in txns' : t \in TxnRecord /\ Accept(t)

LedgerSpec == LedgerInit /\ [][LedgerNext]_ledgerVars
=============================================================================
