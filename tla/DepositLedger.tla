---------------------------- MODULE DepositLedger ----------------------------
(***************************************************************************)
(* What the deposit pipeline promises: a transaction row is created        *)
(* pending, is paid at most once, and the step that pays it adds the       *)
(* transfer's amount to its user's balance.  No queue, workers or locks.   *)
(***************************************************************************)
EXTENDS Integers

CONSTANTS Users, Hashes, Transfers, RowIds, None

VARIABLES rows,   \* the table transactions: None, or [hash, status]
          paid,   \* paid[r]: the transfer that row r was credited for
          balance \* what each user has been credited

ledgerVars == <<rows, paid, balance>>

LedgerInit ==
  /\ rows = [r \in RowIds |-> None]
  /\ paid = [r \in RowIds |-> None]
  /\ balance = [u \in Users |-> 0]

NewRow(r, h) ==
  /\ rows[r] = None
  /\ rows' = [rows EXCEPT ![r] = [hash |-> h, status |-> "pending"]]
  /\ UNCHANGED <<paid, balance>>

Credit(r, t) ==
  /\ rows[r] = [hash |-> t.hash, status |-> "pending"]
  /\ paid[r] = None
  /\ rows' = [rows EXCEPT ![r].status = "confirmed"]
  /\ paid' = [paid EXCEPT ![r] = t]
  /\ balance' = [balance EXCEPT ![t.user] = @ + t.amount]

LedgerNext ==
  \E r \in RowIds : \/ \E h \in Hashes : NewRow(r, h)
                    \/ \E t \in Transfers : Credit(r, t)

LedgerSpec == LedgerInit /\ [][LedgerNext]_ledgerVars
=============================================================================
