-------------------------- MODULE WithdrawalLedger --------------------------
(***************************************************************************)
(* What createWithdrawal promises: a withdrawal takes its amount and its   *)
(* fee from one token balance, once, in the step that makes it pending,    *)
(* and no token balance moves for another reason.  What becomes of it      *)
(* later, its status says.  No copies, locks, queue or workers.            *)
(***************************************************************************)
EXTENDS Integers

CONSTANTS Users, Tokens, Requests, InitialToken, None

VARIABLES token, \* token[u][k]: a token balance of user u
          status \* status[q]: None before the withdrawal is there

ledgerVars == <<token, status>>

Total(q) == q.amount + q.fee

LedgerInit ==
  /\ token = [u \in Users |-> [k \in Tokens |-> InitialToken]]
  /\ status = [q \in Requests |-> None]

Place(q) ==
  /\ status[q] = None
  /\ token[q.user][q.token] >= Total(q)
  /\ token' = [token EXCEPT ![q.user][q.token] = @ - Total(q)]
  /\ status' = [status EXCEPT ![q] = "pending"]

\* By the processor or an administrator: nothing is ever given back.
Report(q) ==
  /\ status[q] # None
  /\ \E s \in {"pending", "approved", "rejected", "completed", "failed"} :
       status' = [status EXCEPT ![q] = s]
  /\ UNCHANGED token

LedgerNext == \E q \in Requests : Place(q) \/ Report(q)

LedgerSpec == LedgerInit /\ [][LedgerNext]_ledgerVars
=============================================================================
