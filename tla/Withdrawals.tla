----------------------------- MODULE Withdrawals -----------------------------
(***************************************************************************)
(* createWithdrawal (withdraw/withdraw.service.ts): one database           *)
(* transaction under the user's row lock that takes the amount and the fee *)
(* from a token balance, creates the pending row and adds the job to the   *)
(* BullMQ queue "withdrawals" before it commits.  WithdrawalProcessor      *)
(* (withdraw/withdraw.processor.ts) sends the tokens and records the       *)
(* outcome; an administrator may set the status of a row at any time.      *)
(*                                                                         *)
(* A request and its row share one name: the row's uuid is the job id.     *)
(***************************************************************************)
EXTENDS Integers, FiniteSets

CONSTANTS Users, Tokens,
          Requests,     \* the withdrawal requests of a behaviour
          Workers,      \* handlers that can run at once, in all processes
          InitialToken, \* every token balance at the start
          InitialUsd,   \* every realBalance at the start: play moves it alone
          Attempts,     \* the job option "attempts"
          MaxStalled,   \* BullMQ's maxStalledCount
          None

\* valid: the amount is positive and not below the minimum, the chain takes
\* the token.
RequestType == [id: Nat, user: Users, token: Tokens, amount: Nat, fee: Nat,
                valid: BOOLEAN]

Statuses == {"pending", "approved", "rejected", "completed", "failed"}

ASSUME WithdrawalAssumption ==
  /\ Requests \subseteq RequestType
  /\ InitialToken \in Nat /\ InitialUsd \in Nat
  /\ Attempts \in Nat \ {0} /\ MaxStalled \in Nat
  /\ None \notin Workers /\ None \notin Requests /\ None \notin Statuses

VARIABLES token,   \* token[u][k]: a token balance of user u
          usd,     \* usd[u]: the user's realBalance
          row,     \* row[q]: the committed status of q's row, or None
          cpc,     \* where the request's handler is
          copy,    \* its copy of the user's row: [token, usd]
          lock,    \* lock[u]: the request whose transaction locks u's row
          jstate,  \* the state of q's job in the queue
          made,    \* made[q]: attempts of the job that have failed
          stalls,  \* stalls[q]: times the job was taken from a worker
          owner,   \* the worker that holds the job's BullMQ lock
          wpc, wjob, \* each worker's place and job
          missed,  \* requests whose row a worker looked for before it was
                   \* committed (history)
          sent,    \* sent[q]: transfers executed for q (history)
          touched  \* requests that met an administrator, a stall or a
                   \* status that could not be saved (history)

userVars   == <<token, usd, copy, lock>>
queueVars  == <<jstate, made, stalls, owner>>
workerVars == <<wpc, wjob, missed>>
vars == <<userVars, row, cpc, queueVars, workerVars, sent, touched>>

AdminStatuses == {"pending", "approved", "rejected", "completed"}

UserCopy == [token: [Tokens -> Int], usd: Int]
NoCopy   == [token |-> [k \in Tokens |-> 0], usd |-> 0]
Total(q) == q.amount + q.fee

TypeOK ==
  /\ token \in [Users -> [Tokens -> Int]]
  /\ usd \in [Users -> Int]
  /\ row \in [Requests -> Statuses \cup {None}]
  /\ cpc \in [Requests -> {"new", "locked", "saved", "queued", "done",
                           "refused"}]
  /\ copy \in [Requests -> UserCopy]
  /\ lock \in [Users -> Requests \cup {None}]
  /\ jstate \in [Requests -> {"none", "waiting", "active", "completed",
                              "failed"}]
  /\ made \in [Requests -> 0..Attempts]
  /\ stalls \in [Requests -> 0..MaxStalled]
  /\ owner \in [Requests -> Workers \cup {None}]
  /\ wpc \in [Workers -> {"idle", "read", "send", "wait", "save", "catch",
                          "throw", "return"}]
  /\ wjob \in [Workers -> Requests \cup {None}]
  /\ missed \subseteq Requests
  /\ sent \in [Requests -> Nat]
  /\ touched \subseteq Requests

Init ==
  /\ token = [u \in Users |-> [k \in Tokens |-> InitialToken]]
  /\ usd = [u \in Users |-> InitialUsd]
  /\ row = [q \in Requests |-> None]
  /\ cpc = [q \in Requests |-> "new"]
  /\ copy = [q \in Requests |-> NoCopy]
  /\ lock = [u \in Users |-> None]
  /\ jstate = [q \in Requests |-> "none"]
  /\ made = [q \in Requests |-> 0]
  /\ stalls = [q \in Requests |-> 0]
  /\ owner = [q \in Requests |-> None]
  /\ wpc = [w \in Workers |-> "idle"]
  /\ wjob = [w \in Workers |-> None]
  /\ missed = {}
  /\ sent = [q \in Requests |-> 0]
  /\ touched = {}

-----------------------------------------------------------------------------
(* createWithdrawal                                                        *)

\* The end of the transaction, by commit or rollback.
EndTransaction(q, l) ==
  /\ cpc' = [cpc EXCEPT ![q] = l]
  /\ copy' = [copy EXCEPT ![q] = NoCopy]
  /\ lock' = [lock EXCEPT ![q.user] = IF @ = q THEN None ELSE @]

RefuseInvalid(q) ==
  /\ cpc[q] = "new"
  /\ ~q.valid
  /\ cpc' = [cpc EXCEPT ![q] = "refused"]
  /\ UNCHANGED <<userVars, row, queueVars, workerVars, sent, touched>>

\* Mutant: the user is read with no lock.
LockUserPlain(q) ==
  /\ cpc[q] = "new"
  /\ q.valid
  /\ copy' = [copy EXCEPT ![q] = [token |-> token[q.user],
                                  usd |-> usd[q.user]]]
  /\ cpc' = [cpc EXCEPT ![q] = "locked"]
  /\ UNCHANGED <<token, usd, lock, row, queueVars, workerVars, sent, touched>>

LockUser(q) ==
  /\ cpc[q] = "new"
  /\ q.valid
  /\ lock[q.user] = None
  /\ lock' = [lock EXCEPT ![q.user] = q]
  /\ copy' = [copy EXCEPT ![q] = [token |-> token[q.user],
                                  usd |-> usd[q.user]]]
  /\ cpc' = [cpc EXCEPT ![q] = "locked"]
  /\ UNCHANGED <<token, usd, row, queueVars, workerVars, sent, touched>>

\* Insufficient balance, or a database or Redis error: everything the
\* transaction wrote is undone, a job it has added is not.
Abort(q) ==
  /\ cpc[q] \in {"locked", "saved", "queued"}
  /\ EndTransaction(q, "refused")
  /\ UNCHANGED <<token, usd, row, queueVars, workerVars, sent, touched>>

\* The token balance pays amount and fee; the USD balance is set to what is
\* left of the token, whatever it was.  Both are saved, with the new row.
Deduct(q) ==
  LET left == copy[q].token[q.token] - Total(q) IN
  /\ cpc[q] = "locked"
  /\ left >= 0
  /\ copy' = [copy EXCEPT ![q].token[q.token] = left, ![q].usd = left]
  /\ cpc' = [cpc EXCEPT ![q] = "saved"]
  /\ UNCHANGED <<token, usd, lock, row, queueVars, workerVars, sent, touched>>

AddJob(q) ==
  /\ cpc[q] = "saved"
  /\ jstate' = [jstate EXCEPT ![q] = "waiting"]
  /\ cpc' = [cpc EXCEPT ![q] = "queued"]
  /\ UNCHANGED <<userVars, row, made, stalls, owner, workerVars, sent,
                 touched>>

Commit(q) ==
  /\ cpc[q] = "queued"
  /\ token' = [token EXCEPT ![q.user] = copy[q].token]
  /\ usd' = [usd EXCEPT ![q.user] = copy[q].usd]
  /\ row' = [row EXCEPT ![q] = "pending"]
  /\ EndTransaction(q, "done")
  /\ UNCHANGED <<queueVars, workerVars, sent, touched>>

-----------------------------------------------------------------------------
(* WithdrawalProcessor                                                     *)

Goto(w, l) == wpc' = [wpc EXCEPT ![w] = l] /\ UNCHANGED wjob

FindRow(w) ==
  missed' = IF row[wjob[w]] = None THEN missed \cup {wjob[w]} ELSE missed

Take(w, q) ==
  /\ wpc[w] = "idle"
  /\ jstate[q] = "waiting"
  /\ jstate' = [jstate EXCEPT ![q] = "active"]
  /\ owner' = [owner EXCEPT ![q] = w]
  /\ wpc' = [wpc EXCEPT ![w] = "read"]
  /\ wjob' = [wjob EXCEPT ![w] = q]
  /\ UNCHANGED <<userVars, row, cpc, made, stalls, missed, sent, touched>>

\* Mutant: the status of the row is not looked at.
ReadAnyStatus(w) ==
  /\ wpc[w] = "read" /\ FindRow(w)
  /\ Goto(w, IF row[wjob[w]] = None THEN "return" ELSE "send")
  /\ UNCHANGED <<userVars, row, cpc, queueVars, sent, touched>>

\* Mutant: only what an administrator approved is processed.
ReadApproved(w) ==
  /\ wpc[w] = "read" /\ FindRow(w)
  /\ Goto(w, IF row[wjob[w]] = "approved" THEN "send" ELSE "return")
  /\ UNCHANGED <<userVars, row, cpc, queueVars, sent, touched>>

\* findById: a missing, completed or failed row ends the job; any other
\* status, "rejected" too, is processed.
Read(w) ==
  /\ wpc[w] = "read" /\ FindRow(w)
  /\ Goto(w, IF row[wjob[w]] \in {None, "completed", "failed"}
             THEN "return" ELSE "send")
  /\ UNCHANGED <<userVars, row, cpc, queueVars, sent, touched>>

\* The row cannot be read: the attempt fails, nothing is saved.
ReadThrows(w) ==
  /\ wpc[w] = "read"
  /\ Goto(w, "throw")
  /\ UNCHANGED <<userVars, row, cpc, queueVars, missed, sent, touched>>

\* The tokens leave the hot wallet.
Send(w) ==
  /\ wpc[w] = "send"
  /\ sent' = [sent EXCEPT ![wjob[w]] = @ + 1]
  /\ Goto(w, "wait")
  /\ UNCHANGED <<userVars, row, cpc, queueVars, missed, touched>>

Confirmed(w) ==
  /\ wpc[w] = "wait"
  /\ Goto(w, "save")
  /\ UNCHANGED <<userVars, row, cpc, queueVars, missed, sent, touched>>

\* Mutant: an error of the send is swallowed.
SendIgnored(w) ==
  /\ wpc[w] \in {"send", "wait"}
  /\ Goto(w, "save")
  /\ UNCHANGED <<userVars, row, cpc, queueVars, missed, sent, touched>>

\* The send failed or reverted, or its confirmation could not be had.
SendThrows(w) ==
  /\ wpc[w] \in {"send", "wait"}
  /\ Goto(w, "catch")
  /\ UNCHANGED <<userVars, row, cpc, queueVars, missed, sent, touched>>

\* updateWithdrawal saves the row as it was read, with the new status.
Save(w, from, status, to) ==
  /\ wpc[w] = from
  /\ row' = [row EXCEPT ![wjob[w]] = status]
  /\ Goto(w, to)
  /\ UNCHANGED <<userVars, cpc, queueVars, missed, sent, touched>>

SaveCompleted(w) == Save(w, "save", "completed", "return")
SaveFailed(w)    == Save(w, "catch", "failed", "throw")

\* The save of "completed" throws into the catch, that of "failed" out of it.
SaveThrows(w) ==
  /\ wpc[w] \in {"save", "catch"}
  /\ Goto(w, IF wpc[w] = "save" THEN "catch" ELSE "throw")
  /\ touched' = touched \cup {wjob[w]}
  /\ UNCHANGED <<userVars, row, cpc, queueVars, missed, sent>>

\* The worker reports state s for its job and forgets it; a worker that lost
\* the job changes nothing in the queue.
EndJob(w, s, m) ==
  /\ IF owner[wjob[w]] = w
     THEN /\ jstate' = [jstate EXCEPT ![wjob[w]] = s]
          /\ made' = [made EXCEPT ![wjob[w]] = m]
          /\ owner' = [owner EXCEPT ![wjob[w]] = None]
     ELSE UNCHANGED <<jstate, made, owner>>
  /\ wpc' = [wpc EXCEPT ![w] = "idle"]
  /\ wjob' = [wjob EXCEPT ![w] = None]
  /\ UNCHANGED <<userVars, row, cpc, stalls, missed, sent, touched>>

Return(w) == wpc[w] = "return" /\ EndJob(w, "completed", made[wjob[w]])

\* Mutant: the job is added without a limit of attempts.
RethrowAlways(w) == wpc[w] = "throw" /\ EndJob(w, "waiting", made[wjob[w]])

\* A failed attempt is tried again until all Attempts have been made.
Rethrow(w) ==
  /\ wpc[w] = "throw"
  /\ LET m == made[wjob[w]] + 1
     IN  EndJob(w, IF m < Attempts THEN "waiting" ELSE "failed", m)

Crash(w) ==
  /\ wpc[w] # "idle"
  /\ owner' = [q \in Requests |-> IF owner[q] = w THEN None ELSE owner[q]]
  /\ wpc' = [wpc EXCEPT ![w] = "idle"]
  /\ wjob' = [wjob EXCEPT ![w] = None]
  /\ UNCHANGED <<userVars, row, cpc, jstate, made, stalls, missed, sent,
                 touched>>

\* The stalled-job check of BullMQ; the worker may still be running.
Stall(q) ==
  /\ jstate[q] = "active"
  /\ IF stalls[q] < MaxStalled
     THEN /\ jstate' = [jstate EXCEPT ![q] = "waiting"]
          /\ stalls' = [stalls EXCEPT ![q] = @ + 1]
     ELSE /\ jstate' = [jstate EXCEPT ![q] = "failed"]
          /\ UNCHANGED stalls
  /\ owner' = [owner EXCEPT ![q] = None]
  /\ touched' = touched \cup {q}
  /\ UNCHANGED <<userVars, row, cpc, made, workerVars, sent>>

\* updateTransactionStatus of admin.service.ts writes the status column only.
Admin(q, s) ==
  /\ row[q] # None
  /\ row' = [row EXCEPT ![q] = s]
  /\ touched' = touched \cup {q}
  /\ UNCHANGED <<userVars, cpc, queueVars, workerVars, sent>>

-----------------------------------------------------------------------------
Create(q) == RefuseInvalid(q) \/ LockUser(q) \/ Deduct(q) \/ AddJob(q)
             \/ Commit(q)

Work(w) == Read(w) \/ Send(w) \/ Confirmed(w) \/ SaveCompleted(w)
           \/ SaveFailed(w) \/ Return(w) \/ Rethrow(w)

Next ==
  \/ \E q \in Requests : Create(q) \/ Abort(q) \/ Stall(q)
  \/ \E w \in Workers, q \in Requests : Take(w, q)
  \/ \E w \in Workers : Work(w) \/ Crash(w)
  \/ \E w \in Workers : ReadThrows(w) \/ SendThrows(w) \/ SaveThrows(w)
  \/ \E q \in Requests, s \in AdminStatuses : Admin(q, s)

Spec == Init /\ [][Next]_vars

(***************************************************************************)
(* Handlers and workers that can go on do, the queue hands out its jobs    *)
(* and checks for jobs nobody works on.  Sends, saves and processes may    *)
(* fail.  The wait for a confirmation has no timeout, so nothing says that *)
(* it ends: a transfer that is never mined keeps its worker, whose living  *)
(* process renews the job's lock, for ever.                                *)
(***************************************************************************)
ValidRequests == {q \in Requests : q.valid}

FairSpec ==
  /\ Spec
  /\ \A q \in ValidRequests : /\ WF_vars(Commit(q) \/ Abort(q))
                              /\ SF_vars(\E w \in Workers : Take(w, q))
                              /\ WF_vars(owner[q] = None /\ Stall(q))
  /\ \A w \in Workers : WF_vars(wpc[w] # "wait" /\ Work(w))

-----------------------------------------------------------------------------
\* No token balance is overdrawn, however many requests a user has at once:
\* the check and the deduction are made under one row lock.
NoOverdraft == \A u \in Users, k \in Tokens : token[u][k] >= 0

\* Without a stall, an administrator's change or a status that could not be
\* saved, a withdrawal is sent at most once, whatever BullMQ retries: a failed
\* attempt leaves "failed", which the next attempt skips.
SentOnce == \A q \in Requests : sent[q] > 1 => q \in touched

\* A row says "completed" only when its tokens have left, unless an
\* administrator said so.
CompletedIsPaid ==
  \A q \in Requests : row[q] = "completed" /\ q \notin touched => sent[q] = 1

\* Nothing is sent for a request whose transaction has not committed: a job
\* that overtakes the commit finds no row.
OnlyCommittedIsSent == \A q \in Requests : sent[q] > 0 => cpc[q] = "done"

\* "Queue withdrawal job for worker processing": a withdrawal stays pending with
\* its job completed only if a worker looked for the row before it was committed,
\* or an administrator, a stall or a failed save interfered.
PendingIsQueued ==
  \A q \in Requests :
    row[q] = "pending" /\ jstate[q] = "completed" => q \in missed \cup touched

\* Whatever requests, workers and administrators do at once, the balances and
\* the rows follow the abstract ledger: the row lock of createWithdrawal makes
\* the check, the deduction and the new row one step.
Ledger == INSTANCE WithdrawalLedger WITH token <- token, status <- row
ImplementsLedger == Ledger!LedgerSpec

\* "Fee: $x (withdrawn from real balance)": a withdrawal lowers the USD
\* balance by the amount and the fee.
WithdrawnFromRealBalance ==
  [][\A q \in Requests : cpc[q] = "queued" /\ cpc'[q] = "done" =>
       usd'[q.user] = usd[q.user] - Total(q)]_vars

\* If no wait for a confirmation lasts for ever, every withdrawal's job comes to
\* an end: it is not retried or redelivered for ever and no worker is stuck in it
\* for another reason.  Without the assumption one transfer that is never mined
\* holds up its own job and, behind its worker, the jobs that wait.
NoWaitForEver == \A w \in Workers : []<>(wpc[w] # "wait")

EveryJobEnds ==
  NoWaitForEver =>
    \A q \in ValidRequests :
      jstate[q] = "waiting" ~> jstate[q] \in {"completed", "failed"}
=============================================================================
