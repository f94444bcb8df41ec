------------------------------ MODULE Deposits ------------------------------
(***************************************************************************)
(* The deposit pipeline: a scanner reports transfers to the BullMQ queue   *)
(* "deposits", and DepositProcessor (deposit/deposit.processor.ts) finds   *)
(* or creates the transaction row, waits for confirmations by requeueing   *)
(* the job, and credits the user in one database transaction (creditUser). *)
(*                                                                         *)
(* BullMQ is external: a job id in the queue is not added again, a job     *)
(* whose worker stops renewing its lock is given to another worker while   *)
(* the first may still be running.                                         *)
(***************************************************************************)
EXTENDS Integers, FiniteSets

CONSTANTS Users, Hashes,
          Transfers, \* what the scanners see on the chains
          Reverted,  \* hashes whose chain transaction failed
          Workers,   \* handlers that can run at once, in all processes
          RowIds,    \* room for rows of the table transactions
          None

Chains == {"evm", "solana", "segwit"}

TransferType == [hash: Hashes, chain: Chains, user: Users, amount: Nat]

Statuses == {"pending", "confirmed", "failed"}
RowType  == [hash: Hashes, status: Statuses]

ASSUME DepositAssumption ==
  /\ Transfers \subseteq TransferType
  /\ \A s, t \in Transfers : s.hash = t.hash => s.chain = t.chain
  /\ Reverted \subseteq Hashes
  \* A Bitcoin transaction that is in a block has no status that could be a failure.
  /\ \A t \in Transfers : t.chain = "segwit" => t.hash \notin Reverted
  /\ None \notin Workers \cup Transfers \cup RowIds \cup RowType

VARIABLES depth,    \* depth[h]: how far the chain has confirmed h
          job,      \* job[h]: the payload of the job chain_h, or None
          jstate,   \* the state of that job in the queue
          owner,    \* the worker that holds the job's BullMQ lock
          stalled,  \* hashes whose job was taken from a worker (history)
          rows,     \* the table transactions: None, or [hash, status]
          paid,     \* paid[r]: the transfer row r was credited for (history)
          lost,     \* hashes whose job left unpaid by a failed requeue (history)
          balance,  \* what each user has been credited
          rowLock,  \* the worker whose database transaction locks row r
          userLock, \* the same for the user's row
          wpc, wjob, wrow, wseen, wbal \* each worker's place and locals

queueVars  == <<job, jstate, owner, stalled, lost>>
dbVars     == <<rows, paid, balance>>
lockVars   == <<rowLock, userLock>>
workerVars == <<wpc, wjob, wrow, wseen, wbal>>
vars == <<depth, queueVars, dbVars, lockVars, workerVars>>

WPCs == {"idle", "find", "create", "check", "lockRow", "lockUser", "commit",
         "requeue", "complete"}

\* A busy worker has a job, and a row once it has found or created one.
WorkerOK ==
  \A w \in Workers :
    /\ wpc[w] = "idle" <=> wjob[w] = None
    /\ wpc[w] \in {"check", "lockRow", "lockUser", "commit"} =>
         wrow[w] # None /\ rows[wrow[w]] # None

TypeOK ==
  /\ depth \in [Hashes -> {"unseen", "shallow", "deep"}]
  /\ job \in [Hashes -> Transfers \cup {None}]
  /\ jstate \in [Hashes -> {"none", "waiting", "active", "failed"}]
  /\ owner \in [Hashes -> Workers \cup {None}]
  /\ stalled \subseteq Hashes /\ lost \subseteq Hashes
  /\ rows \in [RowIds -> RowType \cup {None}]
  /\ paid \in [RowIds -> Transfers \cup {None}]
  /\ balance \in [Users -> Nat]
  /\ rowLock \in [RowIds -> Workers \cup {None}]
  /\ userLock \in [Users -> Workers \cup {None}]
  /\ wpc \in [Workers -> WPCs]
  /\ wjob \in [Workers -> Transfers \cup {None}]
  /\ wrow \in [Workers -> RowIds \cup {None}]
  /\ wseen \in [Workers -> Statuses]
  /\ wbal \in [Workers -> Nat]
  /\ WorkerOK

Init ==
  /\ depth = [h \in Hashes |-> "unseen"]
  /\ job = [h \in Hashes |-> None]
  /\ jstate = [h \in Hashes |-> "none"]
  /\ owner = [h \in Hashes |-> None]
  /\ stalled = {} /\ lost = {}
  /\ rows = [r \in RowIds |-> None]
  /\ paid = [r \in RowIds |-> None]
  /\ balance = [u \in Users |-> 0]
  /\ rowLock = [r \in RowIds |-> None]
  /\ userLock = [u \in Users |-> None]
  /\ wpc = [w \in Workers |-> "idle"]
  /\ wjob = [w \in Workers |-> None]
  /\ wrow = [w \in Workers |-> None]
  /\ wseen = [w \in Workers |-> "pending"]
  /\ wbal = [w \in Workers |-> 0]

-----------------------------------------------------------------------------
(* The chains and the queue                                                *)

Confirm(h) ==
  /\ depth[h] # "deep"
  /\ depth' = [depth EXCEPT ![h] =
                 IF depth[h] = "unseen" THEN "shallow" ELSE "deep"]
  /\ UNCHANGED <<queueVars, dbVars, lockVars, workerVars>>

\* Mutant: the job id does not keep an active job from being added again.
EnqueueAgain(t) ==
  /\ depth[t.hash] # "unseen"
  /\ job' = [job EXCEPT ![t.hash] = t]
  /\ jstate' = [jstate EXCEPT ![t.hash] = "waiting"]
  /\ UNCHANGED <<depth, owner, stalled, lost, dbVars, lockVars, workerVars>>

\* enqueueDeposit of a scanner.  The job id is the chain and the hash: while
\* such a job exists, the add changes nothing, whatever its payload.
Enqueue(t) ==
  /\ depth[t.hash] # "unseen"
  /\ jstate[t.hash] = "none"
  /\ job' = [job EXCEPT ![t.hash] = t]
  /\ jstate' = [jstate EXCEPT ![t.hash] = "waiting"]
  /\ UNCHANGED <<depth, owner, stalled, lost, dbVars, lockVars, workerVars>>

Take(w, h) ==
  /\ wpc[w] = "idle"
  /\ jstate[h] = "waiting"
  /\ jstate' = [jstate EXCEPT ![h] = "active"]
  /\ owner' = [owner EXCEPT ![h] = w]
  /\ wpc' = [wpc EXCEPT ![w] = "find"]
  /\ wjob' = [wjob EXCEPT ![w] = job[h]]
  /\ UNCHANGED <<depth, job, stalled, lost, dbVars, lockVars, wrow, wseen,
                 wbal>>

\* The stalled-job check: back to the queue, or failed once it has happened
\* too often.  The worker, if it lives, knows nothing of it.
Stall(h) ==
  /\ jstate[h] = "active"
  /\ \E s \in {"waiting", "failed"} : jstate' = [jstate EXCEPT ![h] = s]
  /\ owner' = [owner EXCEPT ![h] = None]
  /\ stalled' = stalled \cup {h}
  /\ UNCHANGED <<depth, job, lost, dbVars, lockVars, workerVars>>

-----------------------------------------------------------------------------
(* The worker's steps                                                      *)

Goto(w, l) == wpc' = [wpc EXCEPT ![w] = l]

\* An exception or a return ends the database transaction, if there is one.
Unlock(w) ==
  /\ rowLock' = [r \in RowIds |-> IF rowLock[r] = w THEN None ELSE rowLock[r]]
  /\ userLock' = [u \in Users |-> IF userLock[u] = w THEN None ELSE userLock[u]]

Forget(w) ==
  /\ Goto(w, "idle")
  /\ wjob' = [wjob EXCEPT ![w] = None]
  /\ wrow' = [wrow EXCEPT ![w] = None]
  /\ wseen' = [wseen EXCEPT ![w] = "pending"]
  /\ wbal' = [wbal EXCEPT ![w] = 0]

RowsOf(h) == {r \in RowIds : rows[r] # None /\ rows[r].hash = h}

\* lookupUserIdByAddress, then findByTxHash: any row with the hash will do.
Find(w) ==
  /\ wpc[w] = "find"
  /\ IF RowsOf(wjob[w].hash) = {}
     THEN Goto(w, "create") /\ UNCHANGED <<wrow, wseen>>
     ELSE \E r \in RowsOf(wjob[w].hash) :
            /\ Goto(w, "check")
            /\ wrow' = [wrow EXCEPT ![w] = r]
            /\ wseen' = [wseen EXCEPT ![w] = rows[r].status]
  /\ UNCHANGED <<depth, queueVars, dbVars, lockVars, wjob, wbal>>

Create(w) ==
  /\ wpc[w] = "create"
  /\ \E r \in RowIds :
       /\ rows[r] = None
       /\ rows' = [rows EXCEPT ![r] = [hash |-> wjob[w].hash,
                                       status |-> "pending"]]
       /\ wrow' = [wrow EXCEPT ![w] = r]
  /\ wseen' = [wseen EXCEPT ![w] = "pending"]
  /\ Goto(w, "check")
  /\ UNCHANGED <<depth, queueVars, paid, balance, lockVars, wjob, wbal>>

\* Solana asks for commitment "confirmed" and counts that as enough.
Ready(t) == IF t.chain = "solana" THEN depth[t.hash] # "unseen"
                                  ELSE depth[t.hash] = "deep"

\* Mutant: the status of the receipt is not looked at.
GoCreditAnyReceipt(w) ==
  /\ wpc[w] = "check"
  /\ Ready(wjob[w])
  /\ wseen[w] # "confirmed"
  /\ Goto(w, "lockRow")
  /\ UNCHANGED <<depth, queueVars, dbVars, lockVars, wjob, wrow, wseen, wbal>>

\* The chain's answer is what was asked for, and the row as it was read is
\* not confirmed: the price is fetched and creditUser begins.
GoCredit(w) ==
  /\ wpc[w] = "check"
  /\ Ready(wjob[w])
  /\ wjob[w].hash \notin Reverted \/ wjob[w].chain = "segwit"
  /\ wseen[w] # "confirmed"
  /\ Goto(w, "lockRow")
  /\ UNCHANGED <<depth, queueVars, dbVars, lockVars, wjob, wrow, wseen, wbal>>

\* The handler returns without crediting: the row was confirmed already, or
\* was marked failed, or a Bitcoin transaction is not deep enough yet.
Skip(w) ==
  LET t == wjob[w] IN
  /\ wpc[w] = "check"
  /\ \/ t.chain = "segwit" /\ (~Ready(t) \/ wseen[w] = "confirmed")
     \/ /\ t.chain = "evm" /\ Ready(t)
        /\ wseen[w] = IF t.hash \in Reverted THEN "failed" ELSE "confirmed"
     \/ /\ t.chain = "solana" /\ Ready(t)
        /\ t.hash \notin Reverted /\ wseen[w] = "confirmed"
  /\ Goto(w, "complete")
  /\ UNCHANGED <<depth, queueVars, dbVars, lockVars, wjob, wrow, wseen, wbal>>

\* The handler throws: not ready, or reverted.  An EVM handler means to mark
\* a reverted deposit failed, but passes the hash to a lookup by id, which
\* finds nothing and throws before anything is saved.
NotReady(w) ==
  LET t == wjob[w] IN
  /\ wpc[w] = "check"
  /\ t.chain # "segwit"
  /\ \/ ~Ready(t)
     \/ t.hash \in Reverted /\ (t.chain = "evm" => wseen[w] # "failed")
  /\ Goto(w, "requeue")
  /\ UNCHANGED <<depth, queueVars, dbVars, lockVars, wjob, wrow, wseen, wbal>>

\* Mutant: the status is not checked again under the lock.
LockRowUnchecked(w) ==
  /\ wpc[w] = "lockRow"
  /\ rowLock[wrow[w]] = None
  /\ rowLock' = [rowLock EXCEPT ![wrow[w]] = w]
  /\ Goto(w, "lockUser")
  /\ UNCHANGED <<depth, queueVars, dbVars, userLock, wjob, wrow, wseen, wbal>>

\* creditUser locks the transaction row and returns if it is confirmed.
LockRow(w) ==
  /\ wpc[w] = "lockRow"
  /\ rowLock[wrow[w]] = None
  /\ IF rows[wrow[w]].status = "confirmed"
     THEN Goto(w, "complete") /\ UNCHANGED rowLock
     ELSE Goto(w, "lockUser") /\ rowLock' = [rowLock EXCEPT ![wrow[w]] = w]
  /\ UNCHANGED <<depth, queueVars, dbVars, userLock, wjob, wrow, wseen, wbal>>

LockUser(w) ==
  LET u == wjob[w].user IN
  /\ wpc[w] = "lockUser"
  /\ userLock[u] = None
  /\ userLock' = [userLock EXCEPT ![u] = w]
  /\ wbal' = [wbal EXCEPT ![w] = balance[u]]
  /\ Goto(w, "commit")
  /\ UNCHANGED <<depth, queueVars, dbVars, rowLock, wjob, wrow, wseen>>

\* Mutant: the row is not marked confirmed with the credit.
CommitNoStatus(w) ==
  LET t == wjob[w] IN
  /\ wpc[w] = "commit"
  /\ balance' = [balance EXCEPT ![t.user] = wbal[w] + t.amount]
  /\ paid' = [paid EXCEPT ![wrow[w]] = t]
  /\ Unlock(w)
  /\ Goto(w, "complete")
  /\ UNCHANGED <<depth, queueVars, rows, wjob, wrow, wseen, wbal>>

\* The amount is the payload's.  The USD and the token balance move together
\* and count as one.
Commit(w) ==
  LET t == wjob[w] IN
  /\ wpc[w] = "commit"
  /\ balance' = [balance EXCEPT ![t.user] = wbal[w] + t.amount]
  /\ rows' = [rows EXCEPT ![wrow[w]].status = "confirmed"]
  /\ paid' = [paid EXCEPT ![wrow[w]] = t]
  /\ Unlock(w)
  /\ Goto(w, "complete")
  /\ UNCHANGED <<depth, queueVars, wjob, wrow, wseen, wbal>>

\* Any database, RPC or price call can throw: rollback, then requeueJob.
Throw(w) ==
  /\ wpc[w] \in {"find", "create", "check", "lockRow", "lockUser", "commit"}
  /\ Unlock(w)
  /\ Goto(w, "requeue")
  /\ UNCHANGED <<depth, queueVars, dbVars, wjob, wrow, wseen, wbal>>

\* What BullMQ does when the owner of h's job ends it in state s.  A worker
\* that lost the job changes nothing.
EndJob(w, h, s) ==
  /\ IF owner[h] = w
     THEN /\ jstate' = [jstate EXCEPT ![h] = s]
          /\ owner' = [owner EXCEPT ![h] = None]
          /\ job' = IF s = "none" THEN [job EXCEPT ![h] = None] ELSE job
     ELSE UNCHANGED <<jstate, owner, job>>
  /\ UNCHANGED <<depth, stalled, dbVars, lockVars>>

\* removeOnComplete frees the job id.
Complete(w) ==
  /\ wpc[w] = "complete"
  /\ EndJob(w, wjob[w].hash, "none")
  /\ UNCHANGED lost
  /\ Forget(w)

\* Mutant: a caught error ends the job.
RequeueDrops(w) ==
  /\ wpc[w] = "requeue"
  /\ EndJob(w, wjob[w].hash, "none")
  /\ UNCHANGED lost
  /\ Forget(w)

\* requeueJob: moveToDelayed, called without the worker's token, moves the
\* job if it is active, whoever holds it; it is due again at once.
Requeue(w) ==
  LET h == wjob[w].hash IN
  /\ wpc[w] = "requeue"
  /\ IF jstate[h] = "active"
     THEN /\ jstate' = [jstate EXCEPT ![h] = "waiting"]
          /\ owner' = [owner EXCEPT ![h] = None]
     ELSE UNCHANGED <<jstate, owner>>
  /\ UNCHANGED <<depth, job, stalled, lost, dbVars, lockVars>>
  /\ Forget(w)

\* moveToDelayed fails, the error is only logged and the job completes.
RequeueFails(w) ==
  /\ wpc[w] = "requeue"
  /\ EndJob(w, wjob[w].hash, "none")
  /\ lost' = lost \cup {wjob[w].hash}
  /\ Forget(w)

\* The process dies: its transaction is rolled back and its locals are gone.
\* Its job stays active until the stalled-job check.
Crash(w) ==
  /\ wpc[w] # "idle"
  /\ Unlock(w)
  /\ Forget(w)
  /\ owner' = [h \in Hashes |-> IF owner[h] = w THEN None ELSE owner[h]]
  /\ UNCHANGED <<depth, job, jstate, stalled, lost, dbVars>>

-----------------------------------------------------------------------------
Work(w) ==
  \/ Find(w)     \/ Create(w)  \/ GoCredit(w) \/ Skip(w) \/ NotReady(w)
  \/ LockRow(w)  \/ LockUser(w) \/ Commit(w)  \/ Complete(w) \/ Requeue(w)

Next ==
  \/ \E h \in Hashes : Confirm(h) \/ Stall(h)
  \/ \E t \in Transfers : Enqueue(t)
  \/ \E w \in Workers, h \in Hashes : Take(w, h)
  \/ \E w \in Workers : Work(w) \/ Throw(w) \/ RequeueFails(w) \/ Crash(w)

Spec == Init /\ [][Next]_vars

(***************************************************************************)
(* Chains go on, the queue hands out every waiting job and checks for jobs *)
(* nobody works on, handlers that can go on do, and outages end: from some *)
(* point on no call fails and no process dies (some Throw and Crash steps  *)
(* are also steps of Work, and stay).  Requeues may fail and jobs may be   *)
(* taken from a living worker for ever.                                    *)
(***************************************************************************)
OutagesEnd == <>[][\A w \in Workers : Throw(w) \/ Crash(w) => Work(w)]_vars

FairSpec ==
  /\ Spec
  /\ \A h \in Hashes : /\ WF_vars(Confirm(h))
                       /\ WF_vars(owner[h] = None /\ Stall(h))
                       /\ SF_vars(\E w \in Workers : Take(w, h))
  /\ \A w \in Workers : WF_vars(Work(w))
  /\ OutagesEnd

-----------------------------------------------------------------------------
\* A row is confirmed exactly when it has been paid: creditUser sets the
\* status and the balances in one transaction, whatever crashes.
PaidIffConfirmed ==
  \A r \in RowIds :
    paid[r] # None <=> rows[r] # None /\ rows[r].status = "confirmed"

\* A row is paid only for a transfer of its own hash that the chain has
\* executed and confirmed as deep as its handler demands.
NeverPaidEarly ==
  \A r \in RowIds : paid[r] # None =>
    /\ rows[r].hash = paid[r].hash
    /\ Ready(paid[r]) /\ paid[r].hash \notin Reverted

\* One hash gets a second row, and so perhaps a second credit, only if its
\* job was taken from a worker that went on: the queue's job ids keep two
\* handlers of a hash apart, the find-or-create of the handler does not.
SecondRowNeedsStall ==
  \A r, s \in RowIds :
    rows[r] # None /\ rows[s] # None /\ rows[r].hash = rows[s].hash =>
      r = s \/ rows[r].hash \in stalled

\* Rows, payments and balances follow the abstract ledger: whatever workers
\* overlap, crash or are overtaken, every credit pays a pending row, once,
\* and no credit overwrites another.
Ledger == INSTANCE DepositLedger
            WITH rows <- rows, paid <- paid, balance <- balance
ImplementsLedger == Ledger!LedgerSpec

\* An enqueued EVM or Solana deposit whose chain transaction succeeds is
\* credited at last, unless BullMQ gives the job up or a requeue fails.
EventuallyCredited ==
  \A t \in Transfers :
    (t.chain # "segwit" /\ t.hash \notin Reverted /\ job[t.hash] = t)
    ~> \/ \E r \in RowsOf(t.hash) : rows[r].status = "confirmed"
       \/ jstate[t.hash] = "failed" \/ t.hash \in lost
=============================================================================
