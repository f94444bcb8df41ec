--------------------------- MODULE DepositsProofs ---------------------------
(***************************************************************************)
(* The properties of Deposits for any number of users, transfers, workers  *)
(* and rows.  For what is paid it does not matter which worker has which   *)
(* job: what keeps a payment and its row together is the two row locks     *)
(* that creditUser takes, so DInv says what a worker that holds them       *)
(* knows: the row is still pending and the balance is the one it read.     *)
(* That a hash has one row rests on the queue alone.                       *)
(***************************************************************************)
EXTENDS Deposits, SumProofs, TLAPS

\* Where a handler has found or created its row.
HasRow == {"check", "lockRow", "lockUser", "commit"}

\* That row keeps the hash of the job.
RowOfJob ==
  \A w \in Workers : wpc[w] \in HasRow =>
    /\ wjob[w] \in Transfers /\ wrow[w] \in RowIds
    /\ rows[wrow[w]] \in RowType
    /\ rows[wrow[w]].hash = wjob[w].hash

\* No row is ever marked failed: the handler that means to do so throws.
NeverFailed ==
  \A r \in RowIds : rows[r] # None => rows[r].status # "failed"

\* creditUser past its first lock: the row is locked and not confirmed.
RowLocked ==
  \A w \in Workers : wpc[w] \in {"lockUser", "commit"} =>
    /\ rowLock[wrow[w]] = w
    /\ rows[wrow[w]].status # "confirmed"

\* creditUser past its second lock: the balance is the one it read.
UserLocked ==
  \A w \in Workers : wpc[w] = "commit" =>
    /\ userLock[wjob[w].user] = w
    /\ wbal[w] = balance[wjob[w].user]

\* A job in the queue has its payload.
JobPresent == \A h \in Hashes : jstate[h] # "none" => job[h] # None

DInv == /\ TypeOK /\ JobPresent /\ RowOfJob /\ NeverFailed
        /\ RowLocked /\ UserLocked /\ PaidIffConfirmed

LEMMA TransferFacts ==
  ASSUME NEW t \in Transfers
  PROVE  /\ t.hash \in Hashes /\ t.user \in Users /\ t.amount \in Nat
         /\ t # None
  BY DepositAssumption DEF TransferType

-----------------------------------------------------------------------------
LEMMA InitDInv == Init => DInv
<1> SUFFICES ASSUME Init PROVE DInv
  OBVIOUS
<1> USE DEF Init
<1>1. TypeOK
  BY DEF TypeOK, WorkerOK, WPCs, Statuses
<1>2. RowOfJob /\ RowLocked /\ UserLocked
  BY DEF RowOfJob, RowLocked, UserLocked, HasRow
<1>3. NeverFailed /\ PaidIffConfirmed
  BY DEF NeverFailed, PaidIffConfirmed
<1>4. JobPresent
  BY DEF JobPresent
<1> QED BY <1>1, <1>2, <1>3, <1>4 DEF DInv

-----------------------------------------------------------------------------
(* The steps                                                               *)

\* What a step may make of the queue and the chains.
QueueStep ==
  /\ depth' \in [Hashes -> {"unseen", "shallow", "deep"}]
  /\ job' \in [Hashes -> Transfers \cup {None}]
  /\ jstate' \in [Hashes -> {"none", "waiting", "active", "failed"}]
  /\ owner' \in [Hashes -> Workers \cup {None}]
  /\ stalled' \subseteq Hashes /\ lost' \subseteq Hashes
  /\ JobPresent'

LEMMA OutsideSteps ==
  ASSUME DInv,
         \/ UNCHANGED vars
         \/ \E h \in Hashes : Confirm(h) \/ Stall(h)
         \/ \E t \in Transfers : Enqueue(t)
  PROVE  QueueStep /\ UNCHANGED <<dbVars, lockVars, workerVars>>
<1> USE DEF DInv, QueueStep, TypeOK, JobPresent
<1>1. CASE UNCHANGED vars
  BY <1>1 DEF vars, queueVars
<1>2. ASSUME NEW h \in Hashes, Confirm(h)
      PROVE  QueueStep /\ UNCHANGED <<dbVars, lockVars, workerVars>>
  BY <1>2 DEF Confirm, queueVars
<1>3. ASSUME NEW h \in Hashes, Stall(h)
      PROVE  QueueStep /\ UNCHANGED <<dbVars, lockVars, workerVars>>
  BY <1>3 DEF Stall
<1>4. ASSUME NEW t \in Transfers, Enqueue(t)
      PROVE  QueueStep /\ UNCHANGED <<dbVars, lockVars, workerVars>>
  BY <1>4, TransferFacts DEF Enqueue
<1> QED BY <1>1, <1>2, <1>3, <1>4

LEMMA OutsideKeeps ==
  ASSUME DInv, QueueStep, UNCHANGED <<dbVars, lockVars, workerVars>>
  PROVE  DInv'
<1> USE DEF DInv, dbVars, lockVars, workerVars
<1>1. (TypeOK /\ JobPresent)'
  BY DEF TypeOK, QueueStep, WorkerOK
<1>2. (RowOfJob /\ RowLocked /\ UserLocked)'
  BY DEF RowOfJob, RowLocked, UserLocked
<1>3. (NeverFailed /\ PaidIffConfirmed)'
  BY DEF NeverFailed, PaidIffConfirmed
<1> QED BY <1>1, <1>2, <1>3

\* A worker takes a job, or goes on without a change of the database.
Moves(w) ==
  /\ \E l \in WPCs \ {"idle", "lockUser", "commit"} : Goto(w, l)
  /\ wjob' \in [Workers -> Transfers \cup {None}] /\ wjob'[w] # None
  /\ \A q \in Workers \ {w} : wjob'[q] = wjob[q] /\ wrow'[q] = wrow[q]
  /\ wrow' \in [Workers -> RowIds \cup {None}]
  /\ wpc'[w] \in HasRow => /\ wrow'[w] \in RowIds
                           /\ rows[wrow'[w]] \in RowType
                           /\ rows[wrow'[w]].hash = wjob'[w].hash
  /\ wseen' \in [Workers -> Statuses]
  /\ QueueStep
  /\ UNCHANGED <<dbVars, lockVars, wbal>>

LEMMA MoveSteps ==
  ASSUME DInv, NEW w \in Workers,
         \/ \E h \in Hashes : Take(w, h)
         \/ Find(w) \/ GoCredit(w) \/ Skip(w) \/ NotReady(w)
  PROVE  Moves(w)
<1> USE DEF DInv, Moves, Goto
<1>1. UNCHANGED <<depth, queueVars>> => QueueStep
  BY DEF QueueStep, queueVars, TypeOK, JobPresent
<1>2. ASSUME NEW h \in Hashes, Take(w, h) PROVE Moves(w)
  <2>1. QueueStep /\ job[h] \in Transfers
    BY <1>2 DEF Take, QueueStep, TypeOK, JobPresent
  <2> QED BY <1>2, <2>1, TransferFacts DEF Take, TypeOK, WPCs, HasRow
<1>3. ASSUME Find(w) PROVE Moves(w)
  <2>1. wjob[w] \in Transfers
    BY <1>3 DEF Find, TypeOK, WorkerOK
  <2>2. CASE RowsOf(wjob[w].hash) = {}
    BY <1>1, <1>3, <2>1, <2>2, TransferFacts DEF Find, TypeOK, WPCs, HasRow
  <2>3. CASE RowsOf(wjob[w].hash) # {}
    <3>1. PICK r \in RowsOf(wjob[w].hash) :
            /\ Goto(w, "check")
            /\ wrow' = [wrow EXCEPT ![w] = r]
            /\ wseen' = [wseen EXCEPT ![w] = rows[r].status]
      BY <1>3, <2>3 DEF Find
    <3>2. r \in RowIds /\ rows[r] \in RowType /\ rows[r].hash = wjob[w].hash
      BY DEF RowsOf, TypeOK
    <3> QED BY <1>1, <1>3, <2>1, <3>1, <3>2, TransferFacts
            DEF Find, TypeOK, WPCs, RowType
  <2> QED BY <2>2, <2>3
<1>4. ASSUME wpc[w] = "check", UNCHANGED <<depth, queueVars, dbVars, lockVars,
                                           wjob, wrow, wseen, wbal>>,
             NEW l \in {"lockRow", "complete", "requeue"}, Goto(w, l)
      PROVE  Moves(w)
  BY <1>1, <1>4, TransferFacts DEF TypeOK, WPCs, HasRow, RowOfJob
<1>5. GoCredit(w) => Moves(w)
  BY <1>4 DEF GoCredit
<1>6. Skip(w) => Moves(w)
  BY <1>4 DEF Skip
<1>7. NotReady(w) => Moves(w)
  BY <1>4 DEF NotReady
<1> QED BY <1>2, <1>3, <1>5, <1>6, <1>7

LEMMA MovesKeeps ==
  ASSUME DInv, NEW w \in Workers, Moves(w)
  PROVE  DInv'
<1> USE DEF DInv, Moves, Goto, dbVars, lockVars
<1>1. \A q \in Workers \ {w} : wpc'[q] = wpc[q]
  BY DEF TypeOK
<1>2. RowOfJob'
  <2>1. wpc'[w] \in HasRow => wjob'[w] \in Transfers
    BY DEF TypeOK
  <2> QED BY <1>1, <2>1 DEF RowOfJob
<1>3. WorkerOK'
  <2>1. wpc'[w] # "idle"
    BY DEF TypeOK
  <2>2. \A q \in Workers : wpc'[q] = "idle" <=> wjob'[q] = None
    BY <1>1, <2>1 DEF TypeOK, WorkerOK
  <2> QED BY <1>2, <2>2, DepositAssumption DEF RowOfJob, HasRow, WorkerOK
<1>4. (TypeOK /\ JobPresent)'
  BY <1>3 DEF TypeOK, QueueStep
<1>5. (RowLocked /\ UserLocked)'
  BY <1>1 DEF TypeOK, RowLocked, UserLocked
<1>6. (NeverFailed /\ PaidIffConfirmed)'
  BY DEF NeverFailed, PaidIffConfirmed
<1> QED BY <1>2, <1>4, <1>5, <1>6

LEMMA CreateKeeps ==
  ASSUME DInv, NEW w \in Workers, Create(w)
  PROVE  DInv'
<1> USE DEF DInv, Create, Goto, lockVars
<1>1. wjob[w] \in Transfers /\ wjob[w].hash \in Hashes
  BY TransferFacts DEF TypeOK, WorkerOK
<1>2. PICK r \in RowIds :
        /\ rows[r] = None
        /\ rows' = [rows EXCEPT ![r] = [hash |-> wjob[w].hash,
                                        status |-> "pending"]]
        /\ wrow' = [wrow EXCEPT ![w] = r]
  OBVIOUS
<1>3. /\ rows'[r] = [hash |-> wjob[w].hash, status |-> "pending"]
      /\ rows'[r] \in RowType /\ rows'[r] # None
      /\ \A s \in RowIds \ {r} : rows'[s] = rows[s]
  BY <1>1, <1>2, DepositAssumption DEF TypeOK, RowType, Statuses
<1>4. \A q \in Workers \ {w} :
        /\ wpc'[q] = wpc[q] /\ wrow'[q] = wrow[q]
        /\ wpc[q] \in HasRow => wrow[q] # r
  BY <1>2, DepositAssumption DEF TypeOK, RowOfJob
<1>5. wpc'[w] = "check" /\ wrow'[w] = r
  BY <1>2 DEF TypeOK
<1>6. RowOfJob'
  BY <1>1, <1>3, <1>4, <1>5 DEF RowOfJob
<1>7. WorkerOK'
  <2>1. \A q \in Workers : wpc'[q] = "idle" <=> wjob'[q] = None
    BY <1>4, <1>5 DEF TypeOK, WorkerOK
  <2> QED BY <1>6, <2>1, DepositAssumption DEF RowOfJob, HasRow, WorkerOK
<1>8. TypeOK'
  BY <1>2, <1>3, <1>7 DEF TypeOK, WPCs, Statuses, queueVars
<1>9. (JobPresent /\ RowLocked /\ UserLocked)'
  BY <1>3, <1>4, <1>5
     DEF JobPresent, RowLocked, UserLocked, RowOfJob, HasRow, queueVars
<1>10. (NeverFailed /\ PaidIffConfirmed)'
  BY <1>2, <1>3 DEF NeverFailed, PaidIffConfirmed
<1> QED BY <1>6, <1>8, <1>9, <1>10

LEMMA LockRowKeeps ==
  ASSUME DInv, NEW w \in Workers, LockRow(w)
  PROVE  DInv'
<1> USE DEF DInv, LockRow, Goto, dbVars, queueVars
<1>1. \A q \in Workers \ {w} : wpc'[q] = wpc[q]
  BY DEF TypeOK
<1>2. wpc'[w] \in {"complete", "lockUser"}
  BY DEF TypeOK
<1>3. wrow[w] \in RowIds
  BY DEF RowOfJob, HasRow
<1>4. TypeOK'
  BY <1>1, <1>2, <1>3 DEF TypeOK, WorkerOK, WPCs
<1>5. (JobPresent /\ RowOfJob /\ NeverFailed /\ PaidIffConfirmed)'
  BY <1>1, <1>2
     DEF JobPresent, RowOfJob, HasRow, NeverFailed, PaidIffConfirmed
<1>6. RowLocked'
  <2>1. ASSUME NEW q \in Workers \ {w}, wpc[q] \in {"lockUser", "commit"}
        PROVE  rowLock'[wrow[q]] = rowLock[wrow[q]]
    BY <1>3, <2>1, DepositAssumption
       DEF TypeOK, RowLocked, RowOfJob, HasRow
  <2> QED BY <1>1, <1>2, <1>3, <2>1 DEF TypeOK, RowLocked
<1>7. UserLocked'
  BY <1>1, <1>2 DEF UserLocked
<1> QED BY <1>4, <1>5, <1>6, <1>7

LEMMA LockUserKeeps ==
  ASSUME DInv, NEW w \in Workers, LockUser(w)
  PROVE  DInv'
<1> USE DEF DInv, LockUser, Goto, dbVars, queueVars
<1>1. \A q \in Workers \ {w} : wpc'[q] = wpc[q] /\ wbal'[q] = wbal[q]
  BY DEF TypeOK
<1>2. wpc'[w] = "commit" /\ wpc[w] = "lockUser"
  BY DEF TypeOK
<1>3. wjob[w].user \in Users
  BY TransferFacts DEF RowOfJob, HasRow
<1>4. TypeOK'
  BY <1>1, <1>2, <1>3 DEF TypeOK, WorkerOK, WPCs
<1>5. (JobPresent /\ RowOfJob /\ NeverFailed /\ PaidIffConfirmed)'
  BY <1>1, <1>2
     DEF JobPresent, RowOfJob, HasRow, NeverFailed, PaidIffConfirmed
<1>6. RowLocked'
  BY <1>1, <1>2 DEF RowLocked
<1>7. UserLocked'
  <2>1. ASSUME NEW q \in Workers \ {w}, wpc[q] = "commit"
        PROVE  userLock'[wjob[q].user] = userLock[wjob[q].user]
    BY <1>3, <2>1, TransferFacts, DepositAssumption
       DEF TypeOK, UserLocked, RowOfJob, HasRow
  <2> QED BY <1>1, <1>2, <1>3, <2>1 DEF TypeOK, UserLocked
<1> QED BY <1>4, <1>5, <1>6, <1>7

\* Other workers past their locks are on other rows and other users.
LEMMA LocksApart ==
  ASSUME DInv, NEW w \in Workers, NEW q \in Workers \ {w},
         wpc[w] = "commit", wpc[q] \in {"lockUser", "commit"}
  PROVE  /\ wrow[q] # wrow[w]
         /\ wpc[q] = "commit" => wjob[q].user # wjob[w].user
  BY DEF DInv, RowLocked, UserLocked

\* The row was pending, the balance the one read: the step is a Credit.
LEMMA CommitCredits ==
  ASSUME DInv, NEW w \in Workers, Commit(w)
  PROVE  /\ wjob[w] \in Transfers /\ wrow[w] \in RowIds
         /\ rows[wrow[w]] = [hash |-> wjob[w].hash, status |-> "pending"]
         /\ paid[wrow[w]] = None
         /\ balance' = [balance EXCEPT ![wjob[w].user] = @ + wjob[w].amount]
<1>1. /\ wjob[w] \in Transfers /\ wrow[w] \in RowIds
      /\ rows[wrow[w]] \in RowType /\ rows[wrow[w]].hash = wjob[w].hash
      /\ rows[wrow[w]].status # "confirmed"
      /\ wbal[w] = balance[wjob[w].user]
  BY DEF Commit, DInv, RowOfJob, HasRow, RowLocked, UserLocked
<1>2. rows[wrow[w]].status = "pending"
  BY <1>1, DepositAssumption DEF DInv, NeverFailed, RowType, Statuses
<1>3. rows[wrow[w]] = [hash |-> wjob[w].hash, status |-> "pending"]
  BY <1>1, <1>2 DEF RowType
<1>4. paid[wrow[w]] = None
  BY <1>1 DEF DInv, PaidIffConfirmed
<1> QED BY <1>1, <1>3, <1>4 DEF Commit

LEMMA CommitKeeps ==
  ASSUME DInv, NEW w \in Workers, Commit(w)
  PROVE  DInv'
<1> DEFINE t == wjob[w]
           r == wrow[w]
<1> USE DEF Goto, queueVars
<1>1. /\ t \in Transfers /\ r \in RowIds /\ t.user \in Users /\ t.hash \in Hashes
      /\ t.amount \in Nat /\ t # None
      /\ balance' = [balance EXCEPT ![t.user] = @ + t.amount]
      /\ wpc[w] = "commit"
  BY CommitCredits, TransferFacts DEF Commit
<1>2. /\ rows'[r] = [hash |-> t.hash, status |-> "confirmed"]
      /\ rows'[r] \in RowType /\ rows'[r] # None
      /\ \A s \in RowIds \ {r} : rows'[s] = rows[s]
      /\ rows' \in [RowIds -> RowType \cup {None}]
  <2>1. /\ rows \in [RowIds -> RowType \cup {None}]
        /\ rows' = [rows EXCEPT ![r].status = "confirmed"]
        /\ rows[r] = [hash |-> t.hash, status |-> "pending"]
    BY CommitCredits DEF DInv, TypeOK, Commit
  <2>2. rows' = [rows EXCEPT ![r] = [hash |-> t.hash, status |-> "confirmed"]]
    <3>1. [rows[r] EXCEPT !.status = "confirmed"]
            = [hash |-> t.hash, status |-> "confirmed"]
      BY <2>1
    <3>2. rows' = [rows EXCEPT ![r] = [rows[r] EXCEPT !.status = "confirmed"]]
      BY <2>1
    <3> QED BY <3>1, <3>2
  <2>3. [hash |-> t.hash, status |-> "confirmed"] \in RowType
    BY <1>1 DEF RowType, Statuses
  <2> QED BY <1>1, <2>1, <2>2, <2>3, DepositAssumption
<1>3. /\ wpc'[w] = "complete"
      /\ \A q \in Workers \ {w} : wpc'[q] = wpc[q]
      /\ UNCHANGED <<wjob, wrow, wbal>>
  BY DEF DInv, TypeOK, Commit
<1>4. \A q \in Workers \ {w} :
        /\ \A s \in RowIds : rowLock[s] = q => rowLock'[s] = q
        /\ \A u \in Users : userLock[u] = q => userLock'[u] = q
  BY DEF Commit, Unlock
<1>5. RowOfJob'
  BY <1>1, <1>2, <1>3 DEF DInv, RowOfJob, HasRow
<1>6. WorkerOK'
  <2>1. \A q \in Workers : wpc'[q] = "idle" <=> wjob'[q] = None
    BY <1>1, <1>3 DEF DInv, TypeOK, WorkerOK
  <2> QED BY <1>5, <2>1, DepositAssumption DEF RowOfJob, HasRow, WorkerOK
<1>7. TypeOK'
  <2>1. balance' \in [Users -> Nat]
    BY <1>1 DEF DInv, TypeOK
  <2>2. paid' \in [RowIds -> Transfers \cup {None}]
    BY <1>1 DEF DInv, TypeOK, Commit
  <2>3. /\ rowLock' \in [RowIds -> Workers \cup {None}]
        /\ userLock' \in [Users -> Workers \cup {None}]
    BY DEF DInv, TypeOK, Commit, Unlock
  <2>4. wpc' \in [Workers -> WPCs]
    BY DEF DInv, TypeOK, Commit, WPCs
  <2> QED BY <1>2, <1>6, <2>1, <2>2, <2>3, <2>4 DEF DInv, TypeOK, Commit
<1>8. RowLocked'
  <2>1. ASSUME NEW q \in Workers, wpc'[q] \in {"lockUser", "commit"}
        PROVE  rowLock'[wrow'[q]] = q /\ rows'[wrow'[q]].status # "confirmed"
    <3>1. q # w /\ wpc[q] \in {"lockUser", "commit"} /\ wrow'[q] = wrow[q]
      BY <1>3, <2>1
    <3>2. wrow[q] \in RowIds \ {r}
      BY <1>1, <3>1, LocksApart DEF DInv, RowOfJob, HasRow
    <3> QED BY <1>2, <1>4, <3>1, <3>2 DEF DInv, RowLocked
  <2> QED BY <2>1 DEF RowLocked
<1>9. UserLocked'
  <2>1. ASSUME NEW q \in Workers, wpc'[q] = "commit"
        PROVE  /\ userLock'[wjob'[q].user] = q
               /\ wbal'[q] = balance'[wjob'[q].user]
    <3>1. q # w /\ wpc[q] = "commit" /\ wjob'[q] = wjob[q] /\ wbal'[q] = wbal[q]
      BY <1>3, <2>1
    <3>2. wjob[q].user \in Users \ {t.user}
      BY <1>1, <3>1, LocksApart, TransferFacts DEF DInv, RowOfJob, HasRow
    <3> QED BY <1>1, <1>4, <3>1, <3>2 DEF DInv, UserLocked, TypeOK
  <2> QED BY <2>1 DEF UserLocked
<1>10. NeverFailed'
  BY <1>2 DEF DInv, NeverFailed
<1>11. PaidIffConfirmed'
  BY <1>1, <1>2 DEF DInv, PaidIffConfirmed, Commit, TypeOK
<1>12. JobPresent'
  BY DEF DInv, JobPresent, Commit
<1> QED BY <1>5, <1>7, <1>8, <1>9, <1>10, <1>11, <1>12 DEF DInv

\* A worker gives up its transaction or its job: the others keep their locks.
Stops(w) ==
  /\ QueueStep /\ UNCHANGED dbVars
  /\ rowLock' \in [RowIds -> Workers \cup {None}]
  /\ userLock' \in [Users -> Workers \cup {None}]
  /\ \A q \in Workers \ {w} :
       /\ wpc'[q] = wpc[q] /\ wjob'[q] = wjob[q]
       /\ wrow'[q] = wrow[q] /\ wbal'[q] = wbal[q]
       /\ \A r \in RowIds : rowLock[r] = q => rowLock'[r] = q
       /\ \A u \in Users : userLock[u] = q => userLock'[u] = q
  /\ wpc' \in [Workers -> WPCs] /\ wpc'[w] \in {"idle", "requeue"}
  /\ wpc'[w] = "idle" <=> wjob'[w] = None
  /\ wjob' \in [Workers -> Transfers \cup {None}]
  /\ wrow' \in [Workers -> RowIds \cup {None}]
  /\ wseen' \in [Workers -> Statuses] /\ wbal' \in [Workers -> Nat]

LEMMA StopSteps ==
  ASSUME DInv, NEW w \in Workers,
         \/ Throw(w) \/ Complete(w) \/ Requeue(w) \/ RequeueFails(w) \/ Crash(w)
  PROVE  Stops(w)
<1>1. UNCHANGED lockVars \/ Unlock(w) =>
        /\ rowLock' \in [RowIds -> Workers \cup {None}]
        /\ userLock' \in [Users -> Workers \cup {None}]
        /\ \A q \in Workers \ {w} :
             /\ \A r \in RowIds : rowLock[r] = q => rowLock'[r] = q
             /\ \A u \in Users : userLock[u] = q => userLock'[u] = q
  BY DEF Unlock, lockVars, DInv, TypeOK
<1>2. ASSUME Throw(w) PROVE Stops(w)
  <2>1. QueueStep
    BY <1>2 DEF Throw, QueueStep, queueVars, DInv, TypeOK, JobPresent
  <2>2. wjob[w] # None
    BY <1>2 DEF Throw, DInv, TypeOK, WorkerOK
  <2> QED BY <1>1, <1>2, <2>1, <2>2
          DEF Throw, Stops, Goto, DInv, TypeOK, WPCs
<1>3. ASSUME Forget(w), UNCHANGED lockVars \/ Unlock(w), QueueStep,
             UNCHANGED dbVars
      PROVE  Stops(w)
  BY <1>1, <1>3 DEF Stops, Forget, Goto, DInv, TypeOK, WPCs, Statuses
<1>4. ASSUME NEW h \in Hashes, EndJob(w, h, "none"),
             lost' \subseteq Hashes
      PROVE  QueueStep /\ UNCHANGED <<dbVars, lockVars>>
  BY <1>4 DEF EndJob, QueueStep, DInv, TypeOK, JobPresent
<1>5. wpc[w] # "idle" => wjob[w].hash \in Hashes
  BY TransferFacts DEF DInv, TypeOK, WorkerOK
<1>6. Complete(w) \/ RequeueFails(w) => Stops(w)
  BY <1>3, <1>4, <1>5 DEF Complete, RequeueFails, DInv, TypeOK
<1>7. ASSUME Requeue(w) PROVE Stops(w)
  <2>1. QueueStep
    BY <1>5, <1>7 DEF Requeue, QueueStep, DInv, TypeOK, JobPresent
  <2> QED BY <1>3, <1>7, <2>1 DEF Requeue
<1>8. ASSUME Crash(w) PROVE Stops(w)
  <2>1. QueueStep
    BY <1>8 DEF Crash, QueueStep, DInv, TypeOK, JobPresent
  <2> QED BY <1>3, <1>8, <2>1 DEF Crash
<1> QED BY <1>2, <1>6, <1>7, <1>8

LEMMA StopsKeeps ==
  ASSUME DInv, NEW w \in Workers, Stops(w)
  PROVE  DInv'
<1> USE DEF dbVars
<1>1. RowOfJob'
  BY DEF DInv, Stops, RowOfJob, HasRow
<1>2. WorkerOK'
  <2>1. \A q \in Workers : wpc'[q] = "idle" <=> wjob'[q] = None
    BY DEF DInv, Stops, TypeOK, WorkerOK
  <2> QED BY <1>1, <2>1, DepositAssumption DEF RowOfJob, HasRow, WorkerOK
<1>3. (TypeOK /\ JobPresent)'
  BY <1>2 DEF DInv, Stops, TypeOK, QueueStep
<1>4. RowLocked'
  BY DEF DInv, Stops, RowLocked, RowOfJob, HasRow
<1>5. UserLocked'
  BY TransferFacts DEF DInv, Stops, UserLocked, RowOfJob, HasRow
<1>6. (NeverFailed /\ PaidIffConfirmed)'
  BY DEF DInv, Stops, NeverFailed, PaidIffConfirmed
<1> QED BY <1>1, <1>3, <1>4, <1>5, <1>6 DEF DInv

-----------------------------------------------------------------------------
(* The theorems                                                            *)

LEMMA StepCases ==
  ASSUME DInv, [Next]_vars
  PROVE  \/ QueueStep /\ UNCHANGED <<dbVars, lockVars, workerVars>>
         \/ \E w \in Workers :
              \/ Moves(w) \/ Stops(w)
              \/ Create(w) \/ LockRow(w) \/ LockUser(w) \/ Commit(w)
<1>1. CASE UNCHANGED vars
  BY <1>1, OutsideSteps
<1>2. CASE \E h \in Hashes : Confirm(h) \/ Stall(h)
  BY <1>2, OutsideSteps
<1>3. CASE \E t \in Transfers : Enqueue(t)
  BY <1>3, OutsideSteps
<1>4. CASE \E w \in Workers, h \in Hashes : Take(w, h)
  BY <1>4, MoveSteps
<1>5. CASE \E w \in Workers : Work(w) \/ Throw(w) \/ RequeueFails(w) \/ Crash(w)
  BY <1>5, MoveSteps, StopSteps DEF Work
<1> QED BY <1>1, <1>2, <1>3, <1>4, <1>5 DEF Next

LEMMA StepDInv == DInv /\ [Next]_vars => DInv'
  BY StepCases, OutsideKeeps, MovesKeeps, StopsKeeps, CreateKeeps,
     LockRowKeeps, LockUserKeeps, CommitKeeps

LEMMA Invariance == Spec => []DInv
  BY InitDInv, StepDInv, PTL DEF Spec

\* Every variable keeps its type and a busy worker has a job and its row.
THEOREM TypeCorrect == Spec => []TypeOK
  BY Invariance, PTL DEF DInv

\* A row is confirmed exactly when it has been paid, whatever workers
\* overlap, crash or lose their jobs.
THEOREM PaidExactlyConfirmed == Spec => []PaidIffConfirmed
  BY Invariance, PTL DEF DInv

LEMMA StepRefines ==
  ASSUME DInv, [Next]_vars
  PROVE  [Ledger!LedgerNext]_(Ledger!ledgerVars)
<1> USE DEF Ledger!ledgerVars, dbVars
<1>1. ASSUME NEW w \in Workers, Create(w) PROVE Ledger!LedgerNext
  <2>1. wjob[w].hash \in Hashes
    BY <1>1, TransferFacts DEF Create, DInv, TypeOK, WorkerOK
  <2> QED BY <1>1, <2>1 DEF Create, Ledger!LedgerNext, Ledger!NewRow
<1>2. ASSUME NEW w \in Workers, Commit(w) PROVE Ledger!LedgerNext
  <2>1. Ledger!Credit(wrow[w], wjob[w])
    BY <1>2, CommitCredits DEF Commit, Ledger!Credit
  <2> QED BY <1>2, <2>1, CommitCredits DEF Ledger!LedgerNext
<1>3. ASSUME NEW w \in Workers,
             Moves(w) \/ Stops(w) \/ LockRow(w) \/ LockUser(w)
      PROVE  UNCHANGED Ledger!ledgerVars
  BY <1>3 DEF Moves, Stops, LockRow, LockUser
<1> QED BY StepCases, <1>1, <1>2, <1>3

\* The pipeline implements the abstract deposit ledger: rows are created
\* pending, each is paid at most once, and the step that pays it adds the
\* amount to its user's balance and overwrites no other credit.
THEOREM Refinement == Spec => ImplementsLedger
<1>1. Init => Ledger!LedgerInit
  BY DEF Init, Ledger!LedgerInit
<1> QED BY <1>1, Invariance, StepRefines, PTL
        DEF Spec, ImplementsLedger, Ledger!LedgerSpec

-----------------------------------------------------------------------------
(* What is paid                                                            *)

\* creditUser begins only for a transfer that the chain has executed and
\* confirmed, and a chain takes nothing back.
Sound(t) == Ready(t) /\ t.hash \notin Reverted

Crediting ==
  \A w \in Workers : wpc[w] \in {"lockRow", "lockUser", "commit"} => Sound(wjob[w])

PaidInv == Crediting /\ NeverPaidEarly

LEMMA SoundStays ==
  ASSUME DInv, [Next]_vars, NEW t \in Transfers, Sound(t)
  PROVE  Sound(t)'
<1>1. depth' = depth \/ \E h \in Hashes : Confirm(h)
  BY DEF Next, Work, vars, queueVars, dbVars, lockVars, workerVars, Stall, Enqueue,
         Take, Find, Create, GoCredit, Skip, NotReady, LockRow, LockUser, Commit,
         Complete, Requeue, Throw, RequeueFails, Crash, EndJob
<1>2. t.hash \in Hashes
  BY TransferFacts
<1> QED BY <1>1, <1>2 DEF Sound, Ready, Confirm, DInv, TypeOK

\* A worker comes to creditUser only through GoCredit.
LEMMA CreditEntry ==
  ASSUME DInv, [Next]_vars, NEW w \in Workers,
         wpc'[w] \in {"lockRow", "lockUser", "commit"}
  PROVE  /\ wjob'[w] = wjob[w]
         /\ wpc[w] \in {"lockRow", "lockUser", "commit"} \/ GoCredit(w)
<1> USE DEF DInv, TypeOK, Goto, workerVars
<1>1. ASSUME NEW q \in Workers, Work(q)
      PROVE  /\ wjob'[w] = wjob[w]
             /\ wpc[w] \in {"lockRow", "lockUser", "commit"} \/ GoCredit(w)
  <2>1. CASE GoCredit(q)
    BY <2>1 DEF GoCredit
  <2>2. CASE Find(q) \/ Create(q) \/ Skip(q) \/ NotReady(q)
    BY <2>2 DEF Find, Create, Skip, NotReady
  <2>3. CASE LockRow(q) \/ LockUser(q) \/ Commit(q)
    BY <2>3 DEF LockRow, LockUser, Commit
  <2>4. CASE Complete(q) \/ Requeue(q)
    BY <2>4 DEF Complete, Requeue, Forget
  <2> QED BY <1>1, <2>1, <2>2, <2>3, <2>4 DEF Work
<1>2. ASSUME NEW q \in Workers, Throw(q) \/ RequeueFails(q) \/ Crash(q)
      PROVE  wjob'[w] = wjob[w] /\ wpc'[w] = wpc[w]
  BY <1>2 DEF Throw, RequeueFails, Crash, Forget
<1>3. ASSUME NEW q \in Workers, NEW h \in Hashes, Take(q, h)
      PROVE  wjob'[w] = wjob[w] /\ wpc'[w] = wpc[w]
  BY <1>3 DEF Take
<1>4. ASSUME \/ UNCHANGED vars \/ \E h \in Hashes : Confirm(h) \/ Stall(h)
             \/ \E t \in Transfers : Enqueue(t)
      PROVE  wjob' = wjob /\ wpc' = wpc
  BY <1>4 DEF vars, Confirm, Stall, Enqueue
<1> QED BY <1>1, <1>2, <1>3, <1>4 DEF Next

\* Payments are made by Commit alone, and a row keeps its hash.
LEMMA RowsKept ==
  ASSUME DInv, [Next]_vars, NEW r \in RowIds
  PROVE  /\ rows[r] # None => rows'[r] # None /\ rows'[r].hash = rows[r].hash
         /\ \/ paid'[r] = paid[r]
            \/ \E w \in Workers : /\ wpc[w] = "commit" /\ wjob[w] \in Transfers
                                  /\ wrow[w] = r /\ paid'[r] = wjob[w]
                                  /\ rows'[r].hash = wjob[w].hash
<1>1. CASE UNCHANGED dbVars
  BY <1>1 DEF dbVars
<1>2. ASSUME NEW w \in Workers, Create(w)
      PROVE  /\ rows[r] # None => rows'[r] = rows[r]
             /\ paid' = paid
  BY <1>2 DEF Create, DInv, TypeOK
<1>3. ASSUME NEW w \in Workers, Commit(w)
      PROVE  /\ wpc[w] = "commit" /\ wjob[w] \in Transfers
             /\ rows'[wrow[w]].hash = wjob[w].hash /\ paid'[wrow[w]] = wjob[w]
             /\ rows[r] # None => rows'[r] # None /\ rows'[r].hash = rows[r].hash
             /\ r # wrow[w] => paid'[r] = paid[r]
  <2>1. /\ wjob[w] \in Transfers /\ wrow[w] \in RowIds
        /\ rows[wrow[w]] = [hash |-> wjob[w].hash, status |-> "pending"]
    BY <1>3, CommitCredits
  <2>2. DInv'
    BY <1>3, CommitKeeps
  <2>3. paid'[wrow[w]] = wjob[w] /\ wjob[w] # None
    BY <1>3, <2>1, TransferFacts DEF Commit, DInv, TypeOK
  <2>4. rows'[wrow[w]] # None
    BY <2>1, <2>2, <2>3 DEF DInv, PaidIffConfirmed
  <2>5. rows'[wrow[w]].hash = wjob[w].hash
    BY <1>3, <2>1 DEF Commit, DInv, TypeOK
  <2> QED BY <1>3, <2>1, <2>3, <2>4, <2>5 DEF Commit, DInv, TypeOK
<1>4. ASSUME NEW w \in Workers, Moves(w) \/ Stops(w) \/ LockRow(w) \/ LockUser(w)
      PROVE  UNCHANGED dbVars
  BY <1>4 DEF Moves, Stops, LockRow, LockUser
<1> QED BY StepCases, <1>1, <1>2, <1>3, <1>4

LEMMA PaidStep ==
  ASSUME DInv, PaidInv, [Next]_vars
  PROVE  PaidInv'
<1>1. Crediting'
  <2> SUFFICES ASSUME NEW w \in Workers,
                      wpc'[w] \in {"lockRow", "lockUser", "commit"}
               PROVE  \E t \in Transfers : wjob'[w] = t /\ Sound(t)'
    BY DEF Crediting, Sound, Ready
  <2>1. PICK t \in Transfers : t = wjob[w]
    BY CreditEntry DEF GoCredit, DInv, RowOfJob, HasRow
  <2>2. Sound(t)
    <3>1. CASE GoCredit(w)
      BY <2>1, <3>1, DepositAssumption DEF GoCredit, Sound
    <3>2. CASE wpc[w] \in {"lockRow", "lockUser", "commit"}
      BY <2>1, <3>2 DEF PaidInv, Crediting
    <3> QED BY <3>1, <3>2, CreditEntry
  <2> QED BY <2>1, <2>2, CreditEntry, SoundStays
<1>2. NeverPaidEarly'
  <2> SUFFICES ASSUME NEW r \in RowIds, paid'[r] # None
               PROVE  \E t \in Transfers :
                        paid'[r] = t /\ rows'[r].hash = t.hash /\ Sound(t)'
    BY DEF NeverPaidEarly, Sound, Ready
  <2>1. CASE paid'[r] = paid[r]
    <3>1. PICK t \in Transfers :
            t = paid[r] /\ rows[r].hash = t.hash /\ Sound(t)
      BY <2>1 DEF PaidInv, NeverPaidEarly, DInv, TypeOK, Sound
    <3>2. rows[r] # None
      BY <2>1 DEF DInv, PaidIffConfirmed
    <3> QED BY <2>1, <3>1, <3>2, RowsKept, SoundStays
  <2>2. ASSUME NEW w \in Workers, wpc[w] = "commit", wjob[w] \in Transfers,
               paid'[r] = wjob[w], rows'[r].hash = wjob[w].hash
        PROVE  \E t \in Transfers :
                 paid'[r] = t /\ rows'[r].hash = t.hash /\ Sound(t)'
    <3>1. PICK t \in Transfers : t = wjob[w]
      BY <2>2
    <3>2. Sound(t)
      BY <2>2, <3>1 DEF PaidInv, Crediting
    <3> QED BY <2>2, <3>1, <3>2, SoundStays
  <2> QED BY <2>1, <2>2, RowsKept
<1> QED BY <1>1, <1>2 DEF PaidInv

\* A row is paid only for a transfer of its own hash that the chain has executed
\* and confirmed, whatever workers overlap or crash.
THEOREM PaidOnlySound == Spec => []NeverPaidEarly
<1>1. Init => PaidInv
  BY DEF Init, PaidInv, Crediting, NeverPaidEarly
<1>2. PaidInv => NeverPaidEarly
  BY DEF PaidInv
<1> QED BY <1>1, <1>2, PaidStep, Invariance, PTL DEF Spec

-----------------------------------------------------------------------------
(* Who has a job, and second rows                                          *)

\* While its job is never taken from a worker, a hash has at most one handler:
\* the owner of the active job.  It creates a row only where there is none.
JobHash == \A h \in Hashes : job[h] # None => job[h].hash = h

HasJob(w, h) == wjob[w] # None /\ wjob[w].hash = h

Owns ==
  \A w \in Workers, h \in Hashes \ stalled :
    HasJob(w, h) => jstate[h] = "active" /\ owner[h] = w

Creating ==
  \A w \in Workers, h \in Hashes \ stalled :
    HasJob(w, h) /\ wpc[w] = "create" => RowsOf(h) = {}

OwnInv == JobHash /\ Owns /\ Creating /\ SecondRowNeedsStall

\* The steps of a handler between taking and ending its job.
Handles(w) ==
  \/ Find(w)    \/ Create(w)   \/ GoCredit(w) \/ Skip(w) \/ NotReady(w)
  \/ LockRow(w) \/ LockUser(w) \/ Commit(w)   \/ Throw(w)

Ends(w) == Complete(w) \/ Requeue(w) \/ RequeueFails(w) \/ Crash(w)

LEMMA HandlesKeepsJobs ==
  ASSUME NEW w \in Workers, Handles(w)
  PROVE  UNCHANGED <<queueVars, wjob>>
  BY DEF Handles, Find, Create, GoCredit, Skip, NotReady, LockRow, LockUser,
         Commit, Throw, queueVars

\* A worker that ends its job takes nothing from another one.
LEMMA EndsFacts ==
  ASSUME DInv, OwnInv, NEW w \in Workers, Ends(w)
  PROVE  /\ wjob'[w] = None /\ wpc'[w] = "idle"
         /\ \A q \in Workers \ {w} : wjob'[q] = wjob[q] /\ wpc'[q] = wpc[q]
         /\ \A h \in Hashes : job'[h] = job[h] \/ job'[h] = None
         /\ stalled' = stalled /\ rows' = rows
         /\ \A h \in Hashes \ stalled, q \in Workers \ {w} :
              HasJob(q, h) => jstate'[h] = jstate[h] /\ owner'[h] = owner[h]
<1>1. wjob[w] \in Transfers /\ wjob[w].hash \in Hashes
  BY TransferFacts
     DEF Ends, Complete, Requeue, RequeueFails, Crash, DInv, TypeOK, WorkerOK
<1>2. Forget(w)
  BY DEF Ends, Complete, Requeue, RequeueFails, Crash
<1>3. /\ wjob'[w] = None /\ wpc'[w] = "idle"
      /\ \A q \in Workers \ {w} : wjob'[q] = wjob[q] /\ wpc'[q] = wpc[q]
  BY <1>2 DEF Forget, Goto, DInv, TypeOK
<1>4. stalled' = stalled /\ rows' = rows
  BY DEF Ends, Complete, Requeue, RequeueFails, Crash, EndJob, dbVars
<1>5. \A h \in Hashes : job'[h] = job[h] \/ job'[h] = None
  BY <1>1 DEF Ends, Complete, Requeue, RequeueFails, Crash, EndJob, DInv, TypeOK
<1>6. ASSUME NEW h \in Hashes \ stalled, NEW q \in Workers \ {w}, HasJob(q, h)
      PROVE  jstate'[h] = jstate[h] /\ owner'[h] = owner[h]
  <2>1. owner[h] = q
    BY <1>6 DEF OwnInv, Owns
  <2>2. wjob[w].hash # h
    BY <1>1, <2>1, TransferFacts DEF OwnInv, Owns, HasJob
  <2>3. CASE Complete(w) \/ RequeueFails(w)
    BY <1>1, <2>1, <2>2, <2>3 DEF Complete, RequeueFails, EndJob, DInv, TypeOK
  <2>4. CASE Requeue(w)
    BY <1>1, <2>2, <2>4 DEF Requeue, DInv, TypeOK
  <2>5. CASE Crash(w)
    BY <2>1, <2>5 DEF Crash, DInv, TypeOK
  <2> QED BY <2>3, <2>4, <2>5 DEF Ends
<1> QED BY <1>3, <1>4, <1>5, <1>6

LEMMA JobHashStep ==
  ASSUME DInv, OwnInv, [Next]_vars
  PROVE  JobHash'
<1> USE DEF OwnInv, JobHash
<1>1. ASSUME job' = job PROVE JobHash'
  BY <1>1
<1>2. ASSUME NEW t \in Transfers, Enqueue(t) PROVE JobHash'
  BY <1>2, TransferFacts DEF Enqueue, DInv, TypeOK
<1>3. ASSUME NEW w \in Workers, Ends(w) PROVE JobHash'
  BY <1>3, EndsFacts
<1>4. ASSUME NEW w \in Workers, Handles(w) PROVE JobHash'
  BY <1>1, <1>4, HandlesKeepsJobs DEF queueVars
<1>5. ASSUME \/ \E h \in Hashes : Confirm(h) \/ Stall(h)
             \/ \E w \in Workers, h \in Hashes : Take(w, h)
             \/ UNCHANGED vars
      PROVE  JobHash'
  BY <1>1, <1>5 DEF Confirm, Stall, Take, vars, queueVars
<1> QED BY <1>2, <1>3, <1>4, <1>5 DEF Next, Work, Handles, Ends

LEMMA OwnsStep ==
  ASSUME DInv, OwnInv, [Next]_vars
  PROVE  Owns'
<1> SUFFICES ASSUME NEW w \in Workers, NEW h \in Hashes, h \notin stalled',
                    wjob'[w] # None, wjob'[w].hash = h
             PROVE  jstate'[h] = "active" /\ owner'[h] = w
  BY DEF Owns, HasJob
<1>1. ASSUME UNCHANGED <<queueVars, wjob>>
      PROVE  jstate'[h] = "active" /\ owner'[h] = w
  BY <1>1 DEF OwnInv, Owns, HasJob, queueVars
<1>2. ASSUME NEW t \in Transfers, Enqueue(t)
      PROVE  jstate'[h] = "active" /\ owner'[h] = w
  BY <1>2, TransferFacts
     DEF Enqueue, OwnInv, Owns, HasJob, workerVars, DInv, TypeOK
<1>3. ASSUME NEW g \in Hashes, Stall(g)
      PROVE  jstate'[h] = "active" /\ owner'[h] = w
  BY <1>3 DEF Stall, OwnInv, Owns, HasJob, workerVars, DInv, TypeOK
<1>4. ASSUME NEW q \in Workers, NEW g \in Hashes, Take(q, g)
      PROVE  jstate'[h] = "active" /\ owner'[h] = w
  <2>1. job[g] # None /\ job[g].hash = g /\ stalled' = stalled
    BY <1>4 DEF Take, DInv, JobPresent, OwnInv, JobHash
  <2>2. CASE w = q
    BY <1>4, <2>1, <2>2 DEF Take, DInv, TypeOK
  <2>3. CASE w # q
    <3>1. jstate[h] = "active" /\ owner[h] = w
      BY <1>4, <2>1, <2>3 DEF Take, OwnInv, Owns, HasJob, DInv, TypeOK
    <3> QED BY <1>4, <3>1 DEF Take, DInv, TypeOK
  <2> QED BY <2>2, <2>3
<1>5. ASSUME NEW q \in Workers, Ends(q)
      PROVE  jstate'[h] = "active" /\ owner'[h] = w
  BY <1>5, EndsFacts DEF OwnInv, Owns, HasJob
<1>6. ASSUME NEW q \in Workers, Handles(q)
      PROVE  jstate'[h] = "active" /\ owner'[h] = w
  BY <1>1, <1>6, HandlesKeepsJobs
<1>7. ASSUME UNCHANGED vars \/ \E g \in Hashes : Confirm(g)
      PROVE  jstate'[h] = "active" /\ owner'[h] = w
  BY <1>1, <1>7 DEF Confirm, vars, workerVars
<1> QED BY <1>2, <1>3, <1>4, <1>5, <1>6, <1>7 DEF Next, Work, Handles, Ends

\* Only Create changes which rows a hash has.
LEMMA SameRows ==
  ASSUME DInv, [Next]_vars, ~ \E w \in Workers : Create(w), NEW r \in RowIds
  PROVE  /\ rows'[r] = None <=> rows[r] = None
         /\ rows[r] # None => rows'[r].hash = rows[r].hash
<1>1. ASSUME NEW w \in Workers, Commit(w), rows[r] = None PROVE rows'[r] = None
  <2>1. rows[wrow[w]] # None
    BY <1>1, CommitCredits, DepositAssumption DEF RowType, DInv, RowOfJob, HasRow,
       Commit
  <2> QED BY <1>1, <2>1 DEF Commit, DInv, TypeOK
<1>2. ASSUME NEW w \in Workers, Moves(w) \/ Stops(w) \/ LockRow(w) \/ LockUser(w)
      PROVE  UNCHANGED dbVars
  BY <1>2 DEF Moves, Stops, LockRow, LockUser
<1> QED BY <1>1, <1>2, StepCases, RowsKept DEF dbVars

\* A worker comes to create only where findByTxHash found nothing.
LEMMA CreateEntry ==
  ASSUME DInv, [Next]_vars, NEW w \in Workers, wpc'[w] = "create"
  PROVE  /\ wjob'[w] = wjob[w] /\ wjob[w] # None /\ stalled \subseteq stalled'
         /\ wpc[w] = "create" \/ (wpc[w] = "find" /\ RowsOf(wjob[w].hash) = {})
<1> USE DEF DInv, TypeOK, Goto, workerVars
<1>0. stalled \subseteq stalled'
  BY DEF Next, Work, vars, queueVars, Stall, Enqueue, Confirm,
         Take, Find, Create, GoCredit, Skip, NotReady, LockRow, LockUser, Commit,
         Complete, Requeue, Throw, RequeueFails, Crash, EndJob
<1>1. ASSUME NEW q \in Workers, Handles(q)
      PROVE  /\ wjob'[w] = wjob[w]
             /\ wpc[w] = "create" \/ (wpc[w] = "find" /\ RowsOf(wjob[w].hash) = {})
  <2>1. CASE Find(q)
    BY <2>1 DEF Find
  <2>2. CASE Create(q) \/ GoCredit(q) \/ Skip(q) \/ NotReady(q) \/ Throw(q)
    BY <2>2 DEF Create, GoCredit, Skip, NotReady, Throw
  <2>3. CASE LockRow(q) \/ LockUser(q) \/ Commit(q)
    BY <2>3 DEF LockRow, LockUser, Commit
  <2> QED BY <1>1, <2>1, <2>2, <2>3 DEF Handles
<1>2. ASSUME NEW q \in Workers, Ends(q)
      PROVE  wjob'[w] = wjob[w] /\ wpc[w] = "create"
  BY <1>2 DEF Ends, Complete, Requeue, RequeueFails, Crash, Forget
<1>3. ASSUME NEW q \in Workers, NEW h \in Hashes, Take(q, h)
      PROVE  wjob'[w] = wjob[w] /\ wpc[w] = "create"
  BY <1>3 DEF Take
<1>4. ASSUME \/ UNCHANGED vars \/ \E h \in Hashes : Confirm(h) \/ Stall(h)
             \/ \E t \in Transfers : Enqueue(t)
      PROVE  wjob' = wjob /\ wpc' = wpc
  BY <1>4 DEF vars, Confirm, Stall, Enqueue
<1>5. /\ wjob'[w] = wjob[w]
      /\ wpc[w] = "create" \/ (wpc[w] = "find" /\ RowsOf(wjob[w].hash) = {})
  BY <1>1, <1>2, <1>3, <1>4 DEF Next, Work, Handles, Ends
<1>6. wjob[w] # None
  BY <1>5 DEF WorkerOK
<1> QED BY <1>0, <1>5, <1>6

\* Create gives its own hash a row; unless the job was taken away once, no
\* other worker has that hash and it had no row.
LEMMA CreateFacts ==
  ASSUME DInv, OwnInv, NEW w \in Workers, Create(w)
  PROVE  /\ wjob[w] \in Transfers /\ wpc'[w] = "check"
         /\ \E r \in RowIds :
              /\ rows[r] = None /\ rows'[r].hash = wjob[w].hash
              /\ \A s \in RowIds \ {r} : rows'[s] = rows[s]
         /\ wjob[w].hash \notin stalled =>
              /\ RowsOf(wjob[w].hash) = {}
              /\ \A q \in Workers \ {w} : ~HasJob(q, wjob[w].hash)
<1>1. wjob[w] \in Transfers /\ wjob[w] # None /\ wjob[w].hash \in Hashes
  BY TransferFacts DEF Create, DInv, TypeOK, WorkerOK
<1>2. wpc'[w] = "check"
  BY DEF Create, Goto, DInv, TypeOK
<1>3. \E r \in RowIds :
        /\ rows[r] = None /\ rows'[r].hash = wjob[w].hash
        /\ \A s \in RowIds \ {r} : rows'[s] = rows[s]
  BY DEF Create, DInv, TypeOK
<1>4. ASSUME wjob[w].hash \notin stalled
      PROVE  /\ RowsOf(wjob[w].hash) = {}
             /\ \A q \in Workers \ {w} : ~HasJob(q, wjob[w].hash)
  <2>1. HasJob(w, wjob[w].hash) /\ wpc[w] = "create"
    BY <1>1 DEF HasJob, Create
  <2> QED BY <1>1, <1>4, <2>1 DEF OwnInv, Owns, Creating
<1> QED BY <1>1, <1>2, <1>3, <1>4

LEMMA CreatingStep ==
  ASSUME DInv, OwnInv, [Next]_vars
  PROVE  Creating'
<1> SUFFICES ASSUME NEW w \in Workers, NEW h \in Hashes, h \notin stalled',
                    wjob'[w] # None, wjob'[w].hash = h, wpc'[w] = "create",
                    NEW r \in RowIds
             PROVE  ~(rows'[r] # None /\ rows'[r].hash = h)
  BY DEF Creating, HasJob, RowsOf
<1>1. h \notin stalled /\ HasJob(w, h) /\ RowsOf(h) = {}
  BY CreateEntry DEF HasJob, OwnInv, Creating
<1>2. CASE ~ \E q \in Workers : Create(q)
  BY <1>1, <1>2, SameRows DEF RowsOf
<1>3. ASSUME NEW q \in Workers, Create(q)
      PROVE  ~(rows'[r] # None /\ rows'[r].hash = h)
  <2>1. q # w
    BY <1>3, CreateFacts
  <2>2. wjob[q].hash # h
    BY <1>1, <1>3, <2>1, CreateFacts
  <2> QED BY <1>1, <1>3, <2>2, CreateFacts DEF RowsOf
<1> QED BY <1>2, <1>3

LEMMA SecondRowStep ==
  ASSUME DInv, OwnInv, [Next]_vars
  PROVE  SecondRowNeedsStall'
<1>1. stalled \subseteq stalled'
  BY DEF Next, Work, vars, queueVars, Stall, Enqueue, Confirm,
         Take, Find, Create, GoCredit, Skip, NotReady, LockRow, LockUser, Commit,
         Complete, Requeue, Throw, RequeueFails, Crash, EndJob
<1> SUFFICES ASSUME NEW r \in RowIds, NEW s \in RowIds, r # s,
                    rows'[r] # None, rows'[s] # None,
                    rows'[r].hash = rows'[s].hash
             PROVE  rows'[r].hash \in stalled'
  BY DEF SecondRowNeedsStall
<1>2. CASE ~ \E w \in Workers : Create(w)
  BY <1>1, <1>2, SameRows DEF OwnInv, SecondRowNeedsStall
<1>3. ASSUME NEW w \in Workers, Create(w)
      PROVE  rows'[r].hash \in stalled'
  <2>1. PICK n \in RowIds :
          /\ rows[n] = None /\ rows'[n].hash = wjob[w].hash
          /\ \A m \in RowIds \ {n} : rows'[m] = rows[m]
    BY <1>3, CreateFacts
  <2>2. CASE r # n /\ s # n
    BY <1>1, <2>1, <2>2 DEF OwnInv, SecondRowNeedsStall
  <2>3. CASE r = n \/ s = n
    <3>1. PICK m \in RowIds \ {n} : m \in {r, s}
      BY <2>3
    <3>2. rows[m] # None /\ rows[m].hash = wjob[w].hash
      BY <2>1, <2>3, <3>1
    <3>3. wjob[w].hash \in stalled
      BY <1>3, <3>2, CreateFacts DEF RowsOf
    <3> QED BY <1>1, <2>1, <2>3, <3>3
  <2> QED BY <2>2, <2>3
<1> QED BY <1>2, <1>3

\* One hash gets a second row only if its job was once taken from a worker,
\* for any number of workers, crashes and failing requeues.
THEOREM SecondRowsNeedStalls == Spec => []SecondRowNeedsStall
<1>1. Init => OwnInv
  BY DEF Init, OwnInv, JobHash, Owns, HasJob, Creating, SecondRowNeedsStall
<1>2. DInv /\ OwnInv /\ [Next]_vars => OwnInv'
  BY JobHashStep, OwnsStep, CreatingStep, SecondRowStep DEF OwnInv
<1>3. OwnInv => SecondRowNeedsStall
  BY DEF OwnInv
<1> QED BY <1>1, <1>2, <1>3, Invariance, PTL DEF Spec

-----------------------------------------------------------------------------
(* What a user has been credited                                           *)

PaidRows  == {r \in RowIds : paid[r] # None}
PaidTo(u) == {r \in PaidRows : paid[r].user = u}
Amounts   == [r \in PaidRows |-> paid[r].amount]

\* Every user has been credited the amounts of the transfers that rows were paid
\* for: none was lost, overwritten or added twice.
CreditsAddUp == \A u \in Users : balance[u] = SumFunctionOnSet(Amounts, PaidTo(u))

\* The sums are over finite sets: rows are paid one by one.
CreditInv == IsFiniteSet(PaidRows) /\ CreditsAddUp

LEMMA InitCredits == Init => CreditInv
<1> SUFFICES ASSUME Init PROVE CreditInv
  OBVIOUS
<1>1. PaidRows = {}
  BY DEF Init, PaidRows
<1>2. IsFiniteSet(PaidRows)
  BY <1>1, FS_EmptySet
<1>3. \A u \in Users : PaidTo(u) = {} /\ balance[u] = 0
  BY <1>1 DEF Init, PaidTo
<1>4. Amounts \in [PaidRows -> Int]
  BY <1>1 DEF Amounts
<1>5. SumFunctionOnSet(Amounts, {}) = 0
  BY <1>4, SumEmpty
<1> QED BY <1>2, <1>3, <1>5 DEF CreditInv, CreditsAddUp

LEMMA AmountsAre == TypeOK => Amounts \in [PaidRows -> Int]
  BY TransferFacts DEF TypeOK, Amounts, PaidRows

LEMMA CreditAddsUp ==
  ASSUME DInv, DInv', CreditInv, NEW r \in RowIds, NEW t \in Transfers, paid[r] = None,
         paid' = [paid EXCEPT ![r] = t],
         balance' = [balance EXCEPT ![t.user] = @ + t.amount]
  PROVE  CreditInv'
<1>0. PICK A, B, P, Q : A = Amounts /\ B = Amounts' /\ P = PaidRows /\ Q = PaidRows'
  OBVIOUS
<1>1. /\ paid \in [RowIds -> Transfers \cup {None}] /\ balance \in [Users -> Nat]
      /\ t.user \in Users /\ t.amount \in Nat /\ t # None
  BY TransferFacts DEF DInv, TypeOK
<1>2. Q = P \cup {r} /\ r \notin P
  BY <1>0, <1>1 DEF PaidRows
<1>3. IsFiniteSet(P) /\ IsFiniteSet(Q)
  BY <1>0, <1>2, FS_AddElement DEF CreditInv
<1>4. A \in [P -> Int] /\ B \in [Q -> Int]
  <2>1. A \in [P -> Int]
    BY <1>0, AmountsAre DEF DInv
  <2>2. (Amounts \in [PaidRows -> Int])'
    BY AmountsAre, PTL DEF DInv
  <2> QED BY <1>0, <2>1, <2>2
<1>5. B[r] = t.amount /\ \A p \in P : B[p] = A[p]
  BY <1>0, <1>1, <1>2 DEF Amounts, PaidRows
<1>6. ASSUME NEW u \in Users
      PROVE  balance'[u] = SumFunctionOnSet(B, PaidTo(u)')
  <2>0. PICK S : S = PaidTo(u)
    OBVIOUS
  <2>1. S \in SUBSET P /\ S \in SUBSET Q /\ r \notin S /\ r \in Q /\ IsFiniteSet(S)
    BY <1>0, <1>2, <1>3, <2>0, FS_Subset DEF PaidTo
  <2>2. balance[u] = SumFunctionOnSet(A, S)
    BY <1>0, <2>0 DEF CreditInv, CreditsAddUp
  <2>3. SumFunctionOnSet(A, S) = SumFunctionOnSet(B, S)
    <3>1. \A x \in S : A[x] = B[x]
      BY <1>5, <2>1
    <3> QED BY <1>4, <2>1, <3>1, SumSame
  <2>4. CASE u # t.user
    <3>1. PaidTo(u)' = S
      BY <1>1, <1>2, <1>0, <2>0, <2>4 DEF PaidTo, PaidRows
    <3>2. balance'[u] = balance[u]
      BY <1>1, <2>4
    <3> QED BY <2>2, <2>3, <3>1, <3>2
  <2>5. CASE u = t.user
    <3>1. PaidTo(u)' = S \cup {r}
      BY <1>1, <1>2, <1>0, <2>0, <2>5 DEF PaidTo, PaidRows
    <3>2. SumFunctionOnSet(B, S \cup {r}) = SumFunctionOnSet(B, S) + B[r]
      BY <1>4, <2>1, SumAdd
    <3>3. balance'[u] = balance[u] + t.amount
      BY <1>1, <2>5
    <3> QED BY <1>5, <2>2, <2>3, <3>1, <3>2, <3>3
  <2> QED BY <2>4, <2>5
<1> QED BY <1>0, <1>3, <1>6 DEF CreditInv, CreditsAddUp

LEMMA CreditStep ==
  ASSUME DInv, DInv', CreditInv, [Next]_vars
  PROVE  CreditInv'
<1>1. CASE UNCHANGED <<paid, balance>>
  BY <1>1 DEF CreditInv, CreditsAddUp, PaidTo, Amounts, PaidRows
<1>2. ASSUME NEW w \in Workers, Commit(w) PROVE CreditInv'
  BY <1>2, CommitCredits, CreditAddsUp DEF Commit
<1>3. ASSUME NEW w \in Workers,
             Moves(w) \/ Stops(w) \/ LockRow(w) \/ LockUser(w) \/ Create(w)
      PROVE  UNCHANGED <<paid, balance>>
  BY <1>3 DEF Moves, Stops, LockRow, LockUser, Create, dbVars
<1> QED BY StepCases, <1>1, <1>2, <1>3 DEF dbVars

\* No credit is lost, overwritten or added twice, whatever workers overlap, crash or
\* are overtaken: a user's credits are the sum over the rows that were paid.
THEOREM CreditsConserved == Spec => []CreditsAddUp
<1>1. CreditInv => CreditsAddUp
  BY DEF CreditInv
<1> QED BY <1>1, InitCredits, CreditStep, Invariance, PTL DEF Spec

\* One hash is credited once, for any workers and redeliveries, unless its job was
\* taken from a worker that went on.
CreditedOnce ==
  \A r, s \in RowIds :
    paid[r] # None /\ paid[s] # None /\ paid[r].hash = paid[s].hash
      => r = s \/ paid[r].hash \in stalled

\* The find-or-create of the handler, the job ids of the queue and the status that
\* creditUser looks at again keep a transfer from being credited twice.
THEOREM CreditedAtMostOnce == Spec => []CreditedOnce
<1>1. DInv /\ NeverPaidEarly /\ SecondRowNeedsStall => CreditedOnce
  BY DepositAssumption DEF DInv, PaidIffConfirmed, NeverPaidEarly, SecondRowNeedsStall,
                           CreditedOnce
<1> QED BY <1>1, Invariance, PaidOnlySound, SecondRowsNeedStalls, PTL
=============================================================================
