------------------------- MODULE CasinoWalletProofs -------------------------
(***************************************************************************)
(* The callbacks of game providers alone, then beside the calls that take  *)
(* no lock, for any users, handlers, requests and calls.                   *)
(*                                                                         *)
(* No property of GameCallback is inductive as it stands.  A commit keeps  *)
(* a balance above zero because the copy was checked under the lock and    *)
(* the row has not moved since; a second record is refused because a       *)
(* handler that waits to insert sees either the record or the other's end. *)
(* IInv collects these.  Of a call's steps only Update touches what IInv   *)
(* speaks of.                                                              *)
(***************************************************************************)
EXTENDS MCCasinoWallet, SumProofs, TLAPS

RequestKept == \A p \in Handlers : pc[p] # "idle" => req[p] \in Msgs

\* What Apply checked still holds of the row: it pays for the stake.
Covered ==
  \A p \in Handlers : pc[p] \in {"write", "commit"} =>
    /\ req[p].txn_type \in TxnTypes
    /\ row[req[p].user][btype[p]] >= Staked(req[p])

\* A handler at its commit has inserted the only record with its key.
InsertedAlone ==
  \A p \in Handlers : pc[p] = "commit" =>
    /\ ~Recorded(req[p])
    /\ \A q \in Handlers : pc[q] = "commit" /\ SameTxn(req[q], req[p]) => q = p

IInv ==
  /\ TypeOK /\ RequestKept
  /\ SnapshotIsCurrent /\ Covered
  /\ NoOverdraft
  /\ NoSameUserCollision /\ InsertedAlone /\ UniqueTxns
  /\ AckedIsRecorded

-----------------------------------------------------------------------------
(* The amounts of a request                                                *)

\* What a request stakes and gains are naturals: a debit's win and a
\* credit's bet are ignored.
LEMMA Amounts ==
  ASSUME NEW m \in Msgs
  PROVE  /\ Staked(m) \in Nat /\ Gained(m) \in Nat
         /\ m.user \in UserCodes /\ m.txn_id \in TxnIds
         /\ m.bet \in Nat /\ m.win \in Nat
         /\ m.txn_type \in TxnTypes \cup {"other"}
  BY MsgAssumption DEF MsgType, Staked, Gained

\* To carry one key is symmetric and transitive.
LEMMA SameTxnTransitive ==
  ASSUME NEW r, NEW s, NEW t, SameTxn(r, s), SameTxn(t, s)
  PROVE  SameTxn(r, t) /\ SameTxn(s, r)
  BY DEF SameTxn

-----------------------------------------------------------------------------
(* The initial state                                                       *)

LEMMA InitIInv == Init => IInv
<1> SUFFICES ASSUME Init PROVE IInv
  OBVIOUS
<1> USE DEF Init, LedgerInit
<1>1. TypeOK
  BY MsgAssumption DEF TypeOK, NoBalances, PCs, BalanceTypes
<1>2. RequestKept /\ Covered /\ InsertedAlone /\ NoSameUserCollision
  BY DEF RequestKept, Covered, InsertedAlone, NoSameUserCollision
<1>3. SnapshotIsCurrent
  BY DEF SnapshotIsCurrent, Holding
<1>4. NoOverdraft
  BY MsgAssumption DEF NoOverdraft
<1>5. UniqueTxns /\ AckedIsRecorded
  BY DEF UniqueTxns, AckedIsRecorded
<1> QED BY <1>1, <1>2, <1>3, <1>4, <1>5 DEF IInv

-----------------------------------------------------------------------------
(* The steps                                                               *)

\* Launch, Expire and stuttering: the handlers, the rows and the records
\* stay as they are.
Outside ==
  /\ typeKey' \in [UserCodes -> BalanceTypes \cup {None}]
  /\ UNCHANGED <<row, txns, lock, acked, handlerVars>>

\* The four ways out of a transaction without a write, answered with
\* status 1 only if the transaction is on record.
Ends(p, status) ==
  /\ pc[p] \in Holding
  /\ status = 1 => Recorded(req[p])
  /\ Finish(p, status)
  /\ UNCHANGED <<row, txns>>

LEMMA NextCases ==
  ASSUME TypeOK, [Next]_vars
  PROVE  \/ Outside
         \/ \E p \in Handlers, m \in Msgs : Receive(p, m)
         \/ \E p \in Handlers :
              \/ LockUser(p) \/ UserNotFound(p) \/ Apply(p) \/ Write(p)
              \/ Commit(p) \/ Ends(p, 0) \/ Ends(p, 1)
<1>1. CASE UNCHANGED vars
  BY <1>1 DEF vars, Outside, handlerVars, TypeOK
<1>2. ASSUME NEW p \in Handlers, Duplicate(p) PROVE Ends(p, 1)
  BY <1>2 DEF Duplicate, Ends, Holding
<1>3. ASSUME NEW p \in Handlers, Refuse(p) PROVE Ends(p, 0)
  BY <1>3 DEF Refuse, Ends, Holding
<1>4. ASSUME NEW p \in Handlers, UniqueViolation(p) PROVE Ends(p, 0)
  BY <1>4 DEF UniqueViolation, Ends, Holding
<1>5. ASSUME NEW p \in Handlers, Fail(p) PROVE Ends(p, 0)
  BY <1>5 DEF Fail, Ends
<1>6. ASSUME NEW u \in Users, NEW b \in BalanceTypes, Launch(u, b)
      PROVE  Outside
  BY <1>6, MsgAssumption DEF Launch, Outside, handlerVars, TypeOK
<1>7. ASSUME NEW u \in Users, Expire(u) PROVE Outside
  BY <1>7, MsgAssumption DEF Expire, Outside, handlerVars, TypeOK
<1> QED BY <1>1, <1>2, <1>3, <1>4, <1>5, <1>6, <1>7 DEF Next, Advance

LEMMA OutsideStep == IInv /\ Outside => IInv'
<1> SUFFICES ASSUME IInv, Outside PROVE IInv'
  OBVIOUS
<1> USE DEF IInv, Outside, handlerVars
<1>1. TypeOK'
  BY DEF TypeOK
<1>2. (RequestKept /\ SnapshotIsCurrent /\ Covered)'
  BY DEF RequestKept, SnapshotIsCurrent, Covered
<1>3. (NoOverdraft /\ NoSameUserCollision /\ InsertedAlone)'
  BY DEF NoOverdraft, NoSameUserCollision, InsertedAlone, Recorded
<1>4. (UniqueTxns /\ AckedIsRecorded)'
  BY DEF UniqueTxns, AckedIsRecorded, Recorded
<1> QED BY <1>1, <1>2, <1>3, <1>4

LEMMA ReceiveStep ==
  ASSUME IInv, NEW p \in Handlers, NEW m \in Msgs, Receive(p, m)
  PROVE  IInv'
<1> USE DEF IInv, Receive
<1>1. TypeOK'
  <2>1. typeKey[m.user] \in BalanceTypes \cup {None}
    BY Amounts DEF TypeOK
  <2> QED BY <2>1 DEF TypeOK, PCs, BalanceTypes
<1>2. RequestKept'
  BY DEF TypeOK, RequestKept
<1>3. (SnapshotIsCurrent /\ Covered /\ NoSameUserCollision)'
  BY DEF TypeOK, SnapshotIsCurrent, Covered, NoSameUserCollision, Holding
<1>4. (NoOverdraft /\ InsertedAlone)'
  BY DEF TypeOK, NoOverdraft, InsertedAlone, Recorded
<1>5. (UniqueTxns /\ AckedIsRecorded)'
  BY DEF UniqueTxns, AckedIsRecorded, Recorded
<1> QED BY <1>1, <1>2, <1>3, <1>4, <1>5

\* The lock was free, so no other handler is in a transaction on this row.
LEMMA LockUserStep ==
  ASSUME IInv, NEW p \in Handlers, LockUser(p)
  PROVE  IInv'
<1> USE DEF IInv, LockUser
<1>1. TypeOK'
  BY DEF TypeOK, PCs
<1>2. RequestKept'
  BY DEF TypeOK, RequestKept
<1>3. SnapshotIsCurrent'
  BY MsgAssumption DEF TypeOK, SnapshotIsCurrent, Holding
<1>4. (Covered /\ NoSameUserCollision)'
  BY DEF TypeOK, Covered, NoSameUserCollision
<1>5. (NoOverdraft /\ InsertedAlone)'
  BY DEF TypeOK, NoOverdraft, InsertedAlone, Recorded
<1>6. (UniqueTxns /\ AckedIsRecorded)'
  BY DEF UniqueTxns, AckedIsRecorded, Recorded
<1> QED BY <1>1, <1>2, <1>3, <1>4, <1>5, <1>6

LEMMA UserNotFoundStep ==
  ASSUME IInv, NEW p \in Handlers, UserNotFound(p)
  PROVE  IInv'
<1> USE DEF IInv, UserNotFound, Reply
<1>1. TypeOK'
  BY DEF TypeOK, PCs, NoBalances, BalanceTypes
<1>2. RequestKept'
  BY DEF TypeOK, RequestKept
<1>3. (SnapshotIsCurrent /\ Covered /\ NoSameUserCollision)'
  BY DEF TypeOK, SnapshotIsCurrent, Covered, NoSameUserCollision, Holding
<1>4. (NoOverdraft /\ InsertedAlone)'
  BY DEF TypeOK, NoOverdraft, InsertedAlone, Recorded
<1>5. (UniqueTxns /\ AckedIsRecorded)'
  BY DEF UniqueTxns, AckedIsRecorded, Recorded
<1> QED BY <1>1, <1>2, <1>3, <1>4, <1>5

LEMMA EndsStep ==
  ASSUME IInv, NEW p \in Handlers, NEW status \in {0, 1}, Ends(p, status)
  PROVE  IInv'
<1> USE DEF IInv, Ends, Finish, Reply, Unlock
<1>0. req[p].user \in Users /\ lock[req[p].user] = p /\ req[p] \in Msgs
  BY DEF SnapshotIsCurrent, RequestKept, Holding
<1>1. TypeOK'
  BY <1>0 DEF TypeOK, PCs, NoBalances, BalanceTypes
<1>2. RequestKept'
  BY DEF TypeOK, RequestKept
<1>3. SnapshotIsCurrent'
  <2>1. ASSUME NEW q \in Handlers, pc'[q] \in Holding
        PROVE  /\ q # p /\ pc[q] \in Holding
               /\ req'[q] = req[q] /\ user'[q] = user[q] /\ btype'[q] = btype[q]
    BY <2>1 DEF TypeOK, Holding
  <2>2. ASSUME NEW q \in Handlers, q # p, pc[q] \in Holding
        PROVE  lock'[req[q].user] = lock[req[q].user]
    BY <1>0, <2>2 DEF TypeOK, SnapshotIsCurrent
  <2> QED BY <2>1, <2>2 DEF TypeOK, SnapshotIsCurrent
<1>4. (Covered /\ NoSameUserCollision)'
  BY DEF TypeOK, Covered, NoSameUserCollision
<1>5. (NoOverdraft /\ InsertedAlone)'
  BY DEF TypeOK, NoOverdraft, InsertedAlone, Recorded
<1>6. (UniqueTxns /\ AckedIsRecorded)'
  BY <1>0 DEF UniqueTxns, AckedIsRecorded, Recorded
<1> QED BY <1>1, <1>2, <1>3, <1>4, <1>5, <1>6

\* The copy that the handler checked is the row, so the row pays.
LEMMA ApplyStep ==
  ASSUME IInv, NEW p \in Handlers, Apply(p)
  PROVE  IInv'
<1> USE DEF IInv, Apply
<1>0. /\ req[p] \in Msgs /\ req[p].user \in Users /\ lock[req[p].user] = p
      /\ user[p] = row[req[p].user] /\ btype[p] \in BalanceTypes
      /\ Staked(req[p]) \in Nat /\ Gained(req[p]) \in Nat
      /\ user[p] \in [BalanceTypes -> Int]
  BY Amounts DEF SnapshotIsCurrent, RequestKept, Holding, TypeOK
<1>1. TypeOK'
  <2> DEFINE new == [user[p] EXCEPT ![btype[p]] =
                        @ - Staked(req[p]) + Gained(req[p])]
  <2>1. new \in [BalanceTypes -> Int]
    BY <1>0
  <2>2. user' = [user EXCEPT ![p] = new]
    OBVIOUS
  <2> HIDE DEF new
  <2>3. user' \in [Handlers -> [BalanceTypes -> Int]]
    BY <2>1, <2>2 DEF TypeOK
  <2> QED BY <2>3 DEF TypeOK, PCs
<1>2. RequestKept'
  BY DEF TypeOK, RequestKept
<1>3. SnapshotIsCurrent'
  <2>1. /\ pc'[p] = "write"
        /\ user'[p] = [user[p] EXCEPT ![btype[p]] =
                          @ - Staked(req[p]) + Gained(req[p])]
    BY DEF TypeOK
  <2>2. \A q \in Handlers \ {p} : pc'[q] = pc[q] /\ user'[q] = user[q]
    BY DEF TypeOK
  <2>3. UNCHANGED <<row, lock, req, btype>>
    OBVIOUS
  <2>4. pc[p] \in Holding
    BY DEF Holding
  <2> HIDE DEF Apply
  <2> QED BY <1>0, <2>1, <2>2, <2>3, <2>4 DEF SnapshotIsCurrent
<1>4. Covered'
  <2>1. row[req[p].user][btype[p]] >= Staked(req[p])
    <3>1. CASE req[p].txn_type = "credit"
      BY <1>0, <3>1 DEF NoOverdraft, Staked
    <3>2. CASE req[p].txn_type # "credit"
      BY <1>0, <3>2 DEF Sufficient
    <3> QED BY <3>1, <3>2
  <2> QED BY <2>1 DEF TypeOK, Covered
<1>5. NoSameUserCollision'
  BY DEF TypeOK, NoSameUserCollision, Recorded
<1>6. (NoOverdraft /\ InsertedAlone)'
  BY DEF TypeOK, NoOverdraft, InsertedAlone, Recorded
<1>7. (UniqueTxns /\ AckedIsRecorded)'
  BY DEF UniqueTxns, AckedIsRecorded, Recorded
<1> QED BY <1>1, <1>2, <1>3, <1>4, <1>5, <1>6, <1>7

\* The insert did not wait: nobody else has inserted this key.
LEMMA WriteStep ==
  ASSUME IInv, NEW p \in Handlers, Write(p)
  PROVE  IInv'
<1> USE DEF IInv, Write
<1>1. TypeOK'
  BY DEF TypeOK, PCs
<1>2. RequestKept'
  BY DEF TypeOK, RequestKept
<1>3. SnapshotIsCurrent'
  BY DEF TypeOK, SnapshotIsCurrent, Holding
<1>4. (Covered /\ NoSameUserCollision)'
  BY DEF TypeOK, Covered, NoSameUserCollision
<1>5. InsertedAlone'
  <2>1. ASSUME NEW q \in Handlers, pc[q] = "commit", q # p
        PROVE  ~SameTxn(req[q], req[p]) /\ ~SameTxn(req[p], req[q])
    BY <2>1 DEF InsertWaits, SameTxn
  <2> QED BY <2>1 DEF TypeOK, InsertedAlone, Recorded
<1>6. NoOverdraft'
  BY DEF NoOverdraft
<1>7. (UniqueTxns /\ AckedIsRecorded)'
  BY DEF UniqueTxns, AckedIsRecorded, Recorded
<1> QED BY <1>1, <1>2, <1>3, <1>4, <1>5, <1>6, <1>7

\* What a handler at its commit knows, and so what the commit does: exactly
\* the step of the abstract ledger.
LEMMA CommitAccepts ==
  ASSUME IInv, NEW p \in Handlers, Commit(p)
  PROVE  /\ CasinoTxn(p) \in TxnRecord
         /\ SameTxn(CasinoTxn(p), req[p]) /\ SameTxn(req[p], CasinoTxn(p))
         /\ Accept(CasinoTxn(p))
<1> DEFINE m == req[p]
           b == btype[p]
           old == row[m.user]
<1>1. /\ m \in Msgs /\ m.user \in Users /\ b \in BalanceTypes
      /\ Staked(m) \in Nat /\ Gained(m) \in Nat
      /\ m.txn_id \in TxnIds /\ m.bet \in Nat /\ m.win \in Nat
      /\ row \in [Users -> [BalanceTypes -> Int]]
  BY Amounts DEF IInv, Commit, SnapshotIsCurrent, RequestKept, Holding, TypeOK
<1>2. /\ m.txn_type \in TxnTypes /\ old[b] >= Staked(m)
      /\ user[p] = [old EXCEPT ![b] = @ - Staked(m) + Gained(m)]
  BY DEF IInv, Commit, SnapshotIsCurrent, Covered, Holding
<1>3. user[p][b] = old[b] - Staked(m) + Gained(m) /\ user[p][b] \in Nat
  BY <1>1, <1>2
<1>4. CasinoTxn(p) \in TxnRecord
  BY <1>1, <1>2, <1>3 DEF CasinoTxn, TxnRecord
<1>5. /\ Staked(CasinoTxn(p)) = Staked(m) /\ Gained(CasinoTxn(p)) = Gained(m)
      /\ SameTxn(CasinoTxn(p), m) /\ SameTxn(m, CasinoTxn(p))
  BY DEF CasinoTxn, Staked, Gained, SameTxn
<1>6. ~Recorded(CasinoTxn(p))
  BY <1>5, SameTxnTransitive DEF IInv, InsertedAlone, Commit, Recorded, SameTxn
<1>7. row' = [row EXCEPT ![m.user][b] = user[p][b]]
  <2>1. user[p] = [old EXCEPT ![b] = user[p][b]]
    BY <1>1, <1>2, <1>3
  <2> QED BY <2>1 DEF Commit
<1> QED BY <1>1, <1>2, <1>3, <1>4, <1>5, <1>6, <1>7
        DEF Accept, CasinoTxn, Commit

\* No other handler at its commit has this key, and none is on this row.
LEMMA CommitStep ==
  ASSUME IInv, NEW p \in Handlers, Commit(p)
  PROVE  IInv'
<1> DEFINE t == CasinoTxn(p)
<1> USE DEF Finish, Reply, Unlock
<1>1. /\ t \in TxnRecord /\ SameTxn(t, req[p]) /\ SameTxn(req[p], t)
      /\ Accept(t) /\ txns' = txns \cup {t} /\ t.user = req[p].user
      /\ t.balanceType = btype[p]
  BY CommitAccepts DEF Commit, CasinoTxn
<1>2. /\ req[p] \in Msgs /\ req[p].user \in Users
      /\ lock[req[p].user] = p /\ pc[p] = "commit"
  BY DEF IInv, Commit, SnapshotIsCurrent, RequestKept, Holding
<1>3. /\ row' \in [Users -> [BalanceTypes -> Int]]
      /\ \A u \in Users : u # req[p].user => row'[u] = row[u]
      /\ \A b \in BalanceTypes : row'[req[p].user][b] >= 0
  BY <1>1, <1>2 DEF IInv, TypeOK, NoOverdraft, Accept, TxnRecord
<1>4. ASSUME NEW q \in Handlers, pc'[q] # "idle"
      PROVE  /\ q # p /\ pc'[q] = pc[q] /\ req'[q] = req[q]
             /\ user'[q] = user[q] /\ btype'[q] = btype[q]
  BY <1>4 DEF IInv, TypeOK, Commit
<1>5. ASSUME NEW q \in Handlers, pc'[q] \in Holding
      PROVE  /\ q # p /\ pc[q] \in Holding /\ req[q].user \in Users
             /\ req[q].user # req[p].user
             /\ lock'[req[q].user] = lock[req[q].user]
             /\ row'[req[q].user] = row[req[q].user]
  <2>1. q # p /\ pc[q] \in Holding
    BY <1>4, <1>5 DEF Holding
  <2>2. req[q].user \in Users /\ req[q].user # req[p].user
    BY <1>2, <2>1 DEF IInv, SnapshotIsCurrent
  <2> QED BY <1>3, <2>1, <2>2 DEF Commit, IInv, TypeOK
<1>6. TypeOK'
  BY <1>1, <1>2, <1>3
     DEF IInv, TypeOK, Commit, PCs, NoBalances, BalanceTypes
<1>7. RequestKept'
  BY <1>4 DEF IInv, RequestKept
<1>8. SnapshotIsCurrent'
  BY <1>4, <1>5 DEF IInv, SnapshotIsCurrent, Holding
<1>9. Covered'
  BY <1>4, <1>5 DEF IInv, Covered, Holding
<1>10. NoOverdraft'
  BY <1>3 DEF IInv, NoOverdraft
<1>11. NoSameUserCollision'
  BY <1>1, <1>4, <1>5 DEF IInv, NoSameUserCollision, Holding
<1>12. InsertedAlone'
  <2>1. ASSUME NEW q \in Handlers, pc'[q] = "commit"
        PROVE  ~SameTxn(t, req[q])
    BY <1>1, <1>2, <1>4, <2>1 DEF IInv, InsertedAlone, SameTxn
  <2> QED BY <1>1, <1>4, <2>1 DEF IInv, InsertedAlone, Recorded
<1>13. UniqueTxns'
  BY <1>1 DEF IInv, UniqueTxns, Accept, Recorded, SameTxn
<1>14. AckedIsRecorded'
  BY <1>1 DEF IInv, AckedIsRecorded, Recorded, Commit
<1> QED BY <1>6, <1>7, <1>8, <1>9, <1>10, <1>11, <1>12, <1>13, <1>14 DEF IInv

-----------------------------------------------------------------------------
(* The theorems                                                            *)

LEMMA StepIInv == IInv /\ [Next]_vars => IInv'
<1> SUFFICES ASSUME IInv, [Next]_vars PROVE IInv'
  OBVIOUS
<1>1. \A p \in Handlers : Ends(p, 0) \/ Ends(p, 1) => IInv'
  BY EndsStep
<1> QED BY NextCases, OutsideStep, ReceiveStep, LockUserStep,
           UserNotFoundStep, ApplyStep, WriteStep, CommitStep, <1>1 DEF IInv

LEMMA Invariance == Spec => []IInv
  BY InitIInv, StepIInv, PTL DEF Spec

\* Every variable keeps its type, and a recorded transaction's new balance
\* is a natural.
THEOREM TypeCorrect == Spec => []TypeOK
  BY Invariance, PTL DEF IInv

\* handleGameCallback never overdraws a balance, however many callbacks for
\* one user run at once.
THEOREM NeverOverdrawn == Spec => []NoOverdraft
  BY Invariance, PTL DEF IInv

\* What a callback read under the row lock is the row until it commits.
THEOREM SnapshotsCurrent == Spec => []SnapshotIsCurrent
  BY Invariance, PTL DEF IInv

\* The unique index is needed only against another user's transaction.
THEOREM NoCollisions == Spec => []NoSameUserCollision
  BY Invariance, PTL DEF IInv

\* A request answered with status 1 is on record.
THEOREM AckedRecorded == Spec => []AckedIsRecorded
  BY Invariance, PTL DEF IInv

\* The log never holds two records with one txn_id and txn_type.
THEOREM TransactionsUnique == Spec => []UniqueTxns
  BY Invariance, PTL DEF IInv

LEMMA StepRefines ==
  ASSUME IInv, [Next]_vars
  PROVE  [Ledger!LedgerNext]_(Ledger!ledgerVars)
<1>1. ASSUME NEW p \in Handlers, Commit(p)
      PROVE  LedgerNext
  BY CommitAccepts, <1>1 DEF LedgerNext, Commit
<1>2. ASSUME NEW p \in Handlers,
             \/ LockUser(p) \/ UserNotFound(p) \/ Apply(p) \/ Write(p)
             \/ Ends(p, 0) \/ Ends(p, 1)
      PROVE  UNCHANGED ledgerVars
  BY <1>2 DEF LockUser, UserNotFound, Apply, Write, Ends, ledgerVars
<1>3. ASSUME NEW p \in Handlers, NEW m \in Msgs, Receive(p, m)
      PROVE  UNCHANGED ledgerVars
  BY <1>3 DEF Receive, ledgerVars
<1>4. Outside => UNCHANGED ledgerVars
  BY DEF Outside, ledgerVars
<1>5. LedgerNext \/ UNCHANGED ledgerVars
  BY NextCases, <1>1, <1>2, <1>3, <1>4 DEF IInv
<1>6. LedgerNext => Ledger!LedgerNext
  BY DEF LedgerNext, Accept, TxnRecord, Staked, Gained, Recorded, SameTxn,
         TxnTypes, BalanceTypes, Ledger!LedgerNext, Ledger!Accept,
         Ledger!TxnRecord, Ledger!Staked, Ledger!Gained, Ledger!Recorded,
         Ledger!SameTxn, Ledger!TxnTypes, Ledger!BalanceTypes
<1> QED BY <1>5, <1>6 DEF Ledger!ledgerVars, ledgerVars

\* handleGameCallback implements the abstract ledger: every step accepts one
\* transaction as a whole, once, on one balance, or changes nothing.
THEOREM Refinement == Spec => ImplementsLedger
<1>1. Init => Ledger!LedgerInit
  BY DEF Init, LedgerInit, Ledger!LedgerInit, BalanceTypes, Ledger!BalanceTypes
<1> QED BY <1>1, Invariance, StepRefines, PTL
        DEF Spec, ImplementsLedger, Ledger!LedgerSpec

-----------------------------------------------------------------------------
(* The calls that take no lock                                             *)

Working == {"save", "update"}

CallTypes ==
  /\ wpc \in [Calls -> {"unsent", "saved", "answered"} \cup Working]
  /\ copy \in [Calls -> [BalanceTypes -> Nat]]
  /\ dirty \in [Calls -> SUBSET BalanceTypes]

\* A call that has read a row is one that may write it.
MayWrite ==
  \A c \in Calls : wpc[c] \in Working => c.user \in Users /\ ~AcknowledgedOnly(c)

CallInv == CallTypes /\ MayWrite

WalletInv == IInv /\ CallInv

-----------------------------------------------------------------------------
LEMMA InitWalletInv == WalletInit => WalletInv
<1> SUFFICES ASSUME WalletInit PROVE WalletInv
  OBVIOUS
<1>1. IInv
  BY InitIInv DEF WalletInit
<1>2. CallInv
  BY DEF WalletInit, CallInv, CallTypes, MayWrite, Working, NoBalances
<1> QED BY <1>1, <1>2 DEF WalletInv

\* The callbacks leave the calls alone.
LEMMA CallbackKeeps ==
  ASSUME WalletInv, Next, UNCHANGED <<wpc, copy, dirty>>
  PROVE  WalletInv'
<1>1. IInv'
  BY StepIInv DEF WalletInv
<1>2. CallInv'
  BY DEF WalletInv, CallInv, CallTypes, MayWrite
<1> QED BY <1>1, <1>2 DEF WalletInv

\* A step that leaves the variables of handleGameCallback as they are.
LEMMA UntouchedKeeps == IInv /\ UNCHANGED vars => IInv'
  BY StepIInv

\* The copy is not negative: a debit is refused when the balance is less.
LEMMA ReadUserKeeps ==
  ASSUME WalletInv, NEW c \in Calls, ReadUser(c)
  PROVE  WalletInv'
<1> USE DEF WalletInv, ReadUser
<1> DEFINE new == [row[c.user] EXCEPT !["realBalance"] = @ + Delta(c)]
<1>1. c.user \in Users /\ ~AcknowledgedOnly(c)
  BY DEF Refused
<1>2. row[c.user] \in [BalanceTypes -> Nat]
  BY <1>1 DEF IInv, TypeOK, NoOverdraft
<1>3. row[c.user]["realBalance"] + Delta(c) \in Nat
  <2>1. c.amount \in Nat /\ row[c.user]["realBalance"] \in Nat
    BY <1>2, CallAssumption DEF CallType, BalanceTypes
  <2>2. c.kind = "debit" => row[c.user]["realBalance"] >= c.amount
    BY <2>1 DEF Refused
  <2> QED BY <2>1, <2>2 DEF Delta
<1>4. new \in [BalanceTypes -> Nat]
  BY <1>2, <1>3 DEF BalanceTypes
<1>5. copy' = [copy EXCEPT ![c] = new]
  OBVIOUS
<1> HIDE DEF new
<1>6. CallInv'
  BY <1>1, <1>4, <1>5
     DEF CallInv, CallTypes, MayWrite, Working, AcknowledgedOnly
<1>7. IInv'
  BY UntouchedKeeps
<1> QED BY <1>6, <1>7

LEMMA AnswerKeeps ==
  ASSUME WalletInv, NEW c \in Calls, AnswerOnly(c)
  PROVE  WalletInv'
<1> USE DEF WalletInv, AnswerOnly
<1>1. CallInv'
  BY DEF CallInv, CallTypes, MayWrite, Working, AcknowledgedOnly
<1> QED BY <1>1, UntouchedKeeps

LEMMA ReloadKeeps ==
  ASSUME WalletInv, NEW c \in Calls, Reload(c)
  PROVE  WalletInv'
<1> USE DEF WalletInv, Reload
<1>1. CallInv'
  BY DEF CallInv, CallTypes, MayWrite, Working, AcknowledgedOnly
<1> QED BY <1>1, UntouchedKeeps

\* The update waits for the row's lock, so no callback holds a copy of the row
\* that it overwrites; what it writes is not negative.
LEMMA UpdateKeeps ==
  ASSUME WalletInv, NEW c \in Calls, Update(c)
  PROVE  WalletInv'
<1> USE DEF WalletInv, Update, handlerVars
<1> DEFINE new == [b \in BalanceTypes |->
                     IF b \in dirty[c] THEN copy[c][b] ELSE row[c.user][b]]
<1>1. c.user \in Users
  BY DEF CallInv, MayWrite, Working
<1>2. new \in [BalanceTypes -> Nat]
  BY <1>1 DEF IInv, TypeOK, NoOverdraft, CallInv, CallTypes
<1>3. row' = [row EXCEPT ![c.user] = new]
  OBVIOUS
<1> HIDE DEF new
<1>4. ASSUME NEW p \in Handlers, pc[p] \in Holding
      PROVE  req[p].user \in Users /\ row'[req[p].user] = row[req[p].user]
  BY <1>3, <1>4, MsgAssumption DEF IInv, TypeOK, SnapshotIsCurrent
<1>5. CallInv'
  BY DEF CallInv, CallTypes, MayWrite, Working, AcknowledgedOnly, NoBalances
<1>6. UNCHANGED <<txns, typeKey, lock, acked, pc, req, btype, user>>
  OBVIOUS
<1>7. IInv'
  <2> HIDE DEF Update
  <2>1. TypeOK'
    <3>1. row' \in [Users -> [BalanceTypes -> Int]]
      <4>1. new \in [BalanceTypes -> Int] /\ row \in [Users -> [BalanceTypes -> Int]]
        BY <1>2 DEF IInv, TypeOK
      <4> HIDE DEF WalletInv
      <4> QED BY <1>3, <4>1
    <3> QED BY <1>6, <3>1 DEF IInv, TypeOK
  <2>2. (RequestKept /\ InsertedAlone /\ NoSameUserCollision)'
    BY <1>6 DEF IInv, RequestKept, InsertedAlone, NoSameUserCollision, Recorded
  <2>3. (SnapshotIsCurrent /\ Covered)'
    BY <1>4, <1>6 DEF IInv, SnapshotIsCurrent, Covered, Holding
  <2>4. NoOverdraft'
    BY <1>1, <1>2, <1>3 DEF IInv, TypeOK, NoOverdraft
  <2>5. (UniqueTxns /\ AckedIsRecorded)'
    BY <1>6 DEF IInv, UniqueTxns, AckedIsRecorded, Recorded
  <2> QED BY <2>1, <2>2, <2>3, <2>4, <2>5 DEF IInv
<1> QED BY <1>5, <1>7

LEMMA StepWalletInv == WalletInv /\ [WalletNext]_walletVars => WalletInv'
<1> SUFFICES ASSUME WalletInv, [WalletNext]_walletVars PROVE WalletInv'
  OBVIOUS
<1>1. CASE UNCHANGED walletVars
  <2>1. IInv'
    BY <1>1, UntouchedKeeps DEF walletVars, WalletInv
  <2>2. CallInv'
    BY <1>1 DEF walletVars, callVars, WalletInv, CallInv, CallTypes, MayWrite
  <2> QED BY <2>1, <2>2 DEF WalletInv
<1>2. CASE Next /\ UNCHANGED <<wpc, copy, dirty>>
  BY <1>2, CallbackKeeps
<1>3. CASE \E c \in Calls : CallStep(c)
  BY <1>3, ReadUserKeeps, AnswerKeeps, ReloadKeeps, UpdateKeeps DEF CallStep
<1> QED BY <1>1, <1>2, <1>3 DEF WalletNext

LEMMA WalletInvariance == WalletSpec => []WalletInv
  BY InitWalletInv, StepWalletInv, PTL DEF WalletSpec

-----------------------------------------------------------------------------
\* Beside any calls that save stale copies without a lock, the row still does not
\* move between a callback's lock and its commit.
THEOREM SnapshotsCurrentBeside == WalletSpec => []SnapshotIsCurrent
  BY WalletInvariance, PTL DEF WalletInv, IInv

\* Callbacks and unlocked calls together never overdraw a balance, although the calls
\* lose each other's changes.
THEOREM NeverOverdrawnBeside == WalletSpec => []NoOverdraft
  BY WalletInvariance, PTL DEF WalletInv, IInv

\* Beside those calls, status 1 is still answered only for a recorded transaction.
THEOREM AckedRecordedBeside == WalletSpec => []AckedIsRecorded
  BY WalletInvariance, PTL DEF WalletInv, IInv

\* Beside those calls, the log still never holds a transaction twice.
THEOREM TransactionsUniqueBeside == WalletSpec => []UniqueTxns
  BY WalletInvariance, PTL DEF WalletInv, IInv

\* Which steps move a balance: the commit of a new record, or the save of a call
\* that is no game transaction.
LEMMA Movers ==
  ASSUME WalletInv, [WalletNext]_walletVars, row' # row
  PROVE  \/ \E t \in txns' \ txns : ~Recorded(t)
         \/ \E c \in Calls : /\ wpc[c] = "update" /\ wpc'[c] = "saved"
                             /\ ~(IsMoney(c) /\ c.game)
<1>1. ASSUME NEW p \in Handlers, Commit(p)
      PROVE  \E t \in txns' \ txns : ~Recorded(t)
  <2>1. ~Recorded(CasinoTxn(p))
    BY <1>1, CommitAccepts DEF WalletInv, Accept
  <2>2. CasinoTxn(p) \in txns' /\ CasinoTxn(p) \notin txns
    BY <1>1, <2>1 DEF Commit, Recorded, SameTxn
  <2> QED BY <2>1, <2>2
<1>2. ASSUME [Next]_vars PROVE \E p \in Handlers : Commit(p)
  <2>1. ~Outside
    BY DEF Outside
  <2>2. ASSUME NEW p \in Handlers, NEW m \in Msgs PROVE ~Receive(p, m)
    BY DEF Receive
  <2>3. ASSUME NEW p \in Handlers
        PROVE  ~(\/ LockUser(p) \/ UserNotFound(p) \/ Apply(p) \/ Write(p)
                 \/ Ends(p, 0) \/ Ends(p, 1))
    BY DEF LockUser, UserNotFound, Apply, Write, Ends
  <2> QED BY <1>2, <2>1, <2>2, <2>3, NextCases DEF WalletInv, IInv
<1>3. ASSUME NEW c \in Calls, CallStep(c)
      PROVE  /\ wpc[c] = "update" /\ wpc'[c] = "saved"
             /\ ~(IsMoney(c) /\ c.game)
  <2>1. Update(c)
    BY <1>3 DEF CallStep, ReadUser, AnswerOnly, Reload, vars
  <2> QED BY <2>1 DEF Update, WalletInv, CallInv, CallTypes, MayWrite, Working,
                      AcknowledgedOnly
<1>4. [Next]_vars \/ \E c \in Calls : CallStep(c)
  BY DEF WalletNext, walletVars
<1> QED BY <1>1, <1>2, <1>3, <1>4

\* A game transaction that game_callback and money_callback both report moves a
\* balance once.
THEOREM MovedOnce == WalletSpec => MovesOnce
  BY WalletInvariance, Movers, PTL DEF WalletSpec, MovesOnce

-----------------------------------------------------------------------------
(* What a balance is                                                       *)

\* What a call holds while no other step moved its user's row.
CopyFits(c) ==
  /\ copy[c] = [row[c.user] EXCEPT !["realBalance"] = @ + Delta(c)]
  /\ wpc[c] = "update" =>
       dirty[c] = {b \in BalanceTypes : copy[c][b] # row[c.user][b]}

CopiesFit == \A c \in Calls : wpc[c] \in Working /\ c.user \notin stale => CopyFits(c)

\* The sums are over finite sets: records and saves come one by one.
FewYet == IsFiniteSet(txns) /\ IsFiniteSet(Saved)

LostInv == CopiesFit /\ FewYet /\ LostNeedsStaleCopy

LEMMA DeltaIsInt == ASSUME NEW c \in Calls PROVE Delta(c) \in Int
<1>1. c.amount \in Nat
  BY CallAssumption DEF CallType
<1> QED BY <1>1 DEF Delta

LEMMA MoveIsInt == ASSUME NEW t \in TxnRecord PROVE Gained(t) - Staked(t) \in Int
<1>1. t.bet \in Nat /\ t.win \in Nat
  BY DEF TxnRecord
<1>2. Gained(t) \in Int /\ Staked(t) \in Int
  BY <1>1 DEF Gained, Staked
<1> QED BY <1>2

TxnsOf(u, b) == {t \in txns : t.user = u /\ t.balanceType = b}
TxnMoves     == [t \in txns |-> Gained(t) - Staked(t)]
SavedOf(u, b) == {c \in Saved : c.user = u /\ b = "realBalance"}
CallMoves     == [c \in Calls |-> Delta(c)]

LEMMA SumsOverFew ==
  ASSUME WalletInv, LostInv, NEW u, NEW b
  PROVE  /\ TxnsMoved(u, b) = SumFunctionOnSet(TxnMoves, TxnsOf(u, b))
         /\ CallsMoved(u, b) = SumFunctionOnSet(CallMoves, SavedOf(u, b))
         /\ TxnMoves \in [txns -> Int] /\ CallMoves \in [Calls -> Int]
         /\ TxnsOf(u, b) \in SUBSET txns /\ IsFiniteSet(TxnsOf(u, b))
         /\ SavedOf(u, b) \in SUBSET Calls /\ IsFiniteSet(SavedOf(u, b))
         /\ TxnsMoved(u, b) \in Int /\ CallsMoved(u, b) \in Int
<1>1. /\ TxnsMoved(u, b) = SumFunctionOnSet(TxnMoves, TxnsOf(u, b))
      /\ CallsMoved(u, b) = SumFunctionOnSet(CallMoves, SavedOf(u, b))
  BY DEF TxnsMoved, CallsMoved, TxnMoves, TxnsOf, CallMoves, SavedOf
<1>2. txns \subseteq TxnRecord
  BY DEF WalletInv, IInv, TypeOK
<1>3. TxnMoves \in [txns -> Int]
  BY <1>2, MoveIsInt DEF TxnMoves
<1>4. CallMoves \in [Calls -> Int]
  BY DeltaIsInt DEF CallMoves
<1>5. /\ TxnsOf(u, b) \in SUBSET txns /\ SavedOf(u, b) \in SUBSET Saved
      /\ SavedOf(u, b) \in SUBSET Calls
  BY DEF TxnsOf, SavedOf, Saved
<1>6. IsFiniteSet(TxnsOf(u, b)) /\ IsFiniteSet(SavedOf(u, b))
  BY <1>5, FS_Subset DEF LostInv, FewYet
<1>7. SumFunctionOnSet(TxnMoves, TxnsOf(u, b)) \in Int
  BY <1>3, <1>5, <1>6, SumType
<1>8. SumFunctionOnSet(CallMoves, SavedOf(u, b)) \in Int
  BY <1>4, <1>5, <1>6, SumType
<1> QED BY <1>1, <1>3, <1>4, <1>5, <1>6, <1>7, <1>8

LEMMA InitLost == WalletInit => LostInv
<1> SUFFICES ASSUME WalletInit PROVE LostInv
  OBVIOUS
<1>1. CopiesFit
  BY DEF WalletInit, CopiesFit, Working
<1>2. txns = {} /\ Saved = {}
  BY DEF WalletInit, Init, LedgerInit, Saved
<1>3. FewYet
  BY <1>2, FS_EmptySet DEF FewYet
<1>4. ASSUME NEW u \in Users, NEW b \in BalanceTypes
      PROVE  row[u][b] = InitialBalance + TxnsMoved(u, b) + CallsMoved(u, b)
  <2>1. TxnMoves \in [{} -> Int] /\ TxnsOf(u, b) = {} /\ SavedOf(u, b) = {}
    BY <1>2 DEF TxnMoves, TxnsOf, SavedOf
  <2>2. CallMoves \in [Calls -> Int]
    BY DeltaIsInt DEF CallMoves
  <2>3. SumFunctionOnSet(TxnMoves, {}) = 0 /\ SumFunctionOnSet(CallMoves, {}) = 0
    BY <2>1, <2>2, SumEmpty
  <2>4. TxnsMoved(u, b) = 0 /\ CallsMoved(u, b) = 0
    BY <2>1, <2>3 DEF TxnsMoved, CallsMoved, TxnMoves, TxnsOf, CallMoves, SavedOf
  <2>5. row[u][b] = InitialBalance /\ InitialBalance \in Nat
    BY MsgAssumption DEF WalletInit, Init, LedgerInit
  <2> QED BY <2>4, <2>5
<1> QED BY <1>1, <1>3, <1>4 DEF LostInv, LostNeedsStaleCopy

\* A step that moves no row, records nothing and saves nothing.
LEMMA NothingMoves ==
  ASSUME LostInv, UNCHANGED <<row, txns, stale>>, Saved' = Saved, CopiesFit'
  PROVE  LostInv'
<1>1. FewYet'
  BY DEF LostInv, FewYet
<1>2. ASSUME NEW u, NEW b
      PROVE  TxnsMoved(u, b)' = TxnsMoved(u, b) /\ CallsMoved(u, b)' = CallsMoved(u, b)
  BY DEF TxnsMoved, CallsMoved, Delta
<1>3. LostNeedsStaleCopy'
  BY <1>2 DEF LostInv, LostNeedsStaleCopy
<1> QED BY <1>1, <1>3 DEF LostInv

\* A copy that still fits after a step that moves rows belongs to a user whose row
\* did not move.
LEMMA OthersFit ==
  ASSUME LostInv, NEW C \in SUBSET Calls, stale' = stale \cup Outdated(C),
         \A c \in Calls \ C : UNCHANGED <<wpc[c], copy[c], dirty[c]>>,
         \A c \in C : wpc'[c] \notin Working, MayWrite
  PROVE  CopiesFit'
<1> SUFFICES ASSUME NEW c \in Calls, wpc'[c] \in Working, c.user \notin stale'
             PROVE  CopyFits(c)'
  BY DEF CopiesFit
<1>1. c \in Calls \ C /\ wpc[c] \in Working /\ c.user \in Users
  BY DEF MayWrite
<1>2. row'[c.user] = row[c.user]
  BY <1>1 DEF Outdated, Working
<1>3. CopyFits(c)
  BY <1>1 DEF LostInv, CopiesFit
<1>4. wpc'[c] = wpc[c] /\ copy'[c] = copy[c] /\ dirty'[c] = dirty[c]
  BY <1>1
<1>5. Delta(c)' = Delta(c)
  BY DEF Delta
<1> QED BY <1>2, <1>3, <1>4, <1>5 DEF CopyFits

LEMMA CallbackKeepsBooks ==
  ASSUME WalletInv, LostInv, Next, stale' = stale \cup Outdated({}),
         UNCHANGED <<wpc, copy, dirty>>
  PROVE  LostInv'
<1>1. CopiesFit'
  BY OthersFit DEF WalletInv, CallInv
<1>2. Saved' = Saved
  BY DEF Saved
<1>3. ASSUME NEW p \in Handlers, Commit(p) PROVE LostInv'
  <2> DEFINE t == CasinoTxn(p)
  <2>1. /\ t \in TxnRecord /\ ~Recorded(t) /\ txns' = txns \cup {t}
        /\ row' = [row EXCEPT ![t.user][t.balanceType] = t.after]
        /\ t.after = row[t.user][t.balanceType] - Staked(t) + Gained(t)
    BY <1>3, CommitAccepts DEF WalletInv, Accept
  <2> HIDE DEF t
  <2>2. t \notin txns
    BY <2>1 DEF Recorded, SameTxn
  <2>3. FewYet'
    BY <1>2, <2>1, FS_AddElement DEF LostInv, FewYet
  <2>4. ASSUME NEW u \in Users \ stale', NEW b \in BalanceTypes
        PROVE  row'[u][b] = InitialBalance + TxnsMoved(u, b)' + CallsMoved(u, b)'
    <3>1. /\ row[u][b] = InitialBalance + TxnsMoved(u, b) + CallsMoved(u, b)
          /\ row[u][b] \in Int /\ InitialBalance \in Int
      BY MsgAssumption DEF LostInv, LostNeedsStaleCopy, WalletInv, IInv, TypeOK
    <3>2. CallsMoved(u, b)' = CallsMoved(u, b)
      BY <1>2 DEF CallsMoved, Delta
    <3> DEFINE S == TxnsOf(u, b)
               g == [s \in txns \cup {t} |-> Gained(s) - Staked(s)]
    <3>3. /\ TxnMoves \in [txns -> Int] /\ S \in SUBSET txns /\ IsFiniteSet(S)
          /\ TxnsMoved(u, b) = SumFunctionOnSet(TxnMoves, S)
          /\ TxnsMoved(u, b) \in Int /\ CallsMoved(u, b) \in Int
      BY SumsOverFew
    <3>4. g \in [txns \cup {t} -> Int]
      BY <2>1, MoveIsInt DEF WalletInv, IInv, TypeOK
    <3>5. \A s \in S : TxnMoves[s] = g[s]
      BY <3>3 DEF TxnMoves
    <3>6. S \in SUBSET (txns \cup {t}) /\ t \in txns \cup {t} /\ t \notin S
      BY <2>2, <3>3
    <3>7. g[t] = Gained(t) - Staked(t) /\ g[t] \in Int
      BY <2>1, MoveIsInt
    <3>8. TxnsMoved(u, b)' =
            SumFunctionOnSet(g, IF t.user = u /\ t.balanceType = b THEN S \cup {t} ELSE S)
      <4>1. {s \in txns' : s.user = u /\ s.balanceType = b}
              = IF t.user = u /\ t.balanceType = b THEN S \cup {t} ELSE S
        BY <2>1 DEF TxnsOf
      <4>2. [s \in txns' |-> (Gained(s) - Staked(s))'] = g
        BY <2>1 DEF Gained, Staked
      <4> HIDE DEF S, g
      <4> QED BY <4>1, <4>2 DEF TxnsMoved
    <3> HIDE DEF S, g
    <3>9. SumFunctionOnSet(g, S) = TxnsMoved(u, b)
      BY <3>3, <3>4, <3>5, <3>6, SumSame
    <3>10. SumFunctionOnSet(g, S \cup {t}) = SumFunctionOnSet(g, S) + g[t]
      BY <3>3, <3>4, <3>6, SumAdd
    <3>11. CASE t.user = u /\ t.balanceType = b
      <4>1. row'[u][b] = row[u][b] - Staked(t) + Gained(t)
        BY <2>1, <3>11 DEF WalletInv, IInv, TypeOK
      <4>2. TxnsMoved(u, b)' = TxnsMoved(u, b) + g[t]
        BY <3>8, <3>9, <3>10, <3>11
      <4>3. Staked(t) \in Int /\ Gained(t) \in Int
        BY <2>1 DEF TxnRecord, Staked, Gained
      <4> QED BY <3>1, <3>2, <3>3, <3>7, <4>1, <4>2, <4>3
    <3>12. CASE ~(t.user = u /\ t.balanceType = b)
      <4>1. row'[u][b] = row[u][b]
        BY <2>1, <3>12 DEF WalletInv, IInv, TypeOK
      <4>2. TxnsMoved(u, b)' = TxnsMoved(u, b)
        BY <3>8, <3>9, <3>12
      <4> QED BY <3>1, <3>2, <4>1, <4>2
    <3> QED BY <3>11, <3>12
  <2> QED BY <1>1, <2>3, <2>4 DEF LostInv, LostNeedsStaleCopy
<1>4. CASE UNCHANGED <<row, txns>>
  <2>1. stale' = stale
    BY <1>4 DEF Outdated
  <2> QED BY <1>1, <1>2, <1>4, <2>1, NothingMoves
<1>5. ASSUME NEW p \in Handlers, NEW m \in Msgs, Receive(p, m) PROVE UNCHANGED <<row, txns>>
  BY <1>5 DEF Receive
<1>6. ASSUME NEW p \in Handlers,
             \/ LockUser(p) \/ UserNotFound(p) \/ Apply(p) \/ Write(p)
             \/ Ends(p, 0) \/ Ends(p, 1)
      PROVE  UNCHANGED <<row, txns>>
  BY <1>6 DEF LockUser, UserNotFound, Apply, Write, Ends
<1>7. Outside => UNCHANGED <<row, txns>>
  BY DEF Outside
<1> QED BY <1>3, <1>4, <1>5, <1>6, <1>7, NextCases DEF WalletInv, IInv

LEMMA CallKeepsBooks ==
  ASSUME WalletInv, LostInv, NEW c \in Calls, CallStep(c)
  PROVE  LostInv'
<1>1. CASE ReadUser(c)
  <2>1. /\ c.user \in Users /\ wpc' = [wpc EXCEPT ![c] = "save"] /\ wpc[c] = "unsent"
        /\ copy' = [copy EXCEPT ![c] = [row[c.user] EXCEPT !["realBalance"] = @ + Delta(c)]]
        /\ UNCHANGED <<row, txns, dirty, stale>>
    BY <1>1 DEF ReadUser, Refused, vars
  <2>2. wpc \in [Calls -> {"unsent", "saved", "answered"} \cup Working]
        /\ copy \in [Calls -> [BalanceTypes -> Nat]]
    BY DEF WalletInv, CallInv, CallTypes
  <2>3. Saved' = Saved
    BY <2>1, <2>2 DEF Saved
  <2>4. CopiesFit'
    <3> SUFFICES ASSUME NEW d \in Calls, wpc'[d] \in Working, d.user \notin stale'
                 PROVE  CopyFits(d)'
      BY DEF CopiesFit
    <3>0. Delta(d)' = Delta(d)
      BY DEF Delta
    <3>1. CASE d = c
      <4>1. wpc'[c] = "save"
            /\ copy'[c] = [row[c.user] EXCEPT !["realBalance"] = @ + Delta(c)]
        BY <2>1, <2>2
      <4> QED BY <2>1, <3>0, <3>1, <4>1 DEF CopyFits
    <3>2. CASE d # c
      <4>1. wpc'[d] = wpc[d] /\ copy'[d] = copy[d]
        BY <2>1, <2>2, <3>2
      <4>2. CopyFits(d)
        BY <2>1, <4>1 DEF LostInv, CopiesFit
      <4> QED BY <2>1, <3>0, <4>1, <4>2 DEF CopyFits
    <3> QED BY <3>1, <3>2
  <2> QED BY <2>1, <2>3, <2>4, NothingMoves
<1>2. CASE AnswerOnly(c)
  <2>1. /\ wpc' = [wpc EXCEPT ![c] = "answered"] /\ wpc[c] = "unsent"
        /\ UNCHANGED <<row, txns, copy, dirty, stale>>
    BY <1>2 DEF AnswerOnly, vars
  <2>2. wpc \in [Calls -> {"unsent", "saved", "answered"} \cup Working]
    BY DEF WalletInv, CallInv, CallTypes
  <2>3. Saved' = Saved
    BY <2>1, <2>2 DEF Saved
  <2>4. CopiesFit'
    BY <2>1, <2>2 DEF LostInv, CopiesFit, CopyFits, Working, Delta
  <2> QED BY <2>1, <2>3, <2>4, NothingMoves
<1>3. CASE Reload(c)
  <2>1. /\ wpc' = [wpc EXCEPT ![c] = "update"] /\ wpc[c] = "save"
        /\ dirty' = [dirty EXCEPT ![c] =
                        {b \in BalanceTypes : copy[c][b] # row[c.user][b]}]
        /\ UNCHANGED <<row, txns, copy, stale>>
    BY <1>3 DEF Reload, vars
  <2>2. /\ wpc \in [Calls -> {"unsent", "saved", "answered"} \cup Working]
        /\ dirty \in [Calls -> SUBSET BalanceTypes]
    BY DEF WalletInv, CallInv, CallTypes
  <2>3. Saved' = Saved
    BY <2>1, <2>2 DEF Saved
  <2>4. CopiesFit'
    <3> SUFFICES ASSUME NEW d \in Calls, wpc'[d] \in Working, d.user \notin stale'
                 PROVE  CopyFits(d)'
      BY DEF CopiesFit
    <3>0. Delta(d)' = Delta(d)
      BY DEF Delta
    <3>1. CopyFits(d)
      BY <2>1, <2>2 DEF LostInv, CopiesFit, Working
    <3>2. CASE d = c
      <4>1. dirty'[c] = {b \in BalanceTypes : copy[c][b] # row[c.user][b]}
        BY <2>1, <2>2
      <4> QED BY <2>1, <3>0, <3>1, <3>2, <4>1 DEF CopyFits
    <3>3. CASE d # c
      <4>1. wpc'[d] = wpc[d] /\ dirty'[d] = dirty[d]
        BY <2>1, <2>2, <3>3
      <4> QED BY <2>1, <3>0, <3>1, <4>1 DEF CopyFits
    <3> QED BY <3>2, <3>3
  <2> QED BY <2>1, <2>3, <2>4, NothingMoves
<1>4. CASE Update(c)
  <2>1. /\ wpc[c] = "update" /\ wpc' = [wpc EXCEPT ![c] = "saved"]
        /\ row' = [row EXCEPT ![c.user] =
                      [b \in BalanceTypes |->
                         IF b \in dirty[c] THEN copy[c][b] ELSE row[c.user][b]]]
        /\ copy' = [copy EXCEPT ![c] = NoBalances]
        /\ dirty' = [dirty EXCEPT ![c] = {}]
        /\ stale' = stale \cup Outdated({c}) /\ txns' = txns
    BY <1>4 DEF Update
  <2>2. /\ wpc \in [Calls -> {"unsent", "saved", "answered"} \cup Working]
        /\ copy \in [Calls -> [BalanceTypes -> Nat]]
        /\ dirty \in [Calls -> SUBSET BalanceTypes] /\ MayWrite
        /\ row \in [Users -> [BalanceTypes -> Int]]
    BY DEF WalletInv, CallInv, CallTypes, IInv, TypeOK
  <2>3. c.user \in Users
    BY <2>1, <2>2 DEF MayWrite, Working
  <2>4. CopiesFit'
    <3> PICK C \in SUBSET Calls : C = {c}
      OBVIOUS
    <3>1. \A d \in Calls \ C : UNCHANGED <<wpc[d], copy[d], dirty[d]>>
      BY <2>1, <2>2
    <3>2. \A d \in C : wpc'[d] \notin Working
      BY <2>1, <2>2 DEF Working
    <3>3. stale' = stale \cup Outdated(C)
      BY <2>1
    <3> QED BY <2>2, <3>1, <3>2, <3>3, OthersFit
  <2>5. c \notin Saved /\ Saved' = Saved \cup {c}
    BY <2>1, <2>2 DEF Saved
  <2>6. FewYet'
    BY <2>1, <2>5, FS_AddElement DEF LostInv, FewYet
  <2>7. ASSUME NEW u \in Users \ stale', NEW b \in BalanceTypes
        PROVE  row'[u][b] = InitialBalance + TxnsMoved(u, b)' + CallsMoved(u, b)'
    <3>0. u \notin stale
      BY <2>1
    <3>1. /\ row[u][b] = InitialBalance + TxnsMoved(u, b) + CallsMoved(u, b)
          /\ row[u][b] \in Int /\ InitialBalance \in Int
      BY <3>0, MsgAssumption DEF LostInv, LostNeedsStaleCopy, WalletInv, IInv, TypeOK
    <3>2. TxnsMoved(u, b)' = TxnsMoved(u, b)
      BY <2>1 DEF TxnsMoved, Gained, Staked
    <3> DEFINE S == SavedOf(u, b)
               mine == c.user = u /\ b = "realBalance"
    <3>3. /\ CallMoves \in [Calls -> Int] /\ S \in SUBSET Calls /\ IsFiniteSet(S)
          /\ CallsMoved(u, b) = SumFunctionOnSet(CallMoves, S)
          /\ TxnsMoved(u, b) \in Int /\ CallsMoved(u, b) \in Int
      BY SumsOverFew
    <3>4. c \notin S /\ CallMoves[c] = Delta(c) /\ Delta(c) \in Int
      BY <2>5, DeltaIsInt DEF SavedOf, CallMoves
    <3>5. CallsMoved(u, b)' =
            SumFunctionOnSet(CallMoves, IF mine THEN S \cup {c} ELSE S)
      <4>1. {d \in Saved' : d.user = u /\ b = "realBalance"} = IF mine THEN S \cup {c} ELSE S
        BY <2>5 DEF SavedOf
      <4>2. [d \in Calls |-> Delta(d)'] = CallMoves
        BY DEF CallMoves, Delta
      <4> HIDE DEF S, mine
      <4> QED BY <4>1, <4>2 DEF CallsMoved
    <3>6. CASE c.user = u
      <4>1. CopyFits(c)
        BY <2>1, <3>0, <3>6 DEF LostInv, CopiesFit, Working
      <4>2. row'[u][b] = copy[c][b]
        BY <2>1, <2>2, <2>3, <3>6, <4>1 DEF CopyFits
      <4>3. copy[c][b] = IF b = "realBalance" THEN row[u][b] + Delta(c) ELSE row[u][b]
        BY <2>2, <2>3, <3>6, <4>1 DEF CopyFits
      <4>4. CASE b = "realBalance"
        <5>1. CallsMoved(u, b)' = SumFunctionOnSet(CallMoves, S \cup {c})
          BY <3>5, <3>6, <4>4
        <5> HIDE DEF S
        <5>2. SumFunctionOnSet(CallMoves, S \cup {c})
                = SumFunctionOnSet(CallMoves, S) + CallMoves[c]
          BY <3>3, <3>4, SumAdd
        <5> QED BY <3>1, <3>2, <3>3, <3>4, <4>2, <4>3, <4>4, <5>1, <5>2
      <4>5. CASE b # "realBalance"
        <5>1. CallsMoved(u, b)' = SumFunctionOnSet(CallMoves, S)
          BY <3>5, <4>5
        <5> HIDE DEF S
        <5> QED BY <3>1, <3>2, <3>3, <4>2, <4>3, <4>5, <5>1
      <4> QED BY <4>4, <4>5
    <3>7. CASE c.user # u
      <4>1. row'[u] = row[u]
        BY <2>1, <2>2, <3>7
      <4>2. CallsMoved(u, b)' = SumFunctionOnSet(CallMoves, S)
        BY <3>5, <3>7
      <4> HIDE DEF S
      <4> QED BY <3>1, <3>2, <3>3, <4>1, <4>2
    <3> QED BY <3>6, <3>7
  <2> QED BY <2>4, <2>6, <2>7 DEF LostInv, LostNeedsStaleCopy
<1> QED BY <1>1, <1>2, <1>3, <1>4 DEF CallStep

LEMMA BooksStay == WalletInv /\ LostInv /\ [WalletNext]_walletVars => LostInv'
<1> SUFFICES ASSUME WalletInv, LostInv, [WalletNext]_walletVars PROVE LostInv'
  OBVIOUS
<1>1. CASE UNCHANGED walletVars
  <2>1. UNCHANGED <<row, txns, wpc, copy, dirty, stale>>
    BY <1>1 DEF walletVars, vars, callVars
  <2>2. CopiesFit'
    BY <2>1 DEF LostInv, CopiesFit, CopyFits, Delta
  <2> QED BY <2>1, <2>2, NothingMoves DEF Saved
<1>2. CASE Next /\ stale' = stale \cup Outdated({}) /\ UNCHANGED <<wpc, copy, dirty>>
  BY <1>2, CallbackKeepsBooks
<1>3. CASE \E c \in Calls : CallStep(c)
  BY <1>3, CallKeepsBooks
<1> QED BY <1>1, <1>2, <1>3 DEF WalletNext

\* A balance is what started, what the recorded game transactions moved and what the
\* completed calls moved, for every user whose row never moved under a call's copy.
THEOREM NothingLostUnlessStale == WalletSpec => []LostNeedsStaleCopy
<1>1. LostInv => LostNeedsStaleCopy
  BY DEF LostInv
<1> QED BY <1>1, InitLost, BooksStay, WalletInvariance, PTL DEF WalletSpec

-----------------------------------------------------------------------------
(* What a browser shows                                                    *)

Message == [pair: BOOLEAN, kind: Fields, now: Balances]

Unread == [step: {"free", "sent", "unauthorized"}, who: Members \cup {Nobody},
           for: {"check", "login", "refresh"}, late: BOOLEAN]
Read   == [step: {"answered"}, who: Members \cup {Nobody},
           for: {"check", "login", "refresh"}, late: BOOLEAN, rows: Balances]

HeldCopy == [step: {"free", "read", "reloaded", "saved"}, who: Members \cup {Nobody},
             kind: Fields, copy: Balances, dirty: SUBSET Fields]

ClientTypes ==
  /\ rows \in [Members -> Balances] /\ promised \in [Members -> Balances]
  /\ writer \in [Writers -> HeldCopy] /\ jwt \in Members \cup {Nobody}
  /\ member \in Members \cup {Nobody, Ghost}
  /\ room \in Members \cup {Nobody} /\ joining \in Members \cup {Nobody}
  /\ inbox \in Seq(Message)
  /\ asking \in [Asks -> Unread \cup Read]
  /\ touched \in [Asks -> SUBSET Fields]

\* The socket is in the room of the user that is shown, or in none, where nothing
\* comes from.
RoomFits ==
  /\ room # Nobody => room = member
  /\ joining # Nobody => joining = member
  /\ room = Nobody => inbox = << >>

\* A call that saves a copy knows whose it is.
CopiesOfMembers == \A w \in Writers : writer[w].step # "free" => writer[w].who \in Members

\* A fetch is about the user whose token is stored, unless another logged in or out.
AsksForStored ==
  \A a \in Asks : asking[a].step # "free" =>
    asking[a].who \in Members /\ (asking[a].who = jwt \/ asking[a].late)

\* What a fetch was told is still so, or about to be, where nothing touched it, or news
\* of it is on its way or owed.
AnswersHold ==
  \A a \in Asks : asking[a].step = "answered" =>
    \A k \in Fields \ touched[a] :
      \/ asking[a].rows[k] = promised[asking[a].who][k]
      \/ asking[a].who = member /\ k \in Unheard
      \/ k \in Owed[asking[a].who]

\* The last message about a balance tells it as it is, or as the open transaction will
\* leave it; without one it is shown so.
LastTells(k) ==
  \A i \in DOMAIN inbox :
    /\ k \in Heard(inbox[i])
    /\ \A j \in DOMAIN inbox : j > i => k \notin Heard(inbox[j])
    => inbox[i].now[k] = promised[member][k]

NewsHolds ==
  member \in Members => \A k \in Fields \ (unsure \cup Owed[member]) :
    LastTells(k) /\ (k \notin Unheard => balances[k] = promised[member][k])

ClientInv == /\ ClientTypes /\ CopiesOfMembers /\ RoomFits /\ AsksForStored
             /\ AnswersHold /\ NewsHolds /\ ShownIsLoggedIn

LEMMA HeardIsField == ASSUME NEW m \in Message PROVE Heard(m) \subseteq Fields
  BY DEF Heard, Message

LEMMA UnheardIs ==
  ASSUME NEW k
  PROVE  k \in Unheard <=> \E i \in DOMAIN inbox : k \in Heard(inbox[i])
  BY DEF Unheard

LEMMA NothingUnheard == inbox = << >> => Unheard = {}
  BY DEF Unheard

LEMMA OwedStays == ASSUME UNCHANGED writer PROVE Owed' = Owed
  BY DEF Owed, Telling

LEMMA CopiesStay == ASSUME CopiesOfMembers, UNCHANGED writer PROVE CopiesOfMembers'
  BY DEF CopiesOfMembers

LEMMA NoCopyIsFree == NoCopy \in HeldCopy /\ NoCopy.step = "free"
  BY ClientAssumption DEF NoCopy, HeldCopy, Zero, Balances, Fields

LEMMA NoAskIsFree == NoAsk \in Unread /\ NoAsk.step = "free"
  BY DEF NoAsk, Unread

LEMMA InitClient == ClientInit => ClientInv
<1> SUFFICES ASSUME ClientInit PROVE ClientInv
  OBVIOUS
<1> USE DEF ClientInit
<1>1. \A a \in Asks : asking[a] = NoAsk
  OBVIOUS
<1>2. ClientTypes /\ CopiesOfMembers
  <2>1. \A w \in Writers : writer[w] = NoCopy
    OBVIOUS
  <2>2. CopiesOfMembers
    BY <2>1, NoCopyIsFree DEF CopiesOfMembers
  <2> QED BY <2>2, ClientAssumption, NoAskIsFree, NoCopyIsFree DEF ClientTypes
<1>3. RoomFits
  BY DEF RoomFits
<1>4. AsksForStored /\ AnswersHold
  BY <1>1, NoAskIsFree DEF AsksForStored, AnswersHold
<1>5. NewsHolds /\ ShownIsLoggedIn
  BY ClientAssumption DEF NewsHolds, ShownIsLoggedIn
<1> QED BY <1>2, <1>3, <1>4, <1>5 DEF ClientInv

\* What a step does to a fetch: it ends, goes on, begins or is answered.
Gone(q)  == asking'[q].step = "free"
Stays(q) == /\ asking'[q].step = asking[q].step /\ asking'[q].who = asking[q].who
            /\ asking[q].step = "answered" => asking'[q].rows = asking[q].rows
            /\ asking[q].late => asking'[q].late
            /\ jwt' # jwt /\ asking[q].step # "free" => asking'[q].late
Sent(q)  == asking'[q].step = "sent" /\ asking'[q].who = jwt' /\ jwt' \in Members
Told(q)  == /\ asking[q].step = "sent" /\ asking'[q].step \in {"answered", "unauthorized"}
            /\ asking'[q].who = asking[q].who /\ jwt' = jwt
            /\ asking[q].late => asking'[q].late
            /\ asking'[q].step = "answered" => \A k \in Fields \ touched'[q] :
                 asking'[q].rows[k] = promised'[asking[q].who][k]

AsksGoOn == \A q \in Asks : Gone(q) \/ Stays(q) \/ Sent(q) \/ Told(q)

LEMMA StoredStays ==
  ASSUME AsksForStored, AsksGoOn
  PROVE  AsksForStored'
<1> SUFFICES ASSUME NEW q \in Asks, asking'[q].step # "free"
             PROVE  asking'[q].who \in Members /\ (asking'[q].who = jwt' \/ asking'[q].late)
  BY DEF AsksForStored
<1>1. CASE Stays(q)
  BY <1>1, Zenon DEF Stays, AsksForStored
<1>2. CASE Sent(q)
  BY <1>2, Zenon DEF Sent
<1>3. CASE Told(q)
  <2>1. asking[q].step # "free"
    BY <1>3 DEF Told
  <2> QED BY <1>3, <2>1, Zenon DEF Told, AsksForStored
<1> QED BY <1>1, <1>2, <1>3, Zenon DEF AsksGoOn, Gone

\* Nothing that a fetch may have missed is forgotten.
LEMMA AnswersStay ==
  ASSUME AnswersHold, AsksGoOn, UNCHANGED serverVars,
         \A q \in Asks : Stays(q) => touched[q] \subseteq touched'[q],
         \A q \in Asks, k \in Unheard :
           Stays(q) => k \in touched'[q] \/ (member' = member /\ k \in Unheard')
  PROVE  AnswersHold'
<1> SUFFICES ASSUME NEW q \in Asks, asking'[q].step = "answered",
                    NEW k \in Fields \ touched'[q]
             PROVE  \/ asking'[q].rows[k] = promised'[asking'[q].who][k]
                    \/ asking'[q].who = member' /\ k \in Unheard'
                    \/ k \in Owed'[asking'[q].who]
  BY DEF AnswersHold
<1>0. promised' = promised /\ Owed' = Owed
  BY OwedStays DEF serverVars
<1>1. CASE Stays(q)
  <2>1. /\ k \notin touched[q] /\ asking[q].step = "answered"
        /\ asking'[q].who = asking[q].who /\ asking'[q].rows = asking[q].rows
    BY <1>1 DEF Stays
  <2>2. \/ asking[q].rows[k] = promised[asking[q].who][k]
        \/ asking[q].who = member /\ k \in Unheard
        \/ k \in Owed[asking[q].who]
    BY <2>1 DEF AnswersHold
  <2> QED BY <1>0, <1>1, <2>1, <2>2
<1>2. CASE Told(q)
  BY <1>2 DEF Told
<1>3. ~Gone(q) /\ ~Sent(q)
  BY DEF Gone, Sent
<1> QED BY <1>1, <1>2, <1>3 DEF AsksGoOn

LEMMA MarkedLate ==
  ASSUME NEW r \in Unread \cup Read
  PROVE  LET s == [r EXCEPT !.late = TRUE]
         IN  /\ s \in Unread \cup Read /\ s.step = r.step /\ s.who = r.who /\ s.late
             /\ r.step = "answered" => s.rows = r.rows
<1>1. CASE r \in Unread
  <2>1. r.step # "answered"
    BY <1>1 DEF Unread
  <2> QED BY <1>1, <2>1 DEF Unread
<1>2. CASE r \in Read
  BY <1>2 DEF Read
<1> QED BY <1>1, <1>2

LEMMA UnchangedStays ==
  ASSUME NEW q \in Asks, asking'[q] = asking[q], jwt' = jwt \/ asking[q].step = "free"
  PROVE  Stays(q)
  BY Zenon DEF Stays

\* The news of the balances shown survives a step that leaves inbox, server and what is
\* shown alone, or that forgets the inbox and records what was in it as unsure.
LEMMA NewsStays ==
  ASSUME NewsHolds, UNCHANGED <<serverVars, member, balances>>, unsure \subseteq unsure',
         inbox' = inbox \/ (inbox' = << >> /\ Unheard \subseteq unsure')
  PROVE  NewsHolds'
<1>0. promised' = promised /\ Owed' = Owed
  BY OwedStays DEF serverVars
<1> SUFFICES ASSUME member \in Members, NEW k \in Fields \ (unsure' \cup Owed[member])
             PROVE  LastTells(k)' /\ (k \notin Unheard' => balances[k] = promised[member][k])
  BY <1>0 DEF NewsHolds
<1>1. k \in Fields \ (unsure \cup Owed[member])
  OBVIOUS
<1>2. LastTells(k) /\ (k \notin Unheard => balances[k] = promised[member][k])
  BY <1>1 DEF NewsHolds
<1>3. CASE inbox' = inbox
  BY <1>0, <1>2, <1>3 DEF LastTells, Unheard, Heard
<1>4. CASE inbox' = << >> /\ Unheard \subseteq unsure'
  <2>1. LastTells(k)'
    BY <1>4 DEF LastTells
  <2> QED BY <1>2, <1>4, <2>1
<1> QED BY <1>3, <1>4

\* A user of whom nothing is shown: there is nothing to hold.
LEMMA NobodyShown ==
  ASSUME member' \notin Members
  PROVE  NewsHolds' /\ ShownIsLoggedIn'
  BY DEF NewsHolds, ShownIsLoggedIn

LEMMA SwitchKeeps ==
  ASSUME ClientInv, SwitchNetwork \/ ConnectionLost
  PROVE  ClientInv'
<1> USE DEF ClientInv, SwitchNetwork, ConnectionLost, Join, Touched
<1>1. /\ UNCHANGED <<serverVars, jwt, member, balances, asking, crossed>>
      /\ inbox' = << >> /\ room' = Nobody
      /\ joining' \in {member, joining}
      /\ member \in Members \/ joining' = joining
      /\ unsure' = unsure \cup Unheard
      /\ touched' = [a \in Asks |-> touched[a] \cup Unheard]
  OBVIOUS
<1>2. Unheard \subseteq Fields
  BY HeardIsField DEF Unheard, ClientTypes
<1> HIDE DEF SwitchNetwork, ConnectionLost, Join, Touched
<1>3. ClientTypes' /\ CopiesOfMembers'
  BY <1>1, <1>2, CopiesStay DEF ClientTypes, serverVars
<1>4. RoomFits'
  BY <1>1 DEF RoomFits
<1>5. AsksGoOn
  BY <1>1, UnchangedStays DEF AsksGoOn
<1>6. AsksForStored'
  BY <1>5, StoredStays
<1>7. AnswersHold'
  BY <1>1, <1>5, AnswersStay
<1>8. NewsHolds'
  BY <1>1, NewsStays
<1>9. ShownIsLoggedIn'
  BY <1>1, Zenon DEF ShownIsLoggedIn
<1> QED BY <1>3, <1>4, <1>6, <1>7, <1>8, <1>9

LEMMA JoinKeeps ==
  ASSUME ClientInv, JoinArrives
  PROVE  ClientInv'
<1> USE DEF ClientInv, JoinArrives
<1>3. ClientTypes' /\ CopiesOfMembers'
  BY CopiesStay DEF ClientTypes, serverVars
<1>4. RoomFits'
  BY DEF RoomFits
<1>5. AsksGoOn
  BY UnchangedStays DEF AsksGoOn
<1>6. AsksForStored'
  BY <1>5, StoredStays
<1>7. AnswersHold'
  <2>1. Unheard' = Unheard
    BY DEF Unheard, Heard
  <2> QED BY <1>5, <2>1, AnswersStay
<1>8. NewsHolds'
  BY NewsStays
<1>9. ShownIsLoggedIn'
  BY Zenon DEF ShownIsLoggedIn
<1> QED BY <1>3, <1>4, <1>6, <1>7, <1>8, <1>9

\* A step that leaves what the browser shows, its inbox and its rooms alone, and
\* what is known of the fetches.
LEMMA QuietKeeps ==
  ASSUME ClientInv, UNCHANGED <<serverVars, member, balances, room, joining, inbox, unsure>>,
         jwt' \in Members \cup {Nobody}, asking' \in [Asks -> Unread \cup Read],
         touched' \in [Asks -> SUBSET Fields], AsksGoOn,
         \A q \in Asks : Stays(q) => touched[q] \subseteq touched'[q],
         ShownIsLoggedIn'
  PROVE  ClientInv'
<1> USE DEF ClientInv
<1>3. ClientTypes' /\ CopiesOfMembers'
  BY CopiesStay DEF ClientTypes, serverVars
<1>4. RoomFits'
  BY DEF RoomFits
<1>6. AsksForStored'
  BY StoredStays
<1>7. AnswersHold'
  <2>1. Unheard' = Unheard
    BY DEF Unheard, Heard
  <2> QED BY <2>1, AnswersStay
<1>8. NewsHolds'
  BY NewsStays
<1> QED BY <1>3, <1>4, <1>6, <1>7, <1>8

LEMMA BeginStep ==
  ASSUME ClientTypes, NEW a \in Asks, NEW u \in Members,
         NEW for \in {"check", "login", "refresh"}, jwt' = u, BeginFetch(a, u, for)
  PROVE  asking' \in [Asks -> Unread \cup Read] /\ AsksGoOn
<1> DEFINE sent == [step |-> "sent", who |-> u, for |-> for, late |-> FALSE]
<1>1. asking' = [q \in Asks |->
         IF q = a THEN sent
         ELSE IF jwt' # jwt /\ asking[q].step # "free" THEN [asking[q] EXCEPT !.late = TRUE]
         ELSE asking[q]]
  BY DEF BeginFetch
<1>2. sent \in Unread /\ sent.step = "sent" /\ sent.who = u
  BY DEF Unread
<1> HIDE DEF sent
<1>3. ASSUME NEW q \in Asks
      PROVE  asking'[q] \in Unread \cup Read /\ (Sent(q) \/ Stays(q))
  <2>0. asking[q] \in Unread \cup Read
    BY DEF ClientTypes
  <2>1. CASE q = a
    BY <1>1, <1>2, <2>1 DEF Sent
  <2>2. CASE q # a /\ jwt' # jwt /\ asking[q].step # "free"
    <3>1. asking'[q] = [asking[q] EXCEPT !.late = TRUE]
      BY <1>1, <2>2
    <3> PICK s : s = [asking[q] EXCEPT !.late = TRUE]
      OBVIOUS
    <3>2. /\ s \in Unread \cup Read /\ s.step = asking[q].step
          /\ s.who = asking[q].who /\ s.late
          /\ asking[q].step = "answered" => s.rows = asking[q].rows
      BY <2>0, MarkedLate
    <3>3. asking'[q] = s
      BY <3>1
    <3> QED BY <3>2, <3>3, Zenon DEF Stays
  <2>3. CASE q # a /\ ~(jwt' # jwt /\ asking[q].step # "free")
    <3>1. asking'[q] = asking[q]
      BY <1>1, <2>3
    <3> QED BY <2>0, <2>3, <3>1, UnchangedStays
  <2> QED BY <2>1, <2>2, <2>3
<1> QED BY <1>1, <1>3 DEF AsksGoOn

LEMMA BeginKeeps ==
  ASSUME ClientInv, NEW a \in Asks,
         \/ CheckAuth(a) \/ Refresh(a) \/ \E u \in Members : Login(a, u)
  PROVE  ClientInv'
<1>1. PICK u \in Members, for \in {"check", "login", "refresh"} :
        /\ BeginFetch(a, u, for) /\ jwt' = u
        /\ UNCHANGED <<serverVars, member, balances, room, joining, inbox, unsure, touched>>
        /\ \/ jwt' = jwt /\ crossed' = crossed
           \/ crossed' = (member # Nobody)
  <2>1. ASSUME CheckAuth(a)
        PROVE  /\ jwt \in Members /\ BeginFetch(a, jwt, "check") /\ jwt' = jwt
               /\ crossed' = crossed
               /\ UNCHANGED <<serverVars, member, balances, room, joining, inbox, unsure, touched>>
    BY <2>1 DEF CheckAuth, ClientInv, ClientTypes
  <2>2. ASSUME Refresh(a)
        PROVE  /\ jwt \in Members /\ BeginFetch(a, jwt, "refresh") /\ jwt' = jwt
               /\ crossed' = crossed
               /\ UNCHANGED <<serverVars, member, balances, room, joining, inbox, unsure, touched>>
    BY <2>2 DEF Refresh, ClientInv, ClientTypes
  <2>3. ASSUME NEW u \in Members, Login(a, u)
        PROVE  /\ BeginFetch(a, u, "login") /\ jwt' = u
               /\ crossed' = (member # Nobody)
               /\ UNCHANGED <<serverVars, member, balances, room, joining, inbox, unsure, touched>>
    BY <2>3, Zenon DEF Login
  <2> QED BY <2>1, <2>2, <2>3, Zenon
<1>2. asking' \in [Asks -> Unread \cup Read] /\ AsksGoOn
  BY <1>1, BeginStep DEF ClientInv
<1>3. ShownIsLoggedIn'
  <2>1. ASSUME jwt' = jwt, crossed' = crossed PROVE ShownIsLoggedIn'
    BY <1>1, <2>1, Zenon DEF ShownIsLoggedIn, ClientInv
  <2>2. ASSUME crossed' = (member # Nobody) PROVE ShownIsLoggedIn'
    <3>1. member \in Members => member # Nobody
      BY ClientAssumption
    <3> QED BY <1>1, <2>2, <3>1, Zenon DEF ShownIsLoggedIn
  <2> QED BY <1>1, <2>1, <2>2, Zenon
<1>4. jwt' \in Members \cup {Nobody} /\ touched' \in [Asks -> SUBSET Fields]
  BY <1>1 DEF ClientInv, ClientTypes
<1> QED BY <1>1, <1>2, <1>3, <1>4, QuietKeeps

LEMMA AnswerStep ==
  ASSUME ClientInv, NEW a \in Asks, ServerAnswers(a)
  PROVE  ClientInv'
<1>1. /\ asking[a].step = "sent"
      /\ UNCHANGED <<serverVars, jwt, member, balances, room, joining, inbox, unsure, crossed>>
      /\ touched' = [touched EXCEPT ![a] =
           {k \in Fields : promised[asking[a].who][k] # rows[asking[a].who][k]}]
  BY DEF ServerAnswers
<1>2. ShownIsLoggedIn'
  BY <1>1, Zenon DEF ShownIsLoggedIn, ClientInv
<1>3. /\ asking[a] \in Unread /\ asking \in [Asks -> Unread \cup Read]
      /\ touched \in [Asks -> SUBSET Fields] /\ asking[a].who \in Members
      /\ rows[asking[a].who] \in Balances
  <2>1. asking[a].who \in Members
    BY <1>1 DEF ClientInv, AsksForStored
  <2> QED BY <1>1, <2>1 DEF ClientInv, ClientTypes, Read
<1> DEFINE told == [step |-> "answered", who |-> asking[a].who, for |-> asking[a].for,
                    late |-> asking[a].late, rows |-> rows[asking[a].who]]
           none == [asking[a] EXCEPT !.step = "unauthorized"]
<1>4. \E s \in {told, none} : asking' = [asking EXCEPT ![a] = s]
  BY <1>3 DEF ServerAnswers
<1>5. ASSUME NEW s \in {told, none}
      PROVE  /\ s \in Unread \cup Read /\ s.step \in {"answered", "unauthorized"}
             /\ s.who = asking[a].who /\ s.late = asking[a].late
             /\ s.step = "answered" => s.rows = rows[asking[a].who]
  BY <1>3 DEF Unread, Read
<1> HIDE DEF told, none
<1> PICK s \in {told, none} : asking' = [asking EXCEPT ![a] = s]
  BY <1>4
<1>6. asking'[a] = s /\ \A q \in Asks \ {a} : asking'[q] = asking[q]
  BY <1>3
<1>7. Told(a)
  <2>1. promised' = promised /\ rows' = rows
    BY <1>1 DEF serverVars
  <2>2. touched'[a] = {k \in Fields : promised[asking[a].who][k] # rows[asking[a].who][k]}
    BY <1>1, <1>3
  <2>3. s.step = "answered" => \A k \in Fields \ touched'[a] :
          s.rows[k] = promised'[asking[a].who][k]
    BY <1>5, <2>1, <2>2
  <2> QED BY <1>1, <1>5, <1>6, <2>3, Zenon DEF Told
<1>8. \A q \in Asks \ {a} : Stays(q)
  BY <1>1, <1>6, UnchangedStays
<1>9. AsksGoOn
  BY <1>7, <1>8 DEF AsksGoOn
<1>10. \A q \in Asks : Stays(q) => touched[q] \subseteq touched'[q]
  <2>1. ~Stays(a)
    BY <1>1, <1>7 DEF Told, Stays
  <2> QED BY <1>1, <1>3, <2>1
<1>11. /\ asking' \in [Asks -> Unread \cup Read]
       /\ touched' \in [Asks -> SUBSET Fields] /\ jwt' \in Members \cup {Nobody}
  BY <1>1, <1>3, <1>5 DEF ClientInv, ClientTypes
<1> QED BY <1>1, <1>2, <1>9, <1>10, <1>11, QuietKeeps

LEMMA LogoutKeeps ==
  ASSUME ClientInv, Logout
  PROVE  ClientInv'
<1>1. /\ UNCHANGED serverVars /\ jwt' = Nobody /\ member' = Nobody /\ inbox' = << >>
      /\ room' = Nobody /\ joining' = Nobody
      /\ touched' = [a \in Asks |-> touched[a] \cup Unheard]
      /\ asking' = [a \in Asks |-> IF asking[a].step = "free" THEN asking[a]
                                   ELSE [asking[a] EXCEPT !.late = TRUE]]
  BY DEF Logout, Join, Touched, AfterLogout
<1>2. Unheard \subseteq Fields
  BY HeardIsField DEF Unheard, ClientInv, ClientTypes
<1>3. ASSUME NEW q \in Asks PROVE asking'[q] \in Unread \cup Read /\ Stays(q)
  <2>0. asking[q] \in Unread \cup Read
    BY DEF ClientInv, ClientTypes
  <2>1. CASE asking[q].step = "free"
    <3>1. asking'[q] = asking[q]
      BY <1>1, <2>1
    <3> QED BY <2>0, <2>1, <3>1, UnchangedStays
  <2>2. CASE asking[q].step # "free"
    <3> PICK s : s = [asking[q] EXCEPT !.late = TRUE]
      OBVIOUS
    <3>1. /\ s \in Unread \cup Read /\ s.step = asking[q].step
          /\ s.who = asking[q].who /\ s.late
          /\ asking[q].step = "answered" => s.rows = asking[q].rows
      BY <2>0, MarkedLate
    <3>2. asking'[q] = s
      BY <1>1, <2>2
    <3> QED BY <3>1, <3>2, Zenon DEF Stays
  <2> QED BY <2>1, <2>2
<1>4. ClientTypes' /\ CopiesOfMembers'
  <2>1. asking' \in [Asks -> Unread \cup Read]
    <3>1. \A q \in Asks : asking'[q] \in Unread \cup Read
      BY <1>3
    <3>2. asking' = [q \in Asks |-> asking'[q]]
      BY <1>1
    <3> QED BY <3>1, <3>2
  <2>2. touched' \in [Asks -> SUBSET Fields]
    BY <1>1, <1>2 DEF ClientInv, ClientTypes
  <2> QED BY <1>1, <2>1, <2>2, CopiesStay DEF ClientInv, ClientTypes, serverVars
<1>5. RoomFits'
  BY <1>1 DEF RoomFits
<1>6. AsksGoOn
  BY <1>3 DEF AsksGoOn
<1>7. AsksForStored'
  BY <1>6, StoredStays DEF ClientInv
<1>8. AnswersHold'
  BY <1>1, <1>6, AnswersStay DEF ClientInv
<1>9. member' \notin Members
  BY <1>1, ClientAssumption
<1> QED BY <1>4, <1>5, <1>7, <1>8, <1>9, NobodyShown DEF ClientInv

\* Whoever is shown next, the fetches and the rooms stay in order.
LEMMA SetUserKeeps ==
  ASSUME ClientInv, NEW a \in Asks, NEW u \in Members \cup {Nobody, Ghost}, NEW b,
         SetUser(a, u, b), UNCHANGED serverVars, jwt' \in Members \cup {Nobody},
         asking' \in [Asks -> Unread \cup Read], AsksGoOn, Gone(a)
  PROVE  /\ ClientTypes' /\ CopiesOfMembers' /\ RoomFits' /\ AsksForStored' /\ AnswersHold'
         /\ member' = u /\ balances' = b
         /\ u = member => inbox' = inbox
         /\ u # member => inbox' = << >>
<1>0. /\ member' = u /\ balances' = b /\ CopiesOfMembers'
      /\ rows' = rows /\ promised' = promised /\ writer' = writer /\ Owed' = Owed
  BY CopiesStay, OwedStays DEF SetUser, serverVars, ClientInv
<1>1. CASE u = member
  <2>1. /\ UNCHANGED <<room, joining, inbox, member>>
        /\ touched' = [[q \in Asks |-> touched[q] \cup {}] EXCEPT ![a] = {}]
    BY <1>1 DEF SetUser, Touched
  <2>2. ClientTypes'
    BY <1>0, <2>1 DEF ClientInv, ClientTypes
  <2>3. RoomFits'
    BY <2>1 DEF ClientInv, RoomFits
  <2>4. ASSUME NEW q \in Asks, Stays(q), q # a PROVE touched[q] \subseteq touched'[q]
    BY <2>1, <2>4
  <2>5. Unheard' = Unheard
    BY <2>1 DEF Unheard, Heard
  <2>6. AnswersHold'
    <3> SUFFICES ASSUME NEW q \in Asks, asking'[q].step = "answered",
                        NEW k \in Fields \ touched'[q]
                 PROVE  \/ asking'[q].rows[k] = promised[asking'[q].who][k]
                        \/ asking'[q].who = member /\ k \in Unheard
                        \/ k \in Owed[asking'[q].who]
      BY <1>0, <2>1, <2>5 DEF AnswersHold
    <3>1. q # a
      BY DEF Gone
    <3>2. CASE Stays(q)
      <4>1. /\ asking[q].step = "answered" /\ asking'[q].who = asking[q].who
            /\ asking'[q].rows = asking[q].rows
        BY <3>2 DEF Stays
      <4>2. k \notin touched[q]
        BY <2>4, <3>1, <3>2
      <4>3. \/ asking[q].rows[k] = promised[asking[q].who][k]
            \/ asking[q].who = member /\ k \in Unheard
            \/ k \in Owed[asking[q].who]
        BY <4>1, <4>2 DEF ClientInv, AnswersHold
      <4> QED BY <4>1, <4>3
    <3>3. CASE Told(q)
      BY <1>0, <3>3 DEF Told
    <3>4. ~Gone(q) /\ ~Sent(q)
      BY DEF Gone, Sent
    <3> QED BY <3>2, <3>3, <3>4 DEF AsksGoOn
  <2>7. AsksForStored'
    BY StoredStays DEF ClientInv
  <2> QED BY <1>0, <1>1, <2>1, <2>2, <2>3, <2>6, <2>7
<1>2. CASE u # member
  <2>1. /\ room' = Nobody /\ inbox' = << >>
        /\ joining' = IF u \in Members THEN u ELSE Nobody
        /\ touched' = [[q \in Asks |-> touched[q] \cup Unheard] EXCEPT ![a] = {}]
    BY <1>2 DEF SetUser, Join, Touched
  <2>2. Unheard \subseteq Fields
    BY HeardIsField DEF Unheard, ClientInv, ClientTypes
  <2>3. ClientTypes'
    BY <1>0, <2>1, <2>2 DEF ClientInv, ClientTypes
  <2>4. RoomFits'
    BY <1>0, <2>1 DEF RoomFits
  <2>5. AnswersHold'
    <3> SUFFICES ASSUME NEW q \in Asks, asking'[q].step = "answered",
                        NEW k \in Fields \ touched'[q]
                 PROVE  \/ asking'[q].rows[k] = promised[asking'[q].who][k]
                        \/ k \in Owed[asking'[q].who]
      BY <1>0 DEF AnswersHold
    <3>1. q # a
      BY DEF Gone
    <3>2. CASE Stays(q)
      <4>1. /\ asking[q].step = "answered" /\ asking'[q].who = asking[q].who
            /\ asking'[q].rows = asking[q].rows
        BY <3>2 DEF Stays
      <4>2. k \notin touched[q] /\ k \notin Unheard
        BY <2>1, <3>1
      <4>3. \/ asking[q].rows[k] = promised[asking[q].who][k]
            \/ k \in Owed[asking[q].who]
        BY <4>1, <4>2 DEF ClientInv, AnswersHold
      <4> QED BY <4>1, <4>3
    <3>3. CASE Told(q)
      BY <1>0, <3>3 DEF Told
    <3>4. ~Gone(q) /\ ~Sent(q)
      BY DEF Gone, Sent
    <3> QED BY <3>2, <3>3, <3>4 DEF AsksGoOn
  <2>6. AsksForStored'
    BY StoredStays DEF ClientInv
  <2> QED BY <1>0, <1>2, <2>1, <2>3, <2>4, <2>5, <2>6
<1> QED BY <1>1, <1>2

LEMMA EndOneAsk ==
  ASSUME ClientTypes, NEW a \in Asks, asking' = [asking EXCEPT ![a] = NoAsk], jwt' = jwt
  PROVE  asking' \in [Asks -> Unread \cup Read] /\ AsksGoOn /\ Gone(a)
<1>1. asking'[a] = NoAsk /\ \A q \in Asks \ {a} : asking'[q] = asking[q]
  BY DEF ClientTypes
<1>2. Gone(a)
  BY <1>1, NoAskIsFree DEF Gone
<1>3. \A q \in Asks \ {a} : Stays(q)
  BY <1>1, UnchangedStays
<1>4. asking' \in [Asks -> Unread \cup Read]
  BY NoAskIsFree DEF ClientTypes
<1> QED BY <1>2, <1>3, <1>4 DEF AsksGoOn

\* What the fetch was told is what is shown, where nothing touched it and no news is
\* on its way; where news is on its way, the last of it tells the balance.
LEMMA ArriveKeeps ==
  ASSUME ClientInv, NEW a \in Asks, UserArrives(a)
  PROVE  ClientInv'
<1>1. /\ asking[a].step = "answered" /\ SetUser(a, asking[a].who, asking[a].rows)
      /\ unsure' = touched[a] \cup (unsure \cap Unheard)
      /\ crossed' = asking[a].late /\ asking' = [asking EXCEPT ![a] = NoAsk]
      /\ UNCHANGED serverVars /\ jwt' = jwt
  BY Zenon DEF UserArrives
<1> PICK u : u = asking[a].who
  OBVIOUS
<1>2. u \in Members /\ (u = jwt \/ asking[a].late)
  BY <1>1, Zenon DEF ClientInv, AsksForStored
<1>3. asking' \in [Asks -> Unread \cup Read] /\ AsksGoOn /\ Gone(a)
  BY <1>1, EndOneAsk DEF ClientInv
<1>4. jwt' \in Members \cup {Nobody}
  BY <1>1, <1>3 DEF Gone, ClientInv, ClientTypes
<1>5. SetUser(a, u, asking[a].rows)
  BY <1>1
<1>6. /\ ClientTypes' /\ CopiesOfMembers' /\ RoomFits' /\ AsksForStored' /\ AnswersHold'
      /\ member' = u /\ balances' = asking[a].rows
      /\ u = member => inbox' = inbox
      /\ u # member => inbox' = << >>
  BY <1>1, <1>2, <1>3, <1>4, <1>5, SetUserKeeps
<1>7. ShownIsLoggedIn'
  BY <1>1, <1>2, <1>6, Zenon DEF ShownIsLoggedIn
<1>8. NewsHolds'
  <2>0. promised' = promised /\ Owed' = Owed
    BY <1>1, OwedStays DEF serverVars
  <2> SUFFICES ASSUME NEW k \in Fields \ (unsure' \cup Owed[u])
               PROVE  /\ LastTells(k)'
                      /\ k \notin Unheard' => asking[a].rows[k] = promised[u][k]
    BY <1>1, <1>6, <2>0 DEF NewsHolds
  <2>1. k \notin touched[a] /\ (k \notin unsure \/ k \notin Unheard)
    BY <1>1
  <2>2. \/ asking[a].rows[k] = promised[u][k]
        \/ u = member /\ k \in Unheard
    BY <1>1, <2>1 DEF ClientInv, AnswersHold
  <2>3. CASE u = member
    <3>1. Unheard' = Unheard /\ (LastTells(k) => LastTells(k)')
      BY <1>6, <2>0, <2>3 DEF Unheard, Heard, LastTells
    <3>2. CASE k \in Unheard
      <4>1. LastTells(k)
        BY <1>2, <2>1, <2>3, <3>2 DEF ClientInv, NewsHolds
      <4> QED BY <3>1, <3>2, <4>1
    <3>3. CASE k \notin Unheard
      <4>1. LastTells(k)
        BY <3>3, UnheardIs DEF LastTells
      <4> QED BY <2>2, <3>1, <3>3, <4>1
    <3> QED BY <3>2, <3>3
  <2>4. CASE u # member
    <3>1. LastTells(k)'
      BY <1>6, <2>4 DEF LastTells
    <3> QED BY <2>2, <2>4, <3>1
  <2> QED BY <2>3, <2>4
<1> QED BY <1>6, <1>7, <1>8 DEF ClientInv

LEMMA UnauthorizedKeeps ==
  ASSUME ClientInv, NEW a \in Asks, Unauthorized(a)
  PROVE  ClientInv'
<1>1. PICK u \in {Nobody, Ghost} :
        /\ SetUser(a, u, Zero) /\ UNCHANGED serverVars /\ jwt' \in {jwt, Nobody}
        /\ asking' = [q \in Asks |-> IF q = a THEN NoAsk
             ELSE IF jwt' # jwt /\ asking[q].step # "free"
                  THEN [asking[q] EXCEPT !.late = TRUE]
             ELSE asking[q]]
  <2>1. CASE asking[a].for = "check"
    <3>1. SetUser(a, Nobody, Zero) /\ jwt' = Nobody
      BY <2>1 DEF Unauthorized
    <3> QED BY <3>1 DEF Unauthorized
  <2>2. CASE asking[a].for # "check"
    <3>1. SetUser(a, Ghost, Zero) /\ jwt' = jwt
      BY <2>2 DEF Unauthorized
    <3> QED BY <3>1 DEF Unauthorized
  <2> QED BY <2>1, <2>2
<1>2. ASSUME NEW q \in Asks
      PROVE  asking'[q] \in Unread \cup Read /\ (IF q = a THEN Gone(q) ELSE Stays(q))
  <2>0. asking[q] \in Unread \cup Read
    BY DEF ClientInv, ClientTypes
  <2>1. CASE q = a
    BY <1>1, <2>1, NoAskIsFree DEF Gone
  <2>2. CASE q # a /\ jwt' # jwt /\ asking[q].step # "free"
    <3> PICK s : s = [asking[q] EXCEPT !.late = TRUE]
      OBVIOUS
    <3>1. /\ s \in Unread \cup Read /\ s.step = asking[q].step
          /\ s.who = asking[q].who /\ s.late
          /\ asking[q].step = "answered" => s.rows = asking[q].rows
      BY <2>0, MarkedLate
    <3>2. asking'[q] = s
      BY <1>1, <2>2
    <3>3. Stays(q)
      BY <3>1, <3>2, Zenon DEF Stays
    <3> QED BY <2>2, <3>1, <3>2, <3>3
  <2>3. CASE q # a /\ ~(jwt' # jwt /\ asking[q].step # "free")
    <3>1. asking'[q] = asking[q]
      BY <1>1, <2>3
    <3>2. Stays(q)
      BY <2>3, <3>1, UnchangedStays
    <3> QED BY <2>0, <2>3, <3>1, <3>2
  <2> QED BY <2>1, <2>2, <2>3
<1>3. asking' \in [Asks -> Unread \cup Read] /\ AsksGoOn /\ Gone(a)
  <2>1. asking' \in [Asks -> Unread \cup Read]
    BY <1>1, <1>2
  <2> QED BY <1>2, <2>1 DEF AsksGoOn
<1>4. jwt' \in Members \cup {Nobody}
  BY <1>1, <1>3 DEF Gone, ClientInv, ClientTypes
<1>5. /\ ClientTypes' /\ CopiesOfMembers' /\ RoomFits' /\ AsksForStored' /\ AnswersHold'
      /\ member' = u
  BY <1>1, <1>3, <1>4, SetUserKeeps
<1>6. member' \notin Members
  BY <1>1, <1>5, ClientAssumption
<1> QED BY <1>5, <1>6, NobodyShown DEF ClientInv

LEMMA FailKeeps ==
  ASSUME ClientInv, NEW a \in Asks, AskFails(a)
  PROVE  ClientInv'
<1>1. UNCHANGED serverVars /\ jwt' = jwt /\ asking' = [asking EXCEPT ![a] = NoAsk]
  BY DEF AskFails
<1>2. asking' \in [Asks -> Unread \cup Read] /\ AsksGoOn /\ Gone(a)
  BY <1>1, EndOneAsk DEF ClientInv
<1>3. jwt' \in Members \cup {Nobody}
  BY <1>1, <1>2 DEF Gone, ClientInv, ClientTypes
<1>4. CASE asking[a].for = "check"
  <2>1. SetUser(a, Nobody, Zero)
    BY <1>4 DEF AskFails
  <2>2. /\ ClientTypes' /\ CopiesOfMembers' /\ RoomFits' /\ AsksForStored' /\ AnswersHold'
        /\ member' = Nobody
    BY <1>1, <1>2, <1>3, <2>1, SetUserKeeps
  <2>3. member' \notin Members
    BY <2>2, ClientAssumption
  <2> QED BY <2>2, <2>3, NobodyShown DEF ClientInv
<1>5. CASE asking[a].for # "check"
  <2>1. /\ touched' = [touched EXCEPT ![a] = {}]
        /\ UNCHANGED <<member, balances, room, joining, inbox, isLoggedIn, unsure, crossed>>
    BY <1>5, Zenon DEF AskFails
  <2>2. ShownIsLoggedIn'
    BY <1>1, <2>1, Zenon DEF ClientInv, ShownIsLoggedIn
  <2>3. touched' \in [Asks -> SUBSET Fields]
    BY <2>1 DEF ClientInv, ClientTypes
  <2>4. ASSUME NEW q \in Asks, Stays(q) PROVE touched[q] \subseteq touched'[q]
    <3>1. asking[a].step # "free"
      BY DEF AskFails
    <3>2. q # a
      BY <1>2, <2>4, <3>1 DEF Gone, Stays
    <3> QED BY <2>1, <3>2 DEF ClientInv, ClientTypes
  <2> QED BY <1>1, <1>2, <1>3, <2>1, <2>2, <2>3, <2>4, QuietKeeps
<1> QED BY <1>4, <1>5

\* The server moves a balance in a way that the browser is not told of, or not yet.
Hidden(u, k) ==
  \/ k \in Owed'[u]
  \/ /\ u = member => k \in unsure'
     /\ \A q \in Asks : asking[q].who = u => k \in touched'[q]
Kept(u, k) == promised'[u][k] = promised[u][k] /\ (k \in Owed[u] => k \in Owed'[u])

BrowserWaits ==
  /\ UNCHANGED <<jwt, member, balances, room, joining, asking, crossed>>
  /\ rows' \in [Members -> Balances] /\ promised' \in [Members -> Balances]
  /\ writer' \in [Writers -> HeldCopy] /\ CopiesOfMembers'
  /\ touched' \in [Asks -> SUBSET Fields]
  /\ \A q \in Asks : touched[q] \subseteq touched'[q]

LEMMA WaitingKeeps ==
  ASSUME ClientInv, BrowserWaits, inbox' \in Seq(Message), room = Nobody => inbox' = inbox
  PROVE  ClientTypes' /\ RoomFits' /\ AsksForStored' /\ ShownIsLoggedIn'
<1>1. \A q \in Asks : Stays(q)
  BY UnchangedStays DEF BrowserWaits
<1>2. AsksForStored'
  BY <1>1, StoredStays DEF AsksGoOn, ClientInv
<1>3. ShownIsLoggedIn'
  BY Zenon DEF ClientInv, ShownIsLoggedIn, BrowserWaits
<1> QED BY <1>2, <1>3 DEF ClientInv, ClientTypes, RoomFits, BrowserWaits

\* No message is sent: what moves is hidden.
LEMMA SilentKeeps ==
  ASSUME ClientInv, BrowserWaits, inbox' = inbox, unsure \subseteq unsure',
         \A u \in Members, k \in Fields : Kept(u, k) \/ Hidden(u, k)
  PROVE  ClientInv'
<1>1. ClientTypes' /\ RoomFits' /\ AsksForStored' /\ ShownIsLoggedIn'
  BY WaitingKeeps DEF ClientInv, ClientTypes
<1>2. Unheard' = Unheard
  BY DEF Unheard, Heard
<1>3. AnswersHold'
  <2> SUFFICES ASSUME NEW q \in Asks, asking[q].step = "answered",
                      NEW k \in Fields \ touched'[q]
               PROVE  \/ asking[q].rows[k] = promised'[asking[q].who][k]
                      \/ asking[q].who = member /\ k \in Unheard
                      \/ k \in Owed'[asking[q].who]
    BY <1>2 DEF AnswersHold, BrowserWaits
  <2>1. k \notin touched[q] /\ asking[q].who \in Members
    BY DEF BrowserWaits, ClientInv, AsksForStored
  <2>2. \/ asking[q].rows[k] = promised[asking[q].who][k]
        \/ asking[q].who = member /\ k \in Unheard
        \/ k \in Owed[asking[q].who]
    BY <2>1 DEF ClientInv, AnswersHold
  <2>3. Kept(asking[q].who, k) \/ k \in Owed'[asking[q].who]
    BY <2>1 DEF Hidden
  <2> QED BY <2>2, <2>3 DEF Kept
<1>4. NewsHolds'
  <2> SUFFICES ASSUME member \in Members, NEW k \in Fields \ (unsure' \cup Owed'[member])
               PROVE  LastTells(k)' /\ (k \notin Unheard => balances[k] = promised'[member][k])
    BY <1>2 DEF NewsHolds, BrowserWaits
  <2>1. Kept(member, k)
    BY DEF Hidden
  <2>2. k \in Fields \ (unsure \cup Owed[member])
    BY <2>1 DEF Kept
  <2>3. LastTells(k) /\ (k \notin Unheard => balances[k] = promised[member][k])
    BY <2>2 DEF ClientInv, NewsHolds
  <2>4. promised'[member][k] = promised[member][k] /\ member' = member
    BY <2>1 DEF Kept, BrowserWaits
  <2>5. LastTells(k)'
    BY <2>3, <2>4 DEF LastTells, Heard
  <2> QED BY <2>3, <2>4, <2>5
<1> QED BY <1>1, <1>3, <1>4 DEF ClientInv, BrowserWaits

\* A message is sent: where nothing is unsure it tells the balance, and what else moves
\* is hidden.
LEMMA MessageKeeps ==
  ASSUME ClientInv, BrowserWaits, NEW m \in Message, inbox' = Append(inbox, m),
         room \in Members, unsure \subseteq unsure' \cup Heard(m),
         \A k \in Heard(m) \ unsure' : m.now[k] = promised'[room][k],
         \A u \in Members, k \in Fields :
           Kept(u, k) \/ Hidden(u, k) \/ (u = room /\ k \in Heard(m))
  PROVE  ClientInv'
<1>0. member = room /\ member' = member
  BY ClientAssumption DEF ClientInv, RoomFits, BrowserWaits
<1>1. /\ inbox \in Seq(Message) /\ inbox' \in Seq(Message)
      /\ Len(inbox') = Len(inbox) + 1 /\ Len(inbox) \in Nat
      /\ DOMAIN inbox = 1 .. Len(inbox) /\ DOMAIN inbox' = 1 .. Len(inbox) + 1
      /\ inbox'[Len(inbox) + 1] = m
      /\ \A i \in 1 .. Len(inbox) : inbox'[i] = inbox[i]
  BY DEF ClientInv, ClientTypes
<1>2. ClientTypes' /\ RoomFits' /\ AsksForStored' /\ ShownIsLoggedIn'
  BY <1>1, WaitingKeeps, ClientAssumption
<1>3. ASSUME NEW k PROVE k \in Unheard' <=> k \in Unheard \/ k \in Heard(m)
  <2>1. k \in Unheard' <=> \E i \in 1 .. Len(inbox) + 1 : k \in Heard(inbox'[i])
    BY <1>1 DEF Unheard, Heard
  <2>2. k \in Unheard <=> \E i \in 1 .. Len(inbox) : k \in Heard(inbox[i])
    BY <1>1, UnheardIs
  <2>3. /\ Len(inbox) + 1 \in 1 .. Len(inbox) + 1
        /\ \A i \in 1 .. Len(inbox) + 1 : i = Len(inbox) + 1 \/ i \in 1 .. Len(inbox)
        /\ \A i \in 1 .. Len(inbox) : i \in 1 .. Len(inbox) + 1
    BY <1>1
  <2> PICK n : n = Len(inbox) + 1
    OBVIOUS
  <2>4. inbox'[n] = m
    BY <1>1
  <2> QED BY <1>1, <2>1, <2>2, <2>3, <2>4
<1>4. AnswersHold'
  <2> SUFFICES ASSUME NEW q \in Asks, asking[q].step = "answered",
                      NEW k \in Fields \ touched'[q]
               PROVE  \/ asking[q].rows[k] = promised'[asking[q].who][k]
                      \/ asking[q].who = member /\ k \in Unheard'
                      \/ k \in Owed'[asking[q].who]
    BY <1>0 DEF AnswersHold, BrowserWaits
  <2>1. k \notin touched[q] /\ asking[q].who \in Members
    BY DEF BrowserWaits, ClientInv, AsksForStored
  <2>2. \/ asking[q].rows[k] = promised[asking[q].who][k]
        \/ asking[q].who = member /\ k \in Unheard
        \/ k \in Owed[asking[q].who]
    BY <2>1 DEF ClientInv, AnswersHold
  <2>3. \/ Kept(asking[q].who, k) \/ k \in Owed'[asking[q].who]
        \/ asking[q].who = member /\ k \in Unheard'
    BY <1>0, <1>3, <2>1 DEF Hidden
  <2> QED BY <1>3, <2>2, <2>3 DEF Kept
<1>5. NewsHolds'
  <2> SUFFICES ASSUME NEW k \in Fields \ (unsure' \cup Owed'[room])
               PROVE  /\ LastTells(k)'
                      /\ k \notin Unheard' => balances[k] = promised'[room][k]
    BY <1>0 DEF NewsHolds, BrowserWaits
  <2>1. CASE k \in Heard(m)
    <3>1. m.now[k] = promised'[room][k] /\ k \in Unheard'
      BY <1>3, <2>1
    <3>2. ASSUME NEW i \in DOMAIN inbox', i # Len(inbox) + 1
          PROVE  \E j \in DOMAIN inbox' : j > i /\ k \in Heard(inbox'[j])
      <4>1. Len(inbox) + 1 \in DOMAIN inbox' /\ Len(inbox) + 1 > i
        BY <1>1, <3>2
      <4> QED BY <1>1, <2>1, <4>1
    <3>3. LastTells(k)'
      <4>1. ASSUME NEW i \in DOMAIN inbox',
                   \A j \in DOMAIN inbox' : j > i => k \notin Heard(inbox'[j])
            PROVE  inbox'[i].now[k] = promised'[room][k]
        BY <1>1, <3>1, <3>2, <4>1
      <4> QED BY <1>0, <4>1 DEF LastTells, Heard
    <3> QED BY <3>1, <3>3
  <2>2. CASE k \notin Heard(m)
    <3>1. Kept(room, k) /\ k \notin unsure
      BY <1>0, <2>2 DEF Hidden
    <3>2. LastTells(k) /\ (k \notin Unheard => balances[k] = promised[room][k])
      BY <1>0, <3>1 DEF ClientInv, NewsHolds, Kept
    <3>3. promised'[room][k] = promised[room][k]
      BY <3>1 DEF Kept
    <3>4. ASSUME NEW i \in DOMAIN inbox', k \in Heard(inbox'[i]),
                 \A j \in DOMAIN inbox' : j > i => k \notin Heard(inbox'[j])
          PROVE  inbox'[i].now[k] = promised'[room][k]
      <4>1. i \in 1 .. Len(inbox)
        BY <1>1, <2>2, <3>4
      <4>2. inbox'[i] = inbox[i]
        BY <1>1, <4>1
      <4>3. \A j \in 1 .. Len(inbox) : j \in DOMAIN inbox' /\ inbox'[j] = inbox[j]
        BY <1>1
      <4>4. \A j \in DOMAIN inbox : j > i => k \notin Heard(inbox[j])
        BY <1>1, <3>4, <4>3
      <4>5. inbox[i].now[k] = promised[room][k]
        BY <1>0, <1>1, <3>2, <3>4, <4>1, <4>2, <4>4 DEF LastTells
      <4> QED BY <3>3, <4>2, <4>5
    <3>5. LastTells(k)'
      BY <1>0, <3>4 DEF LastTells, Heard
    <3> QED BY <1>3, <2>2, <3>2, <3>3, <3>5
  <2> QED BY <2>1, <2>2
<1> QED BY <1>2, <1>4, <1>5 DEF ClientInv, BrowserWaits

LEMMA NewsIsMessage ==
  ASSUME NEW how, NEW k \in Fields, NEW b \in Balances
  PROVE  LET m == News(how, k, b)
         IN  m \in Message /\ Heard(m) \subseteq Fields /\ m.now = b /\ k \in Heard(m)
<1>1. (how = "pair") \in BOOLEAN
  OBVIOUS
<1> QED BY <1>1 DEF News, Message, Heard

\* What the browser misses it is unsure of.
LEMMA MissHides ==
  ASSUME ClientInv, NEW u \in Members, NEW K \in SUBSET Fields, Miss(u, K)
  PROVE  /\ unsure \subseteq unsure' /\ touched' \in [Asks -> SUBSET Fields]
         /\ \A q \in Asks : touched[q] \subseteq touched'[q]
         /\ \A k \in K : Hidden(u, k)
<1>1. touched \in [Asks -> SUBSET Fields]
  BY DEF ClientInv, ClientTypes
<1> QED BY <1>1 DEF Miss, Hidden

LEMMA AnnounceKeeps ==
  ASSUME ClientInv, NEW u \in Members, NEW f \in Fields, NEW v \in 0 .. MaxBalance,
         Announce(u, f, v)
  PROVE  ClientInv'
<1>1. /\ promised' = [promised EXCEPT ![u][f] = v]
      /\ UNCHANGED <<rows, writer, jwt, member, balances, room, joining, asking, crossed>>
  BY DEF Announce, pageVars
<1>2. /\ promised \in [Members -> Balances] /\ rows \in [Members -> Balances]
      /\ writer \in [Writers -> HeldCopy] /\ touched \in [Asks -> SUBSET Fields]
  BY DEF ClientInv, ClientTypes
<1>3. /\ promised' \in [Members -> Balances]
      /\ \A w \in Members, k \in Fields :
           promised'[w][k] = IF w = u /\ k = f THEN v ELSE promised[w][k]
  <2> PICK r : r = [promised[u] EXCEPT ![f] = v]
    OBVIOUS
  <2>1. r \in Balances /\ \A k \in Fields : r[k] = IF k = f THEN v ELSE promised[u][k]
    BY <1>2 DEF Balances
  <2>2. promised' = [promised EXCEPT ![u] = r]
    BY <1>1
  <2> QED BY <1>2, <2>1, <2>2
<1>4. Owed' = Owed /\ CopiesOfMembers'
  BY <1>1, OwedStays, CopiesStay DEF ClientInv
<1>5. \A w \in Members, k \in Fields : w # u \/ k # f => Kept(w, k)
  BY <1>3, <1>4 DEF Kept
<1>6. PICK how \in {"pair", "one"} :
        LET m == News(how, f, promised'[u])
        IN  \/ room = u /\ inbox' = Append(inbox, m) /\ unsure' = unsure \ Heard(m)
               /\ UNCHANGED touched
            \/ Miss(u, {f}) /\ UNCHANGED inbox
  BY DEF Announce
<1> PICK m : m = News(how, f, promised'[u])
  OBVIOUS
<1>7. m \in Message /\ Heard(m) \subseteq Fields /\ m.now = promised'[u] /\ f \in Heard(m)
  BY <1>3, NewsIsMessage
<1>8. ASSUME room = u, inbox' = Append(inbox, m), unsure' = unsure \ Heard(m),
             UNCHANGED touched
      PROVE  ClientInv'
  <2>1. BrowserWaits
    BY <1>1, <1>2, <1>3, <1>4, <1>8 DEF BrowserWaits
  <2>2. unsure \subseteq unsure' \cup Heard(m) /\ room \in Members
    BY <1>8
  <2>3. \A k \in Heard(m) \ unsure' : m.now[k] = promised'[room][k]
    BY <1>7, <1>8
  <2>4. \A w \in Members, k \in Fields :
          Kept(w, k) \/ Hidden(w, k) \/ (w = room /\ k \in Heard(m))
    BY <1>5, <1>7, <1>8
  <2> QED BY <1>7, <1>8, <2>1, <2>2, <2>3, <2>4, MessageKeeps
<1>9. ASSUME Miss(u, {f}), UNCHANGED inbox PROVE ClientInv'
  <2>1. /\ unsure \subseteq unsure' /\ touched' \in [Asks -> SUBSET Fields]
        /\ \A q \in Asks : touched[q] \subseteq touched'[q]
        /\ Hidden(u, f)
    BY <1>9, MissHides
  <2>2. BrowserWaits
    BY <1>1, <1>2, <1>3, <1>4, <2>1 DEF BrowserWaits
  <2> QED BY <1>5, <1>9, <2>1, <2>2, SilentKeeps
<1> QED BY <1>6, <1>8, <1>9

LEMMA CommitKeeps ==
  ASSUME ClientInv, NEW u \in Members, CommitMove(u)
  PROVE  ClientInv'
<1>1. /\ rows' = [rows EXCEPT ![u] = promised[u]]
      /\ UNCHANGED <<promised, writer, jwt, member, balances, room, joining, asking, crossed,
                     inbox, unsure, touched>>
  BY DEF CommitMove, pageVars, mailVars
<1>2. Owed' = Owed /\ CopiesOfMembers'
  BY <1>1, OwedStays, CopiesStay DEF ClientInv
<1>3. BrowserWaits
  BY <1>1, <1>2 DEF BrowserWaits, ClientInv, ClientTypes
<1>4. \A w \in Members, k \in Fields : Kept(w, k)
  BY <1>1, <1>2 DEF Kept
<1> QED BY <1>1, <1>3, <1>4, SilentKeeps

LEMMA RollBackKeeps ==
  ASSUME ClientInv, NEW u \in Members, RollBack(u)
  PROVE  ClientInv'
<1> DEFINE K == {k \in Fields : promised[u][k] # rows[u][k]}
<1>1. /\ promised' = [promised EXCEPT ![u] = rows[u]] /\ Miss(u, K)
      /\ UNCHANGED <<rows, writer, jwt, member, balances, room, joining, asking, crossed,
                     inbox>>
  BY DEF RollBack, pageVars
<1>2. Owed' = Owed /\ CopiesOfMembers'
  BY <1>1, OwedStays, CopiesStay DEF ClientInv
<1>3. /\ unsure \subseteq unsure' /\ touched' \in [Asks -> SUBSET Fields]
      /\ \A q \in Asks : touched[q] \subseteq touched'[q]
      /\ \A k \in K : Hidden(u, k)
  BY <1>1, MissHides
<1>4. BrowserWaits
  BY <1>1, <1>2, <1>3 DEF BrowserWaits, ClientInv, ClientTypes
<1>5. ASSUME NEW w \in Members, NEW k \in Fields PROVE Kept(w, k) \/ Hidden(w, k)
  <2>1. promised \in [Members -> Balances]
    BY DEF ClientInv, ClientTypes
  <2>2. CASE w = u /\ k \in K
    BY <1>3, <2>2
  <2>3. CASE ~(w = u /\ k \in K)
    BY <1>1, <1>2, <2>1, <2>3 DEF Kept
  <2> QED BY <2>2, <2>3
<1> QED BY <1>1, <1>3, <1>4, <1>5, SilentKeeps

\* A step of a call that saves without a lock, other than the save and the message.
LEMMA CopyKeeps ==
  ASSUME ClientInv, NEW w \in Writers, NEW c \in HeldCopy,
         writer' = [writer EXCEPT ![w] = c], c.step # "free" => c.who \in Members,
         writer[w].step # "saved", c.step # "saved",
         UNCHANGED <<rows, promised, jwt, member, balances, room, joining, asking, crossed,
                     inbox, unsure, touched>>
  PROVE  ClientInv'
<1>1. writer \in [Writers -> HeldCopy]
  BY DEF ClientInv, ClientTypes
<1>2. /\ writer' \in [Writers -> HeldCopy] /\ writer'[w] = c
      /\ \A x \in Writers : x # w => writer'[x] = writer[x]
  BY <1>1
<1>3. Owed' = Owed
  <2>1. \A u \in Members : Telling(u)' = Telling(u) /\ w \notin Telling(u)
    BY <1>2 DEF Telling
  <2>2. \A u \in Members : UNION {writer'[x].dirty : x \in Telling(u)'}
                           = UNION {writer[x].dirty : x \in Telling(u)}
    BY <1>2, <2>1 DEF Telling
  <2> QED BY <2>2 DEF Owed
<1>4. CopiesOfMembers'
  BY <1>2 DEF CopiesOfMembers, ClientInv
<1>5. BrowserWaits
  BY <1>2, <1>4 DEF BrowserWaits, ClientInv, ClientTypes
<1>6. \A u \in Members, k \in Fields : Kept(u, k)
  BY <1>3 DEF Kept
<1> QED BY <1>5, <1>6, SilentKeeps

LEMMA ReadKeeps ==
  ASSUME ClientInv, NEW w \in Writers, NEW u \in Members, NEW f \in Fields,
         NEW v \in 0 .. MaxBalance, ReadRow(w, u, f, v)
  PROVE  ClientInv'
<1> DEFINE b == [rows[u] EXCEPT ![f] = v]
           c == [step |-> "read", who |-> u, kind |-> f, copy |-> b, dirty |-> {}]
<1>1. /\ writer[w].step = "free" /\ writer' = [writer EXCEPT ![w] = c]
      /\ UNCHANGED <<rows, promised, jwt, member, balances, room, joining, asking, crossed,
                     inbox, unsure, touched>>
  BY DEF ReadRow, pageVars, mailVars
<1>2. b \in Balances
  BY DEF ClientInv, ClientTypes, Balances
<1> HIDE DEF b
<1>3. c \in HeldCopy /\ c.step = "read" /\ c.who = u
  BY <1>2 DEF HeldCopy
<1> HIDE DEF c
<1> QED BY <1>1, <1>3, CopyKeeps

LEMMA ReloadRowKeeps ==
  ASSUME ClientInv, NEW w \in Writers, ReloadRow(w)
  PROVE  ClientInv'
<1> PICK D : D = {k \in Fields : writer[w].copy[k] # rows[writer[w].who][k]}
  OBVIOUS
<1> PICK c : c = [writer[w] EXCEPT !.step = "reloaded", !.dirty = D]
  OBVIOUS
<1>1. writer \in [Writers -> HeldCopy] /\ writer[w].step = "read" /\ writer[w].who \in Members
  BY DEF ReloadRow, ClientInv, ClientTypes, CopiesOfMembers
<1>2. /\ writer' = [writer EXCEPT ![w] = c]
      /\ UNCHANGED <<rows, promised, jwt, member, balances, room, joining, asking, crossed,
                     inbox, unsure, touched>>
  BY <1>1 DEF ReloadRow, pageVars, mailVars
<1>3. D \subseteq Fields
  OBVIOUS
<1>4. c \in HeldCopy /\ c.step = "reloaded" /\ c.who = writer[w].who
  BY <1>1, <1>3 DEF HeldCopy
<1>5. c.step # "saved" /\ writer[w].step # "saved" /\ c.who \in Members
  BY <1>1, <1>4
<1> QED BY <1>2, <1>4, <1>5, CopyKeeps

\* What a call saves it owes to the user; the other columns stay.
LEMMA UpdateRowKeeps ==
  ASSUME ClientInv, NEW w \in Writers, UpdateRow(w)
  PROVE  ClientInv'
<1> PICK u : u = writer[w].who
  OBVIOUS
<1>1. /\ writer \in [Writers -> HeldCopy] /\ writer[w].step = "reloaded" /\ u \in Members
      /\ rows \in [Members -> Balances] /\ promised \in [Members -> Balances]
      /\ promised[u] = rows[u]
  BY DEF UpdateRow, Unlocked, ClientInv, ClientTypes, CopiesOfMembers
<1>2. /\ rows' = [rows EXCEPT ![u] = Overwritten(w)]
      /\ promised' = [promised EXCEPT ![u] = Overwritten(w)]
      /\ writer' = [writer EXCEPT ![w].step = "saved"]
      /\ UNCHANGED <<jwt, member, balances, room, joining, asking, crossed, inbox, unsure,
                     touched>>
  BY DEF UpdateRow, pageVars, mailVars
<1>3. /\ Overwritten(w) \in Balances
      /\ \A k \in Fields \ writer[w].dirty : Overwritten(w)[k] = promised[u][k]
  BY <1>1 DEF Overwritten, Balances, HeldCopy
<1>4. /\ writer' \in [Writers -> HeldCopy]
      /\ writer'[w].step = "saved" /\ writer'[w].who = u /\ writer'[w].dirty = writer[w].dirty
      /\ \A x \in Writers : x # w => writer'[x] = writer[x]
  BY <1>1, <1>2 DEF HeldCopy
<1>5. ASSUME NEW x \in Members
      PROVE  Owed[x] \subseteq Owed'[x] /\ (x = u => writer[w].dirty \subseteq Owed'[x])
  <2>1. \A y \in Telling(x) : y \in Telling(x)' /\ writer'[y].dirty = writer[y].dirty
    BY <1>1, <1>4 DEF Telling
  <2>2. x = u => w \in Telling(x)'
    BY <1>4 DEF Telling
  <2>3. /\ Owed[x] = UNION {writer[y].dirty : y \in Telling(x)}
        /\ Owed'[x] = UNION {writer'[y].dirty : y \in Telling(x)'}
    BY DEF Owed
  <2> QED BY <1>4, <2>1, <2>2, <2>3
<1>6. CopiesOfMembers'
  BY <1>1, <1>4 DEF CopiesOfMembers, ClientInv
<1>7. BrowserWaits
  BY <1>1, <1>2, <1>3, <1>4, <1>6 DEF BrowserWaits, ClientInv, ClientTypes
<1>8. ASSUME NEW x \in Members, NEW k \in Fields PROVE Kept(x, k) \/ Hidden(x, k)
  <2>1. CASE x = u /\ k \in writer[w].dirty
    BY <1>5, <2>1 DEF Hidden
  <2>2. CASE ~(x = u /\ k \in writer[w].dirty)
    <3>1. promised'[x][k] = promised[x][k]
      BY <1>1, <1>2, <1>3, <2>2
    <3> QED BY <1>5, <3>1 DEF Kept
  <2> QED BY <2>1, <2>2
<1>9. inbox' = inbox /\ unsure \subseteq unsure'
  BY <1>2
<1>10. \A x \in Members, k \in Fields : Kept(x, k) \/ Hidden(x, k)
  BY <1>8
<1> QED BY <1>7, <1>9, <1>10, SilentKeeps

\* The message of a copy tells the balance, or the browser is unsure of it.
LEMMA TellKeeps ==
  ASSUME ClientInv, NEW w \in Writers, TellCopy(w)
  PROVE  ClientInv'
<1> PICK u, K : u = writer[w].who /\ K = writer[w].dirty
  OBVIOUS
<1>1. /\ writer \in [Writers -> HeldCopy] /\ writer[w].step = "saved" /\ u \in Members
      /\ K \subseteq Fields /\ writer[w].copy \in Balances /\ writer[w].kind \in Fields
      /\ touched \in [Asks -> SUBSET Fields]
  BY DEF TellCopy, ClientInv, ClientTypes, CopiesOfMembers, HeldCopy
<1>2. /\ writer' = [writer EXCEPT ![w] = NoCopy]
      /\ UNCHANGED <<rows, promised, jwt, member, balances, room, joining, asking, crossed>>
  BY DEF TellCopy, pageVars
<1>3. /\ writer' \in [Writers -> HeldCopy] /\ writer'[w].step = "free"
      /\ \A x \in Writers : x # w => writer'[x] = writer[x]
  BY <1>1, <1>2, NoCopyIsFree
<1>4. ASSUME NEW x \in Members, NEW k \in Fields, k \in Owed[x], k \notin Owed'[x]
      PROVE  x = u /\ k \in K
  <2>1. /\ Owed[x] = UNION {writer[y].dirty : y \in Telling(x)}
        /\ Owed'[x] = UNION {writer'[y].dirty : y \in Telling(x)'}
    BY DEF Owed
  <2>2. PICK y \in Telling(x) : k \in writer[y].dirty
    BY <1>4, <2>1
  <2>3. y # w => y \in Telling(x)' /\ writer'[y].dirty = writer[y].dirty
    BY <1>3 DEF Telling
  <2>4. y = w
    BY <1>4, <2>1, <2>2, <2>3
  <2> QED BY <2>2, <2>4 DEF Telling
<1>5. CopiesOfMembers'
  BY <1>3 DEF CopiesOfMembers, ClientInv
<1>6. \A x \in Members, k \in Fields : x # u \/ k \notin K => Kept(x, k)
  BY <1>2, <1>4 DEF Kept
<1>7. PICK how \in {"pair", "one", "none"} :
        LET m == News(how, writer[w].kind, writer[w].copy)
            missed == K \ Heard(m)
        IN  \/ /\ room = u /\ inbox' = Append(inbox, m)
               /\ unsure' = (unsure \ Heard(m))
                    \cup {k \in Heard(m) : m.now[k] # promised[u][k]} \cup missed
               /\ touched' = [a \in Asks |-> IF asking[a].who = u
                                THEN touched[a] \cup missed ELSE touched[a]]
            \/ Miss(u, K) /\ UNCHANGED inbox
  BY DEF TellCopy
<1> PICK m : m = News(how, writer[w].kind, writer[w].copy)
  OBVIOUS
<1>8. m \in Message /\ Heard(m) \subseteq Fields
  BY <1>1, NewsIsMessage
<1>9. ASSUME room = u, inbox' = Append(inbox, m),
             unsure' = (unsure \ Heard(m))
               \cup {k \in Heard(m) : m.now[k] # promised[u][k]} \cup (K \ Heard(m)),
             touched' = [a \in Asks |-> IF asking[a].who = u
                           THEN touched[a] \cup (K \ Heard(m)) ELSE touched[a]]
      PROVE  ClientInv'
  <2>1. /\ touched' \in [Asks -> SUBSET Fields]
        /\ \A q \in Asks : touched[q] \subseteq touched'[q]
    BY <1>1, <1>9
  <2>2. BrowserWaits
    BY <1>2, <1>3, <1>5, <2>1 DEF BrowserWaits, ClientInv, ClientTypes
  <2>3. unsure \subseteq unsure' \cup Heard(m) /\ room \in Members
    BY <1>1, <1>9
  <2>4. \A k \in Heard(m) \ unsure' : m.now[k] = promised'[room][k]
    BY <1>2, <1>9
  <2>5. \A k \in K \ Heard(m) : Hidden(u, k)
    BY <1>9 DEF Hidden
  <2>6. \A x \in Members, k \in Fields :
          Kept(x, k) \/ Hidden(x, k) \/ (x = room /\ k \in Heard(m))
    BY <1>6, <1>9, <2>5
  <2> QED BY <1>8, <1>9, <2>2, <2>3, <2>4, <2>6, MessageKeeps
<1>10. ASSUME Miss(u, K), UNCHANGED inbox PROVE ClientInv'
  <2>1. /\ unsure \subseteq unsure' /\ touched' \in [Asks -> SUBSET Fields]
        /\ \A q \in Asks : touched[q] \subseteq touched'[q]
        /\ \A k \in K : Hidden(u, k)
    BY <1>1, <1>10, MissHides
  <2>2. BrowserWaits
    BY <1>2, <1>3, <1>5, <2>1 DEF BrowserWaits, ClientInv, ClientTypes
  <2>3. \A x \in Members, k \in Fields : Kept(x, k) \/ Hidden(x, k)
    BY <1>6, <2>1
  <2> QED BY <1>10, <2>1, <2>2, <2>3, SilentKeeps
<1> QED BY <1>7, <1>9, <1>10

\* The first message is taken over; a later one about the same balance is still to
\* come, and tells it.
LEMMA HearKeeps ==
  ASSUME ClientInv, Hear
  PROVE  ClientInv'
<1>1. /\ inbox # << >> /\ inbox \in Seq(Message)
      /\ touched \in [Asks -> SUBSET Fields]
      /\ UNCHANGED <<serverVars, jwt, member, room, joining, asking, crossed>>
  BY DEF Hear, ClientInv, ClientTypes
<1> PICK m : m = Head(inbox)
  OBVIOUS
<1>2. /\ balances' = Hearing(m)
      /\ unsure' = unsure \cup {k \in Heard(m) : m.pair /\ m.now[k] = 0}
      /\ touched' = [a \in Asks |-> touched[a] \cup Heard(m)]
      /\ inbox' = Tail(inbox)
  BY DEF Hear, Touched
<1>3. /\ Len(inbox) \in Nat /\ DOMAIN inbox = 1 .. Len(inbox)
      /\ inbox' \in Seq(Message) /\ DOMAIN inbox' = 1 .. Len(inbox) - 1
      /\ \A i \in 1 .. Len(inbox) - 1 : inbox'[i] = inbox[i + 1]
      /\ m = inbox[1] /\ m \in Message /\ 1 \in DOMAIN inbox
  BY <1>1, <1>2
<1>4. Heard(m) \subseteq Fields
  BY <1>3, HeardIsField
<1>5. ASSUME NEW k PROVE k \in Unheard <=> k \in Unheard' \/ k \in Heard(m)
  <2>1. k \in Unheard' <=> \E i \in 1 .. Len(inbox) - 1 : k \in Heard(inbox'[i])
    BY <1>3 DEF Unheard, Heard
  <2>2. k \in Unheard <=> \E i \in 1 .. Len(inbox) : k \in Heard(inbox[i])
    BY <1>3, UnheardIs
  <2>3. \A i \in 1 .. Len(inbox) - 1 : i + 1 \in 1 .. Len(inbox) /\ inbox'[i] = inbox[i + 1]
    BY <1>3
  <2>4. \A i \in 1 .. Len(inbox) :
          i = 1 \/ (i - 1 \in 1 .. Len(inbox) - 1 /\ inbox'[i - 1] = inbox[i])
    <3> SUFFICES ASSUME NEW i \in 1 .. Len(inbox), i # 1
                 PROVE  i - 1 \in 1 .. Len(inbox) - 1 /\ inbox'[i - 1] = inbox[i]
      OBVIOUS
    <3>1. i - 1 \in 1 .. Len(inbox) - 1 /\ (i - 1) + 1 = i
      BY <1>3
    <3> QED BY <1>3, <3>1
  <2>5. k \in Unheard => k \in Unheard' \/ k \in Heard(m)
    BY <1>3, <2>1, <2>2, <2>4
  <2>6. k \in Unheard' => k \in Unheard
    BY <2>1, <2>2, <2>3
  <2>7. k \in Heard(m) => k \in Unheard
    BY <1>3, <2>2
  <2> QED BY <2>5, <2>6, <2>7
<1>6. ClientTypes' /\ CopiesOfMembers'
  BY <1>1, <1>2, <1>3, <1>4, CopiesStay DEF ClientInv, ClientTypes, serverVars
<1>7. RoomFits'
  <2>1. room # Nobody
    BY <1>1 DEF ClientInv, RoomFits
  <2> QED BY <1>1, <2>1 DEF ClientInv, RoomFits
<1>8. \A q \in Asks : Stays(q)
  BY <1>1, UnchangedStays
<1>9. AsksGoOn
  BY <1>8 DEF AsksGoOn
<1>10. AsksForStored'
  BY <1>9, StoredStays DEF ClientInv
<1>11. AnswersHold'
  BY <1>1, <1>2, <1>5, <1>9, AnswersStay DEF ClientInv
<1>12. NewsHolds'
  <2>0. promised' = promised /\ Owed' = Owed
    BY <1>1, OwedStays DEF serverVars
  <2> SUFFICES ASSUME member \in Members, NEW k \in Fields \ (unsure' \cup Owed[member])
               PROVE  LastTells(k)' /\ (k \notin Unheard' => Hearing(m)[k] = promised[member][k])
    BY <1>1, <1>2, <2>0 DEF NewsHolds
  <2>1. /\ k \notin unsure
        /\ k \in Heard(m) => ~(m.pair /\ m.now[k] = 0)
    BY <1>2
  <2>2. LastTells(k) /\ (k \notin Unheard => balances[k] = promised[member][k])
    BY <2>1 DEF ClientInv, NewsHolds
  <2>3. LastTells(k)'
    <3> SUFFICES ASSUME NEW i \in DOMAIN inbox', k \in Heard(inbox'[i]),
                        \A j \in DOMAIN inbox' : j > i => k \notin Heard(inbox'[j])
                 PROVE  inbox'[i].now[k] = promised[member][k]
      BY <1>1, <2>0 DEF LastTells, Heard
    <3>1. i + 1 \in DOMAIN inbox /\ inbox'[i] = inbox[i + 1]
      BY <1>3
    <3>2. ASSUME NEW j \in DOMAIN inbox, j > i + 1 PROVE k \notin Heard(inbox[j])
      <4>1. j - 1 \in DOMAIN inbox' /\ j - 1 > i /\ (j - 1) + 1 = j
        BY <1>3, <3>2
      <4>2. inbox'[j - 1] = inbox[j]
        BY <1>3, <4>1
      <4> QED BY <4>1, <4>2
    <3> QED BY <2>2, <3>1, <3>2 DEF LastTells
  <2>4. ASSUME k \notin Unheard' PROVE Hearing(m)[k] = promised[member][k]
    <3>1. CASE k \in Heard(m)
      <4>1. \A j \in DOMAIN inbox : j > 1 => k \notin Heard(inbox[j])
        <5> SUFFICES ASSUME NEW j \in DOMAIN inbox, j > 1, k \in Heard(inbox[j])
                     PROVE  FALSE
          OBVIOUS
        <5>1. j - 1 \in DOMAIN inbox' /\ (j - 1) + 1 = j
          BY <1>3
        <5>2. inbox'[j - 1] = inbox[j]
          BY <1>3, <5>1
        <5> QED BY <2>4, <5>1, <5>2 DEF Unheard, Heard
      <4>2. m.now[k] = promised[member][k]
        BY <1>3, <2>2, <3>1, <4>1 DEF LastTells
      <4>3. Hearing(m)[k] = m.now[k]
        <5>1. Hearing(m)[k] = IF m.pair
                THEN IF m.now[k] = 0 THEN balances[k] ELSE m.now[k]
                ELSE IF k = m.kind THEN m.now[k] ELSE balances[k]
          BY DEF Hearing
        <5>2. ~m.pair => k = m.kind
          BY <3>1 DEF Heard
        <5> QED BY <2>1, <3>1, <5>1, <5>2, Zenon
      <4> QED BY <4>2, <4>3
    <3>2. CASE k \notin Heard(m)
      <4>1. balances[k] = promised[member][k]
        BY <1>5, <2>2, <2>4, <3>2
      <4>2. Hearing(m)[k] = balances[k]
        <5>1. Hearing(m)[k] = IF m.pair
                THEN IF m.now[k] = 0 THEN balances[k] ELSE m.now[k]
                ELSE IF k = m.kind THEN m.now[k] ELSE balances[k]
          BY DEF Hearing
        <5>2. ~m.pair /\ k # m.kind
          BY <3>2 DEF Heard
        <5> QED BY <5>1, <5>2, Zenon
      <4> QED BY <4>1, <4>2
    <3> QED BY <3>1, <3>2
  <2> QED BY <2>3, <2>4
<1>13. ShownIsLoggedIn'
  BY <1>1, Zenon DEF ClientInv, ShownIsLoggedIn
<1> QED BY <1>6, <1>7, <1>10, <1>11, <1>12, <1>13 DEF ClientInv

LEMMA ClientStays == ClientInv /\ [ClientNext]_clientVars => ClientInv'
<1> SUFFICES ASSUME ClientInv, [ClientNext]_clientVars PROVE ClientInv'
  OBVIOUS
<1>1. CASE UNCHANGED clientVars
  <2>1. /\ UNCHANGED <<serverVars, jwt, member, balances, room, joining, inbox, asking,
                       unsure, touched, crossed>>
    BY <1>1 DEF clientVars, pageVars, mailVars
  <2>2. ShownIsLoggedIn'
    BY <2>1, Zenon DEF ClientInv, ShownIsLoggedIn
  <2>3. AsksGoOn
    BY <2>1, UnchangedStays DEF AsksGoOn
  <2> QED BY <2>1, <2>2, <2>3, QuietKeeps DEF ClientInv, ClientTypes
<1>2. ASSUME NEW a \in Asks, \/ CheckAuth(a) \/ Refresh(a)
                             \/ \E u \in Members : Login(a, u)
                             \/ ServerAnswers(a) \/ UserArrives(a)
                             \/ Unauthorized(a) \/ AskFails(a)
      PROVE  ClientInv'
  BY <1>2, BeginKeeps, AnswerStep, ArriveKeeps, UnauthorizedKeeps, FailKeeps
<1>3. ASSUME Hear \/ JoinArrives \/ SwitchNetwork \/ ConnectionLost \/ Logout
      PROVE  ClientInv'
  BY <1>3, HearKeeps, JoinKeeps, SwitchKeeps, LogoutKeeps
<1>4. ASSUME NEW u \in Members, NEW k \in Fields, NEW v \in 0 .. MaxBalance,
             Announce(u, k, v) \/ \E w \in Writers : ReadRow(w, u, k, v)
      PROVE  ClientInv'
  BY <1>4, AnnounceKeeps, ReadKeeps
<1>5. ASSUME NEW u \in Members, CommitMove(u) \/ RollBack(u)
      PROVE  ClientInv'
  BY <1>5, CommitKeeps, RollBackKeeps
<1>6. ASSUME NEW w \in Writers, ReloadRow(w) \/ UpdateRow(w) \/ TellCopy(w)
      PROVE  ClientInv'
  BY <1>6, ReloadRowKeeps, UpdateRowKeeps, TellKeeps
<1> QED BY <1>1, <1>2, <1>3, <1>4, <1>5, <1>6 DEF ClientNext

LEMMA ClientInvariance == ClientSpec => []ClientInv
  BY InitClient, ClientStays, PTL DEF ClientSpec

\* Whatever fetches, messages sent before their commit or from a copy, rollbacks, logins
\* and lost connections cross: with no message on its way a balance that is shown is the
\* one at the server, but for the unsure ones and those saved and not yet told.
THEOREM ViewsAreCurrent == ClientSpec => []ViewIsCurrent
<1>1. ClientInv => ViewIsCurrent
  BY NothingUnheard DEF ClientInv, NewsHolds, ViewIsCurrent
<1> QED BY <1>1, ClientInvariance, PTL

\* A browser shows the user whose token it stores, unless a login or logout overtook
\* the fetch.
THEOREM ShownAreLoggedIn == ClientSpec => []ShownIsLoggedIn
<1>1. ClientInv => ShownIsLoggedIn
  BY DEF ClientInv
<1> QED BY <1>1, ClientInvariance, PTL
=============================================================================
