---------------------------- MODULE GameCallback ----------------------------
(***************************************************************************)
(* handleGameCallback of casino/seamless-callback.service.ts: the provider *)
(* delivers transactions, possibly again and concurrently, and each        *)
(* handler runs one database transaction under the lock of the user's row. *)
(* gameLaunch of casino/casino.service.ts sets the Redis key that chooses  *)
(* the balance; the key expires after an hour.                             *)
(*                                                                         *)
(* The transaction's writes are private to the handler until Commit.       *)
(***************************************************************************)
EXTENDS BalanceLedger

CONSTANTS UserCodes, \* user codes a request may carry; not all need exist
          Msgs,      \* the distinct requests the providers send
          Handlers,  \* requests the server can have in flight at once
          None

MsgType == [user: UserCodes, txn_id: TxnIds,
            txn_type: TxnTypes \cup {"other"}, bet: Nat, win: Nat]

ASSUME MsgAssumption ==
  /\ Users \subseteq UserCodes
  /\ Msgs \subseteq MsgType
  /\ InitialBalance \in Nat
  /\ None \notin Handlers /\ None \notin BalanceTypes /\ None \notin Msgs

VARIABLES typeKey, \* typeKey[c]: casino_balance_type:c in Redis, or None
          lock,    \* lock[u]: the handler whose transaction locked u's row
          pc,      \* where each handler is
          req,     \* the request it serves
          btype,   \* the balanceType it read before its transaction
          user,    \* its copy of the user's row
          acked    \* requests that were answered with status 1

handlerVars == <<pc, req, btype, user>>
vars == <<row, txns, typeKey, lock, pc, req, btype, user, acked>>

PCs == {"idle", "lock", "check", "write", "commit"}

\* States in which the handler's transaction holds the user's row lock.
Holding == {"check", "write", "commit"}

NoBalances == [b \in BalanceTypes |-> 0]

TypeOK ==
  /\ row \in [Users -> [BalanceTypes -> Int]]
  /\ txns \subseteq TxnRecord
  /\ typeKey \in [UserCodes -> BalanceTypes \cup {None}]
  /\ lock \in [Users -> Handlers \cup {None}]
  /\ pc \in [Handlers -> PCs]
  /\ req \in [Handlers -> Msgs \cup {None}]
  /\ btype \in [Handlers -> BalanceTypes]
  /\ user \in [Handlers -> [BalanceTypes -> Int]]
  /\ acked \subseteq Msgs

Init ==
  /\ LedgerInit
  /\ typeKey = [c \in UserCodes |-> None]
  /\ lock = [u \in Users |-> None]
  /\ pc = [p \in Handlers |-> "idle"]
  /\ req = [p \in Handlers |-> None]
  /\ btype = [p \in Handlers |-> "realBalance"]
  /\ user = [p \in Handlers |-> NoBalances]
  /\ acked = {}

-----------------------------------------------------------------------------
\* The request is answered and the handler's locals are gone.
Reply(p, status) ==
  /\ pc' = [pc EXCEPT ![p] = "idle"]
  /\ req' = [req EXCEPT ![p] = None]
  /\ btype' = [btype EXCEPT ![p] = "realBalance"]
  /\ user' = [user EXCEPT ![p] = NoBalances]
  /\ acked' = IF status = 1 THEN acked \cup {req[p]} ELSE acked

Unlock(u) == lock' = [lock EXCEPT ![u] = None]

\* Mutant: a way out of the handler forgets to end the transaction.
FinishOpen(p, status) ==
  /\ Reply(p, status)
  /\ UNCHANGED <<typeKey, lock>>

\* The transaction ends, whether it commits or rolls back, and the request
\* is answered.
Finish(p, status) ==
  /\ Reply(p, status)
  /\ Unlock(req[p].user)
  /\ UNCHANGED typeKey

\* The request is read, then the balance type, before the transaction.
Receive(p, m) ==
  /\ pc[p] = "idle"
  /\ pc' = [pc EXCEPT ![p] = "lock"]
  /\ req' = [req EXCEPT ![p] = m]
  /\ btype' = [btype EXCEPT ![p] = IF typeKey[m.user] = None
                                   THEN "realBalance" ELSE typeKey[m.user]]
  /\ UNCHANGED <<row, txns, typeKey, lock, user, acked>>

\* Mutant: findOne with no pessimistic lock.
LockUserPlain(p) ==
  /\ pc[p] = "lock"
  /\ req[p].user \in Users
  /\ user' = [user EXCEPT ![p] = row[req[p].user]]
  /\ pc' = [pc EXCEPT ![p] = "check"]
  /\ UNCHANGED <<row, txns, typeKey, lock, req, btype, acked>>

LockUser(p) ==
  /\ pc[p] = "lock"
  /\ req[p].user \in Users
  /\ lock[req[p].user] = None
  /\ lock' = [lock EXCEPT ![req[p].user] = p]
  /\ user' = [user EXCEPT ![p] = row[req[p].user]]
  /\ pc' = [pc EXCEPT ![p] = "check"]
  /\ UNCHANGED <<row, txns, typeKey, req, btype, acked>>

UserNotFound(p) ==
  /\ pc[p] = "lock"
  /\ req[p].user \notin Users
  /\ Reply(p, 0)
  /\ UNCHANGED <<row, txns, typeKey, lock>>

Duplicate(p) ==
  /\ pc[p] = "check"
  /\ Recorded(req[p])
  /\ Finish(p, 1)
  /\ UNCHANGED <<row, txns>>

\* A credit is not checked.
Sufficient(p) ==
  req[p].txn_type = "credit" \/ user[p][btype[p]] >= Staked(req[p])

\* INSUFFICIENT_USER_FUNDS, or the exception for an unknown txn_type.
Refuse(p) ==
  /\ pc[p] = "check"
  /\ ~Recorded(req[p])
  /\ req[p].txn_type \in TxnTypes => ~Sufficient(p)
  /\ Finish(p, 0)
  /\ UNCHANGED <<row, txns>>

\* The new balance, in the handler's copy of the row.
Apply(p) ==
  /\ pc[p] = "check"
  /\ ~Recorded(req[p])
  /\ req[p].txn_type \in TxnTypes
  /\ Sufficient(p)
  /\ user' = [user EXCEPT ![p][btype[p]] =
                 @ - Staked(req[p]) + Gained(req[p])]
  /\ pc' = [pc EXCEPT ![p] = "write"]
  /\ UNCHANGED <<row, txns, typeKey, lock, req, btype, acked>>

\* An insert that meets an uncommitted row with its key waits for that
\* transaction to end.
InsertWaits(p) ==
  \E q \in Handlers \ {p} : pc[q] = "commit" /\ SameTxn(req[q], req[p])

\* Mutant: the table has no unique index.
WriteNoIndex(p) ==
  /\ pc[p] = "write"
  /\ pc' = [pc EXCEPT ![p] = "commit"]
  /\ UNCHANGED <<row, txns, typeKey, lock, req, btype, user, acked>>

\* Both saves of the transaction: the user's row and the CasinoTransaction.
Write(p) ==
  /\ pc[p] = "write"
  /\ ~InsertWaits(p)
  /\ ~Recorded(req[p])
  /\ pc' = [pc EXCEPT ![p] = "commit"]
  /\ UNCHANGED <<row, txns, typeKey, lock, req, btype, user, acked>>

\* The unique index on (txnId, txnType) refuses the insert: rollback.
UniqueViolation(p) ==
  /\ pc[p] = "write"
  /\ ~InsertWaits(p)
  /\ Recorded(req[p])
  /\ Finish(p, 0)
  /\ UNCHANGED <<row, txns>>

CasinoTxn(p) ==
  [user |-> req[p].user, txn_id |-> req[p].txn_id,
   txn_type |-> req[p].txn_type, bet |-> req[p].bet, win |-> req[p].win,
   balanceType |-> btype[p], after |-> user[p][btype[p]]]

Commit(p) ==
  /\ pc[p] = "commit"
  /\ row' = [row EXCEPT ![req[p].user] = user[p]]
  /\ txns' = txns \cup {CasinoTxn(p)}
  /\ Finish(p, 1)

\* Mutant: an error is answered with status 1.
FailAcks(p) ==
  /\ pc[p] \in Holding
  /\ Finish(p, 1)
  /\ UNCHANGED <<row, txns>>

\* A database error or a restart of the server: rollback, no status 1.
Fail(p) ==
  /\ pc[p] \in Holding
  /\ Finish(p, 0)
  /\ UNCHANGED <<row, txns>>

\* gameLaunch writes the key; whether the provider's launch call then
\* succeeds makes no difference to it.
Launch(u, b) ==
  /\ typeKey' = [typeKey EXCEPT ![u] = b]
  /\ UNCHANGED <<row, txns, lock, acked, handlerVars>>

Expire(u) ==
  /\ typeKey[u] # None
  /\ typeKey' = [typeKey EXCEPT ![u] = None]
  /\ UNCHANGED <<row, txns, lock, acked, handlerVars>>

-----------------------------------------------------------------------------
Advance(p) ==
  \/ LockUser(p)  \/ UserNotFound(p) \/ Duplicate(p) \/ Refuse(p)
  \/ Apply(p)     \/ Write(p)        \/ UniqueViolation(p) \/ Commit(p)

Next ==
  \/ \E p \in Handlers, m \in Msgs : Receive(p, m)
  \/ \E p \in Handlers : Advance(p)
  \/ \E p \in Handlers : Fail(p)
  \/ \E u \in Users, b \in BalanceTypes : Launch(u, b)
  \/ \E u \in Users : Expire(u)

Spec == Init /\ [][Next]_vars

(***************************************************************************)
(* The event loop and MySQL run every handler that can go on, and InnoDB   *)
(* grants the waiters of a row lock or of a duplicate key in turn, so a    *)
(* handler that is allowed to proceed again and again does.  Requests,     *)
(* launches, expiries and failures need never happen.                      *)
(***************************************************************************)
FairSpec == Spec /\ \A p \in Handlers : SF_vars(Advance(p))

-----------------------------------------------------------------------------
\* Two records never carry the same txn_id and txn_type.
UniqueTxns == \A s, t \in txns : SameTxn(s, t) => s = t

\* A request answered with status 1 is in the transaction log: the reply of
\* handleGameCallback leaves only after its transaction has committed.
AckedIsRecorded == \A m \in acked : Recorded(m)

\* No balance is ever overdrawn, whatever callbacks run at once.
NoOverdraft == \A u \in Users, b \in BalanceTypes : row[u][b] >= 0

\* Once past the duplicate check, a handler cannot find its transaction
\* already recorded for its own user: the row lock is held from before the
\* check, so only another user's transaction can make the insert fail.
NoSameUserCollision ==
  \A p \in Handlers : pc[p] \in {"write", "commit"} =>
    \A t \in txns : SameTxn(t, req[p]) => t.user # req[p].user

\* The locked row does not move under a handler: what it read at the lock is
\* still the row, and after Apply its copy differs by exactly its own amounts.
SnapshotIsCurrent ==
  \A p \in Handlers : pc[p] \in Holding =>
    LET u == req[p].user
    IN  /\ u \in Users /\ lock[u] = p
        /\ pc[p] = "check" => user[p] = row[u]
        /\ pc[p] \in {"write", "commit"} =>
             user[p] = [row[u] EXCEPT ![btype[p]] =
                           @ - Staked(req[p]) + Gained(req[p])]

\* handleGameCallback keeps the promise of the abstract ledger: each of its
\* steps accepts one transaction as a whole or changes nothing.
Ledger == INSTANCE BalanceLedger WITH row <- row, txns <- txns
ImplementsLedger == Ledger!LedgerSpec

\* Every callback the server starts on is answered.
EveryCallbackAnswered ==
  \A p \in Handlers : pc[p] = "lock" ~> pc[p] = "idle"
=============================================================================
