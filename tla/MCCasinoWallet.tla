---------------------------- MODULE MCCasinoWallet ----------------------------
(***************************************************************************)
(* What a balance is, and what a browser shows of it.  A behaviour runs    *)
(* the browser, or one user's game round beside a money_callback of the    *)
(* same round, a standalone money_callback, a change of favourites and a   *)
(* local deposit for a user who does not exist.                            *)
(***************************************************************************)
EXTENDS CasinoWallet, ClientUser, TLC

CONSTANTS u1, ghost, h1

MCUsers     == {u1}
MCUserCodes == {u1, ghost}
MCHandlers  == {h1}
MCTxnIds    == {"t1"}

Request(type, bet, win) ==
  [user |-> u1, txn_id |-> "t1", txn_type |-> type, bet |-> bet, win |-> win]

MCMsgs == {Request("debit", 2, 0), Request("credit", 0, 1)}

Call(id, u, kind, amount, game) ==
  [id |-> id, user |-> u, kind |-> kind, amount |-> amount, game |-> game]

MCCalls == { Call(1, u1, "debit", 2, TRUE), Call(2, u1, "debit", 1, FALSE),
             Call(3, u1, "favorites", 0, FALSE),
             Call(4, ghost, "deposit", 1, FALSE) }

\* What the recorded transactions, and the completed calls, moved on a balance.
TxnsMoved(u, b) ==
  SumFunctionOnSet([t \in txns |-> Gained(t) - Staked(t)],
                   {t \in txns : t.user = u /\ t.balanceType = b})

Saved == {c \in Calls : wpc[c] = "saved"}

CallsMoved(u, b) ==
  SumFunctionOnSet([c \in Calls |-> Delta(c)],
                   {c \in Saved : c.user = u /\ b = "realBalance"})

\* A balance is the start plus what the recorded transactions and the completed
\* calls moved, unless the row moved while a call held a copy of it: the row lock
\* keeps handleGameCallback from losing anything to the calls that take none.
LostNeedsStaleCopy ==
  \A u \in Users \ stale, b \in BalanceTypes :
    row[u][b] = InitialBalance + TxnsMoved(u, b) + CallsMoved(u, b)

-----------------------------------------------------------------------------
VARIABLE part \* the one that runs

allVars == <<part, walletVars, clientVars>>

MCStart == [k \in Fields |-> 1]

Symmetric == Permutations(Members) \cup Permutations(Asks)

MCInit == part \in {"wallet", "browser"} /\ WalletInit /\ ClientInit

MCNext ==
  \/ part = "wallet" /\ WalletNext /\ UNCHANGED <<part, clientVars>>
  \/ part = "browser" /\ ClientNext /\ UNCHANGED <<part, walletVars>>

MCSpec == MCInit /\ [][MCNext]_allVars
=============================================================================
