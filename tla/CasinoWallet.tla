---------------------------- MODULE CasinoWallet ----------------------------
(***************************************************************************)
(* handleGameCallback beside the casino code that writes the same user row *)
(* with no transaction and no lock: handleMoneyCallback,                   *)
(* depositUserBalance and setFavorites.  Each of these reads the row,      *)
(* changes its copy and saves the whole copy: save reads the row again and *)
(* updates the columns that differ from the copy, stale ones included.     *)
(* The update waits for a row lock, the two reads do not.                  *)
(***************************************************************************)
EXTENDS GameCallback

CONSTANT Calls \* the unlocked calls of a behaviour; a repeated one is two

CallKinds == {"credit", "debit", "debit_credit", "deposit", "favorites"}

\* game: the request carries both provider_code and game_code.
CallType == [id: Nat, user: UserCodes, kind: CallKinds, amount: Nat,
             game: BOOLEAN]

ASSUME CallAssumption == Calls \subseteq CallType

VARIABLES wpc,  \* where each call is; answered: replied without a write
          copy, \* its copy of the user's row, changed in memory
          dirty, \* the balances save found different from the copy
          stale \* users whose row moved while a call held a copy (history)

callVars   == <<wpc, copy, dirty, stale>>
walletVars == <<vars, callVars>>

WalletInit ==
  /\ Init
  /\ wpc = [c \in Calls |-> "unsent"]
  /\ copy = [c \in Calls |-> NoBalances]
  /\ dirty = [c \in Calls |-> {}]
  /\ stale = {}

-----------------------------------------------------------------------------
\* Users whose row moves in this step under a copy of a call other than C.
Outdated(C) == {u \in Users : row'[u] # row[u] /\ \E c \in Calls \ C :
                                c.user = u /\ wpc[c] \in {"save", "update"}}

IsMoney(c) == c.kind \in {"credit", "debit", "debit_credit"}

\* What the call adds to its copy's realBalance.
Delta(c) == CASE c.kind \in {"credit", "deposit"} -> c.amount
              [] c.kind = "debit" -> -c.amount
              [] OTHER -> 0

\* Mutant: only a combined game transaction is acknowledged.
AcknowledgedCombined(c) == c.kind = "debit_credit" /\ c.game

\* A game transaction is only acknowledged: game_callback processes it.
AcknowledgedOnly(c) == IsMoney(c) /\ c.game

Refused(c) ==
  \/ c.user \notin Users
  \/ AcknowledgedOnly(c)
  \/ c.kind = "debit" /\ row[c.user]["realBalance"] < c.amount

ReadUser(c) ==
  /\ wpc[c] = "unsent"
  /\ ~Refused(c)
  /\ copy' = [copy EXCEPT ![c] = [row[c.user] EXCEPT !["realBalance"] =
                                     @ + Delta(c)]]
  /\ wpc' = [wpc EXCEPT ![c] = "save"]
  /\ UNCHANGED <<vars, dirty, stale>>

AnswerOnly(c) ==
  /\ wpc[c] = "unsent"
  /\ Refused(c)
  /\ wpc' = [wpc EXCEPT ![c] = "answered"]
  /\ UNCHANGED <<vars, copy, dirty, stale>>

Reload(c) ==
  /\ wpc[c] = "save"
  /\ dirty' = [dirty EXCEPT ![c] =
                  {b \in BalanceTypes : copy[c][b] # row[c.user][b]}]
  /\ wpc' = [wpc EXCEPT ![c] = "update"]
  /\ UNCHANGED <<vars, copy, stale>>

Update(c) ==
  /\ wpc[c] = "update"
  /\ lock[c.user] = None
  /\ row' = [row EXCEPT ![c.user] =
                [b \in BalanceTypes |->
                   IF b \in dirty[c] THEN copy[c][b] ELSE @[b]]]
  /\ wpc' = [wpc EXCEPT ![c] = "saved"]
  /\ copy' = [copy EXCEPT ![c] = NoBalances]
  /\ dirty' = [dirty EXCEPT ![c] = {}]
  /\ stale' = stale \cup Outdated({c})
  /\ UNCHANGED <<txns, typeKey, lock, acked, handlerVars>>

CallStep(c) == ReadUser(c) \/ AnswerOnly(c) \/ Reload(c) \/ Update(c)

WalletNext ==
  \/ Next /\ stale' = stale \cup Outdated({}) /\ UNCHANGED <<wpc, copy, dirty>>
  \/ \E c \in Calls : CallStep(c)

WalletSpec == WalletInit /\ [][WalletNext]_walletVars

-----------------------------------------------------------------------------
\* A balance moves only with a newly recorded game transaction or with the
\* save of a call that is not a game transaction: the money_callback of a
\* game transaction never moves it a second time.
MovesOnce ==
  [][row' # row =>
       \/ \E t \in txns' \ txns : ~Recorded(t)
       \/ \E c \in Calls : /\ wpc[c] = "update" /\ wpc'[c] = "saved"
                           /\ ~(IsMoney(c) /\ c.game)
    ]_walletVars
=============================================================================
