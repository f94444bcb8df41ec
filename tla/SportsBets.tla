----------------------------- MODULE SportsBets -----------------------------
(***************************************************************************)
(* placeBet, claimWinnings and updateBetStatus of sports/sports.service.ts.*)
(* There is no transaction and no lock: each call reads rows, changes its  *)
(* copies and saves them one after the other, the user's row before the    *)
(* bet's.  A save reads the row again and updates the columns that differ  *)
(* from the copy, columns the call never meant to change included.         *)
(***************************************************************************)
EXTENDS Integers, FiniteSets

CONSTANTS Users,
          Bets,    \* the bets that may be placed, each by one request
          Claims,  \* the claimWinnings requests of a behaviour
          Settles, \* the updateBetStatus requests
          InitialBalance, None

BalanceTypes == {"realBalance", "testBalance"}
BetStatus    == {"open", "won", "lost", "cancelled"}

\* valid: a parlay has two selections, a single bet a game and odds.
\* balance: the network's balance field.  payout: what amount and odds give.
BetType    == [id: Nat, user: Users, balance: BalanceTypes, amount: Nat,
               payout: Nat, valid: BOOLEAN]
ClaimType  == [id: Nat, user: Users, bet: Bets]
SettleType == [id: Nat, bet: Bets, status: BetStatus]

BetRow == [status: BetStatus, claimed: BOOLEAN, actualPayout: Nat]

ASSUME BetAssumption ==
  /\ Bets \subseteq BetType /\ Claims \subseteq ClaimType
  /\ Settles \subseteq SettleType
  /\ InitialBalance \in Nat /\ None \notin BetRow

Calls == Bets \cup Claims \cup Settles

VARIABLES row,    \* row[u][t]: the balance t of user u
          bets,   \* the table sports_bets, None where there is no row
          pc,     \* where each call is
          copy,   \* its copy of the user's row
          bcopy,  \* its copy of the bet's row, or None
          dirty,  \* the columns its save is about to update
          staked, \* bets whose stake has been taken (history)
          paid,   \* paid[b]: payouts written for bet b (history)
          overlapped \* users and bets two calls worked on at once, or a
                     \* call was cut off while working on (history)

vars == <<row, bets, pc, copy, bcopy, dirty, staked, paid, overlapped>>

BetColumns == {"status", "claimed", "actualPayout"}
NoUser == [t \in BalanceTypes |-> 0]

PCs == {"new", "readUser", "saveUser", "updateUser", "insert", "saveBet",
        "updateBet", "done", "refused", "cut"}

TypeOK ==
  /\ row \in [Users -> [BalanceTypes -> Nat]]
  /\ bets \in [Bets -> BetRow \cup {None}]
  /\ pc \in [Calls -> PCs]
  /\ copy \in [Calls -> [BalanceTypes -> Nat]]
  /\ bcopy \in [Calls -> BetRow \cup {None}]
  /\ dirty \in [Calls -> SUBSET (BalanceTypes \cup BetColumns)]
  /\ staked \subseteq Bets
  /\ paid \in [Bets -> Nat]
  /\ overlapped \subseteq Users \cup Bets

Init ==
  /\ row = [u \in Users |-> [t \in BalanceTypes |-> InitialBalance]]
  /\ bets = [b \in Bets |-> None]
  /\ pc = [c \in Calls |-> "new"]
  /\ copy = [c \in Calls |-> NoUser]
  /\ bcopy = [c \in Calls |-> None]
  /\ dirty = [c \in Calls |-> {}]
  /\ staked = {}
  /\ paid = [b \in Bets |-> 0]
  /\ overlapped = {}

-----------------------------------------------------------------------------

InFlight(c) == pc[c] \notin {"new", "done", "refused", "cut"}

\* The rows that a call reads and writes: placing a bet touches only the
\* user's row before it inserts the bet's, settling touches only the bet's.
Touches(c) == (IF c \in Settles THEN {} ELSE {c.user})
              \cup (IF c \in Bets THEN {} ELSE {c.bet})

\* The call begins: whatever a call in flight touches too is overlapped.
Begin(c, l) ==
  /\ pc' = [pc EXCEPT ![c] = l]
  /\ overlapped' = overlapped \cup
       UNION {Touches(c) \cap Touches(d) : d \in {e \in Calls : InFlight(e)}}

Goto(c, l) == pc' = [pc EXCEPT ![c] = l] /\ UNCHANGED overlapped

\* The call is over and its copies are gone.
Leave(c, l) ==
  /\ pc' = [pc EXCEPT ![c] = l]
  /\ copy' = [copy EXCEPT ![c] = NoUser]
  /\ bcopy' = [bcopy EXCEPT ![c] = None]
  /\ dirty' = [dirty EXCEPT ![c] = {}]

\* placeBet reads the user's row, checks, and takes the stake in its copy.
Acceptable(b) == b.valid /\ row[b.user][b.balance] >= b.amount

\* Mutant: the bet is inserted and its stake forgotten.
PlaceUnpaid(b) ==
  /\ pc[b] = "new"
  /\ Acceptable(b)
  /\ Begin(b, "insert")
  /\ UNCHANGED <<row, bets, copy, bcopy, dirty, staked, paid>>

PlaceBet(b) ==
  /\ pc[b] = "new"
  /\ Acceptable(b)
  /\ Begin(b, "saveUser")
  /\ copy' = [copy EXCEPT ![b] = [row[b.user] EXCEPT ![b.balance] =
                                     @ - b.amount]]
  /\ UNCHANGED <<row, bets, bcopy, dirty, staked, paid>>

\* Mutant: a claimed bet is claimed again.
ClaimableAgain(c) == /\ bets[c.bet] # None /\ c.user = c.bet.user
                     /\ bets[c.bet].status = "won"

\* getBetById of another user's bet finds nothing.
Claimable(c) == /\ bets[c.bet] # None /\ c.user = c.bet.user
                /\ bets[c.bet].status = "won" /\ ~bets[c.bet].claimed

\* The copy getBetById returns lacks the game ids of a parlay's selections,
\* which nothing here reads.
ClaimWinnings(c) ==
  /\ pc[c] = "new"
  /\ Claimable(c)
  /\ Begin(c, "readUser")
  /\ bcopy' = [bcopy EXCEPT ![c] = bets[c.bet]]
  /\ UNCHANGED <<row, bets, copy, dirty, staked, paid>>

\* Mutant: the stake is added to a payout that holds it.
ReadUserStakeToo(c) ==
  /\ pc[c] = "readUser"
  /\ copy' = [copy EXCEPT ![c] = [row[c.user] EXCEPT ![c.bet.balance] =
                                     @ + c.bet.payout + c.bet.amount]]
  /\ Goto(c, "saveUser")
  /\ UNCHANGED <<row, bets, bcopy, dirty, staked, paid>>

ReadUser(c) ==
  /\ pc[c] = "readUser"
  /\ copy' = [copy EXCEPT ![c] = [row[c.user] EXCEPT ![c.bet.balance] =
                                     @ + c.bet.payout]]
  /\ Goto(c, "saveUser")
  /\ UNCHANGED <<row, bets, bcopy, dirty, staked, paid>>

UpdateBetStatus(c) ==
  /\ pc[c] = "new"
  /\ bets[c.bet] # None
  /\ Begin(c, "saveBet")
  /\ bcopy' = [bcopy EXCEPT ![c] =
       [bets[c.bet] EXCEPT !.status = c.status,
          !.actualPayout = IF c.status = "lost" THEN 0 ELSE @]]
  /\ UNCHANGED <<row, bets, copy, dirty, staked, paid>>

Refuse(c) ==
  /\ pc[c] = "new"
  /\ \/ c \in Bets /\ ~Acceptable(c)
     \/ c \in Claims /\ ~Claimable(c)
     \/ c \in Settles /\ bets[c.bet] = None
  /\ Goto(c, "refused")
  /\ UNCHANGED <<row, bets, copy, bcopy, dirty, staked, paid>>

-----------------------------------------------------------------------------
ReloadUser(c) ==
  /\ pc[c] = "saveUser"
  /\ dirty' = [dirty EXCEPT ![c] =
                  {t \in BalanceTypes : copy[c][t] # row[c.user][t]}]
  /\ Goto(c, "updateUser")
  /\ UNCHANGED <<row, bets, copy, bcopy, staked, paid>>

\* A claim then marks its copy of the bet; a placed bet is yet to be saved.
UpdateUser(c) ==
  /\ pc[c] = "updateUser"
  /\ row' = [row EXCEPT ![c.user] =
       [t \in BalanceTypes |-> IF t \in dirty[c] THEN copy[c][t] ELSE @[t]]]
  /\ IF c \in Bets
     THEN /\ Goto(c, "insert")
          /\ staked' = staked \cup {c}
          /\ UNCHANGED <<paid, bcopy>>
     ELSE /\ Goto(c, "saveBet")
          /\ paid' = [paid EXCEPT ![c.bet] = @ + 1]
          /\ bcopy' = [bcopy EXCEPT ![c].claimed = TRUE,
                                    ![c].actualPayout = c.bet.payout]
          /\ UNCHANGED staked
  /\ UNCHANGED <<bets, copy, dirty>>

Insert(b) ==
  /\ pc[b] = "insert"
  /\ bets' = [bets EXCEPT ![b] = [status |-> "open", claimed |-> FALSE,
                                  actualPayout |-> 0]]
  /\ Leave(b, "done")
  /\ UNCHANGED <<row, staked, paid, overlapped>>

ReloadBet(c) ==
  /\ pc[c] = "saveBet"
  /\ dirty' = [dirty EXCEPT ![c] =
                  {k \in BetColumns : bcopy[c][k] # bets[c.bet][k]}]
  /\ Goto(c, "updateBet")
  /\ UNCHANGED <<row, bets, copy, bcopy, staked, paid>>

UpdateBet(c) ==
  /\ pc[c] = "updateBet"
  /\ bets' = [bets EXCEPT ![c.bet] =
       [k \in BetColumns |-> IF k \in dirty[c] THEN bcopy[c][k] ELSE @[k]]]
  /\ Leave(c, "done")
  /\ UNCHANGED <<row, staked, paid, overlapped>>

\* A query fails or the process stops: what was saved stays saved.
Cut(c) ==
  /\ InFlight(c)
  /\ Leave(c, "cut")
  /\ overlapped' = overlapped \cup Touches(c)
  /\ UNCHANGED <<row, bets, staked, paid>>

-----------------------------------------------------------------------------
Next ==
  \/ \E b \in Bets : PlaceBet(b) \/ Insert(b)
  \/ \E c \in Claims : ClaimWinnings(c) \/ ReadUser(c)
  \/ \E c \in Settles : UpdateBetStatus(c)
  \/ \E c \in Bets \cup Claims : ReloadUser(c) \/ UpdateUser(c)
  \/ \E c \in Claims \cup Settles : ReloadBet(c) \/ UpdateBet(c)
  \/ \E c \in Calls : Refuse(c) \/ Cut(c)

Spec == Init /\ [][Next]_vars

-----------------------------------------------------------------------------
\* No bet exists whose stake was not taken, and none is marked claimed whose
\* payout was not written: a call that is cut off between its two saves costs
\* the user a stake or leaves a paid bet open, never the other way round.
MoneyFirst ==
  \A b \in Bets : bets[b] # None => /\ b \in staked
                                    /\ bets[b].claimed => paid[b] > 0

\* A bet is paid again only after two calls worked on it at once or a call
\* was cut off: one after the other, claims and status updates pay it once.
PaidAgainNeedsOverlap ==
  \A b \in Bets : paid[b] > 1 => b \in overlapped
=============================================================================
