-------------------------- MODULE SportsBetsProofs --------------------------
(***************************************************************************)
(* Stakes and payouts of SportsBets, for any bets, claims and settlements, *)
(* and what the browsers show and send, for any markets and slips.         *)
(*                                                                         *)
(* A call carries a copy of the bet's row from its first read to its last  *)
(* save; the invariant says what that copy and the row can be while the    *)
(* bet belongs to one call alone.                                          *)
(***************************************************************************)
EXTENDS MCSportsBets, SumProofs, TLAPS

\* Which steps each kind of call goes through.
Places ==
  /\ \A b \in Bets : pc[b] \in {"new", "saveUser", "updateUser", "insert",
                                "done", "refused", "cut"}
  /\ \A c \in Settles : pc[c] \in {"new", "saveBet", "updateBet", "done",
                                   "refused", "cut"}

\* A call about a bet holds a copy of its row, and the row is there.
Carries ==
  \A c \in Claims \cup Settles :
    InFlight(c) => bcopy[c] \in BetRow /\ bets[c.bet] \in BetRow

\* The stake comes before the row.
StakeFirst ==
  \A b \in Bets : /\ pc[b] = "insert" => b \in staked
                  /\ bets[b] # None => pc[b] = "done" /\ b \in staked

\* The payout comes before every mark of it, in the row or in a copy.
PaidFirst ==
  /\ \A b \in Bets : bets[b] # None /\ bets[b].claimed => paid[b] > 0
  /\ \A c \in Claims \cup Settles :
       InFlight(c) /\ bcopy[c].claimed => paid[c.bet] > 0

\* Two calls that are in flight at once have nothing in common that is not
\* recorded as overlapped.
Apart ==
  \A c, d \in Calls :
    c # d /\ InFlight(c) /\ InFlight(d)
      => Touches(c) \cap Touches(d) \subseteq overlapped

\* What is known of a bet that no two calls worked on at once: one that was paid
\* is marked or is about to be, by the claim that paid it.
Once(b) ==
  /\ paid[b] \in {0, 1}
  /\ paid[b] = 1 => \/ bets[b] # None /\ bets[b].claimed
                    \/ \E c \in Claims : /\ c.bet = b
                                         /\ pc[c] \in {"saveBet", "updateBet"}

ClaimOnce(c) ==
  /\ pc[c] \in {"readUser", "saveUser", "updateUser"} => paid[c.bet] = 0
  /\ pc[c] = "saveBet" => bcopy[c].claimed
  /\ pc[c] = "updateBet" =>
       bcopy[c].claimed /\ (bets[c.bet].claimed \/ "claimed" \in dirty[c])

SettleOnce(c) ==
  /\ pc[c] = "saveBet" => bcopy[c].claimed = bets[c.bet].claimed
  /\ pc[c] = "updateBet" /\ "claimed" \in dirty[c] =>
       bcopy[c].claimed = bets[c.bet].claimed

AloneOnce ==
  /\ \A b \in Bets \ overlapped : Once(b)
  /\ \A c \in Claims : c.bet \notin overlapped => ClaimOnce(c)
  /\ \A c \in Settles : c.bet \notin overlapped => SettleOnce(c)

SInv == TypeOK /\ Places /\ Carries /\ StakeFirst /\ PaidFirst

-----------------------------------------------------------------------------
LEMMA KindsDiffer ==
  /\ Bets \cap Claims = {} /\ Bets \cap Settles = {}
  /\ Claims \cap Settles = {}
  BY BetAssumption DEF BetType, ClaimType, SettleType

LEMMA RowsAreRows == None \notin BetRow
  BY BetAssumption DEF BetRow

LEMMA CallsTouch ==
  ASSUME NEW c \in Calls
  PROVE  /\ Touches(c) \subseteq Users \cup Bets
         /\ c \in Claims \cup Settles => c.bet \in Bets /\ c.bet \in Touches(c)
  BY BetAssumption, KindsDiffer
  DEF Touches, Calls, BetType, ClaimType, SettleType

LEMMA InitSInv == Init => SInv /\ Apart /\ AloneOnce
  BY BetAssumption, KindsDiffer
  DEF Init, SInv, TypeOK, Places, Carries, StakeFirst, PaidFirst, Apart,
      AloneOnce, Once, ClaimOnce, SettleOnce, InFlight, Calls, PCs, NoUser,
      BetRow

-----------------------------------------------------------------------------
\* A step that leaves calls and rows alone is no concern of the invariant.
LEMMA StutterKeeps ==
  ASSUME SInv, Apart, AloneOnce, UNCHANGED vars
  PROVE  SInv' /\ Apart' /\ AloneOnce'
  BY DEF vars, SInv, TypeOK, Places, Carries, StakeFirst, PaidFirst, Apart,
         AloneOnce, Once, ClaimOnce, SettleOnce, InFlight, Touches

\* A call that begins takes what it shares with others out of what is known.
LEMMA BeginMeets ==
  ASSUME TypeOK, Apart, NEW c \in Calls, NEW l \in PCs, pc[c] = "new",
         Begin(c, l)
  PROVE  /\ Apart'
         /\ overlapped \subseteq overlapped'
         /\ overlapped' \subseteq Users \cup Bets
         /\ \A d \in Calls : InFlight(d) => /\ d # c
              /\ Touches(c) \cap Touches(d) \subseteq overlapped'
<1>1. \A d \in Calls : InFlight(d) =>
        Touches(c) \cap Touches(d) \subseteq overlapped'
  BY DEF Begin
<1>2. \A d \in Calls \ {c} : pc'[d] = pc[d]
  BY DEF Begin, TypeOK
<1>3. ~InFlight(c)
  BY DEF InFlight
<1>4. overlapped \subseteq overlapped' /\ overlapped' \subseteq Users \cup Bets
  <2>1. overlapped \subseteq Users \cup Bets
    BY DEF TypeOK
  <2> QED BY <2>1, CallsTouch DEF Begin
<1>5. Apart'
  <2> SUFFICES ASSUME NEW d \in Calls, NEW e \in Calls, d # e,
                      InFlight(d)', InFlight(e)'
               PROVE  Touches(d) \cap Touches(e) \subseteq overlapped'
    BY DEF Apart, Touches
  <2>1. CASE d # c /\ e # c
    BY <2>1, <1>2, <1>4 DEF Apart, InFlight
  <2>2. CASE d = c
    BY <2>2, <1>1, <1>2 DEF InFlight
  <2>3. CASE e = c
    BY <2>3, <1>1, <1>2 DEF InFlight
  <2> QED BY <2>1, <2>2, <2>3
<1> QED BY <1>1, <1>3, <1>4, <1>5

\* A call that goes on or leaves meets nobody it had not met before.
LEMMA GoingOnApart ==
  ASSUME TypeOK, Apart, NEW c \in Calls, NEW l \in PCs,
         InFlight(c) \/ l \in {"new", "done", "refused", "cut"},
         pc' = [pc EXCEPT ![c] = l], overlapped \subseteq overlapped'
  PROVE  Apart'
<1>1. \A d \in Calls : InFlight(d)' => InFlight(d)
  BY DEF InFlight, TypeOK
<1> QED BY <1>1 DEF Apart, Touches

-----------------------------------------------------------------------------
LEMMA PlaceBetKeeps ==
  ASSUME SInv, Apart, AloneOnce, NEW b \in Bets, PlaceBet(b)
  PROVE  SInv' /\ Apart' /\ AloneOnce'
<1>1. b \in Calls /\ "saveUser" \in PCs /\ b \notin Claims /\ b \notin Settles
  BY KindsDiffer DEF Calls, PCs
<1>2. /\ Apart' /\ overlapped \subseteq overlapped'
      /\ overlapped' \subseteq Users \cup Bets
  BY <1>1, BeginMeets DEF SInv, PlaceBet
<1>3. TypeOK'
  <2>1. [row[b.user] EXCEPT ![b.balance] = @ - b.amount]
          \in [BalanceTypes -> Nat]
    <3>1. /\ b.user \in Users /\ b.balance \in BalanceTypes /\ b.amount \in Nat
          /\ row[b.user] \in [BalanceTypes -> Nat]
      BY BetAssumption DEF BetType, SInv, TypeOK
    <3>2. row[b.user][b.balance] >= b.amount
      BY DEF PlaceBet, Acceptable
    <3> QED BY <3>1, <3>2
  <2> QED BY <1>1, <1>2, <2>1 DEF PlaceBet, Begin, SInv, TypeOK
<1>4. Places' /\ Carries' /\ StakeFirst' /\ PaidFirst'
  BY <1>1 DEF PlaceBet, Begin, SInv, TypeOK, Places, Carries, StakeFirst,
              PaidFirst, InFlight, Calls
<1>5. AloneOnce'
  BY <1>1, <1>2 DEF PlaceBet, Begin, SInv, TypeOK, AloneOnce, Once, ClaimOnce,
                    SettleOnce, Calls
<1> QED BY <1>2, <1>3, <1>4, <1>5 DEF SInv

LEMMA ClaimKeeps ==
  ASSUME SInv, Apart, AloneOnce, NEW c \in Claims, ClaimWinnings(c)
  PROVE  SInv' /\ Apart' /\ AloneOnce'
<1>1. /\ c \in Calls /\ "readUser" \in PCs /\ c \notin Bets /\ c \notin Settles
      /\ c.bet \in Bets /\ c.bet \in Touches(c)
  BY KindsDiffer, CallsTouch DEF Calls, PCs
<1>2. /\ Apart' /\ overlapped \subseteq overlapped'
      /\ overlapped' \subseteq Users \cup Bets
      /\ \A d \in Calls : InFlight(d) => /\ d # c
           /\ Touches(c) \cap Touches(d) \subseteq overlapped'
  BY <1>1, BeginMeets DEF SInv, ClaimWinnings
<1>3. bets[c.bet] \in BetRow /\ bets[c.bet] # None /\ ~bets[c.bet].claimed
  BY <1>1 DEF ClaimWinnings, Claimable, SInv, TypeOK
<1>4. TypeOK'
  BY <1>1, <1>2, <1>3 DEF ClaimWinnings, Begin, SInv, TypeOK
<1>5. Places' /\ Carries' /\ StakeFirst' /\ PaidFirst'
  BY <1>1, <1>3 DEF ClaimWinnings, Begin, SInv, TypeOK, Places, Carries,
                    StakeFirst, PaidFirst, InFlight, Calls
<1>6. AloneOnce'
  <2>1. c.bet \notin overlapped' => paid[c.bet] = 0
    <3> SUFFICES ASSUME c.bet \notin overlapped' PROVE paid[c.bet] = 0
      OBVIOUS
    <3>1. Once(c.bet)
      BY <1>1, <1>2 DEF AloneOnce
    <3>2. \A d \in Claims : d.bet = c.bet =>
            pc[d] \notin {"saveBet", "updateBet"}
      BY <1>2, <1>1, CallsTouch DEF InFlight, Calls
    <3> QED BY <3>1, <3>2, <1>3 DEF Once
  <2>2. \A b \in Bets \ overlapped' : Once(b)'
    BY <1>1, <1>2 DEF ClaimWinnings, Begin, SInv, TypeOK, AloneOnce, Once, Calls
  <2>3. \A d \in Claims : d.bet \notin overlapped' => ClaimOnce(d)'
    BY <1>1, <1>2, <2>1
    DEF ClaimWinnings, Begin, SInv, TypeOK, AloneOnce, ClaimOnce, Calls
  <2>4. \A d \in Settles : d.bet \notin overlapped' => SettleOnce(d)'
    BY <1>1, <1>2
    DEF ClaimWinnings, Begin, SInv, TypeOK, AloneOnce, SettleOnce, Calls
  <2> QED BY <2>2, <2>3, <2>4 DEF AloneOnce
<1> QED BY <1>2, <1>4, <1>5, <1>6 DEF SInv

LEMMA SettleKeeps ==
  ASSUME SInv, Apart, AloneOnce, NEW c \in Settles, UpdateBetStatus(c)
  PROVE  SInv' /\ Apart' /\ AloneOnce'
<1>1. /\ c \in Calls /\ "saveBet" \in PCs /\ c \notin Bets /\ c \notin Claims
      /\ c.bet \in Bets /\ c.bet \in Touches(c) /\ c.status \in BetStatus
  BY KindsDiffer, CallsTouch, BetAssumption DEF Calls, PCs, SettleType
<1>2. /\ Apart' /\ overlapped \subseteq overlapped'
      /\ overlapped' \subseteq Users \cup Bets
      /\ \A d \in Calls : InFlight(d) => /\ d # c
           /\ Touches(c) \cap Touches(d) \subseteq overlapped'
  BY <1>1, BeginMeets DEF SInv, UpdateBetStatus
<1> DEFINE new == [bets[c.bet] EXCEPT !.status = c.status,
                     !.actualPayout = IF c.status = "lost" THEN 0 ELSE @]
<1>3. /\ bets[c.bet] \in BetRow /\ bets[c.bet] # None
      /\ new \in BetRow /\ new.claimed = bets[c.bet].claimed
  <2>1. bets[c.bet] \in BetRow /\ bets[c.bet] # None
    BY <1>1 DEF UpdateBetStatus, SInv, TypeOK
  <2> QED BY <1>1, <2>1 DEF BetRow
<1>4. bcopy' = [bcopy EXCEPT ![c] = new]
  BY DEF UpdateBetStatus
<1> HIDE DEF new
<1>5. TypeOK'
  BY <1>1, <1>2, <1>3, <1>4 DEF UpdateBetStatus, Begin, SInv, TypeOK
<1>6. Places' /\ Carries' /\ StakeFirst' /\ PaidFirst'
  BY <1>1, <1>3, <1>4
  DEF UpdateBetStatus, Begin, SInv, TypeOK, Places, Carries, StakeFirst,
      PaidFirst, InFlight, Calls
<1>7. AloneOnce'
  <2>1. \A b \in Bets \ overlapped' : Once(b)'
    BY <1>1, <1>2
    DEF UpdateBetStatus, Begin, SInv, TypeOK, AloneOnce, Once, Calls
  <2>2. \A d \in Claims : d.bet \notin overlapped' => ClaimOnce(d)'
    BY <1>1, <1>2, <1>4
    DEF UpdateBetStatus, Begin, SInv, TypeOK, AloneOnce, ClaimOnce, Calls
  <2>3. \A d \in Settles : d.bet \notin overlapped' => SettleOnce(d)'
    BY <1>1, <1>2, <1>3, <1>4
    DEF UpdateBetStatus, Begin, SInv, TypeOK, AloneOnce, SettleOnce, Calls
  <2> QED BY <2>1, <2>2, <2>3 DEF AloneOnce
<1> QED BY <1>2, <1>5, <1>6, <1>7 DEF SInv

LEMMA ReadUserKeeps ==
  ASSUME SInv, Apart, AloneOnce, NEW c \in Claims, ReadUser(c)
  PROVE  SInv' /\ Apart' /\ AloneOnce'
<1>1. /\ c \in Calls /\ "saveUser" \in PCs /\ c \notin Bets /\ c \notin Settles
      /\ c.bet \in Bets /\ c.user \in Users
      /\ c.bet.balance \in BalanceTypes /\ c.bet.payout \in Nat
  BY KindsDiffer, BetAssumption DEF Calls, PCs, ClaimType, BetType
<1>2. Apart'
  BY <1>1, GoingOnApart DEF ReadUser, Goto, SInv, InFlight
<1>3. TypeOK'
  <2>1. [row[c.user] EXCEPT ![c.bet.balance] = @ + c.bet.payout]
          \in [BalanceTypes -> Nat]
    BY <1>1 DEF SInv, TypeOK
  <2> QED BY <1>1, <2>1 DEF ReadUser, Goto, SInv, TypeOK
<1>4. Places' /\ Carries' /\ StakeFirst' /\ PaidFirst'
  BY <1>1 DEF ReadUser, Goto, SInv, TypeOK, Places, Carries, StakeFirst,
              PaidFirst, InFlight, Calls
<1>5. AloneOnce'
  BY <1>1 DEF ReadUser, Goto, SInv, TypeOK, AloneOnce, Once, ClaimOnce,
              SettleOnce, Calls
<1> QED BY <1>2, <1>3, <1>4, <1>5 DEF SInv

LEMMA RefuseKeeps ==
  ASSUME SInv, Apart, AloneOnce, NEW c \in Calls, Refuse(c)
  PROVE  SInv' /\ Apart' /\ AloneOnce'
<1>1. "refused" \in PCs
  BY DEF PCs
<1>2. Apart'
  BY <1>1, GoingOnApart DEF Refuse, Goto, SInv
<1>3. TypeOK'
  BY <1>1 DEF Refuse, Goto, SInv, TypeOK
<1>4. Places' /\ Carries' /\ StakeFirst' /\ PaidFirst'
  BY KindsDiffer DEF Refuse, Goto, SInv, TypeOK, Places, Carries, StakeFirst,
                     PaidFirst, InFlight, Calls
<1>5. AloneOnce'
  BY DEF Refuse, Goto, SInv, TypeOK, AloneOnce, Once, ClaimOnce, SettleOnce,
         Calls
<1> QED BY <1>2, <1>3, <1>4, <1>5 DEF SInv

LEMMA ReloadUserKeeps ==
  ASSUME SInv, Apart, AloneOnce, NEW c \in Bets \cup Claims, ReloadUser(c)
  PROVE  SInv' /\ Apart' /\ AloneOnce'
<1>1. c \in Calls /\ "updateUser" \in PCs /\ c \notin Settles
  BY KindsDiffer DEF Calls, PCs
<1>2. Apart'
  BY <1>1, GoingOnApart DEF ReloadUser, Goto, SInv, InFlight
<1>3. TypeOK'
  BY <1>1 DEF ReloadUser, Goto, SInv, TypeOK
<1>4. Places' /\ Carries' /\ StakeFirst' /\ PaidFirst'
  BY <1>1, KindsDiffer
  DEF ReloadUser, Goto, SInv, TypeOK, Places, Carries, StakeFirst, PaidFirst,
      InFlight, Calls
<1>5. AloneOnce'
  BY <1>1, KindsDiffer
  DEF ReloadUser, Goto, SInv, TypeOK, AloneOnce, Once, ClaimOnce, SettleOnce,
      Calls
<1> QED BY <1>2, <1>3, <1>4, <1>5 DEF SInv

LEMMA StakeKeeps ==
  ASSUME SInv, Apart, AloneOnce, NEW b \in Bets, UpdateUser(b)
  PROVE  SInv' /\ Apart' /\ AloneOnce'
<1>1. /\ b \in Calls /\ "insert" \in PCs /\ b \notin Claims /\ b \notin Settles
      /\ b.user \in Users
  BY KindsDiffer, BetAssumption DEF Calls, PCs, BetType
<1>2. Apart'
  BY <1>1, GoingOnApart DEF UpdateUser, Goto, SInv, InFlight
<1>3. TypeOK'
  BY <1>1 DEF UpdateUser, Goto, SInv, TypeOK
<1>4. Places' /\ Carries' /\ StakeFirst' /\ PaidFirst'
  BY <1>1 DEF UpdateUser, Goto, SInv, TypeOK, Places, Carries, StakeFirst,
              PaidFirst, InFlight, Calls
<1>5. AloneOnce'
  BY <1>1 DEF UpdateUser, Goto, SInv, TypeOK, AloneOnce, Once, ClaimOnce,
              SettleOnce, Calls
<1> QED BY <1>2, <1>3, <1>4, <1>5 DEF SInv

LEMMA PayoutKeeps ==
  ASSUME SInv, Apart, AloneOnce, NEW c \in Claims, UpdateUser(c)
  PROVE  SInv' /\ Apart' /\ AloneOnce'
<1>1. /\ c \in Calls /\ "saveBet" \in PCs /\ c \notin Bets /\ c \notin Settles
      /\ c.bet \in Bets /\ c.bet \in Touches(c) /\ c.user \in Users
      /\ c.bet.payout \in Nat /\ InFlight(c)
  BY KindsDiffer, CallsTouch, BetAssumption
  DEF Calls, PCs, ClaimType, BetType, UpdateUser, InFlight
<1>2. Apart'
  BY <1>1, GoingOnApart DEF UpdateUser, Goto, SInv
<1> DEFINE new == [bcopy[c] EXCEPT !.claimed = TRUE,
                                   !.actualPayout = c.bet.payout]
<1>3. /\ bcopy' = [bcopy EXCEPT ![c] = new]
      /\ new \in BetRow /\ new.claimed = TRUE
  <2>1. bcopy[c] \in BetRow
    BY <1>1 DEF SInv, Carries
  <2>2. new \in BetRow /\ new.claimed = TRUE
    BY <1>1, <2>1 DEF BetRow
  <2>3. bcopy' = [bcopy EXCEPT ![c] = new]
    BY <1>1 DEF UpdateUser, SInv, TypeOK
  <2> QED BY <2>2, <2>3
<1> HIDE DEF new
<1>4. /\ pc' = [pc EXCEPT ![c] = "saveBet"]
      /\ paid' = [paid EXCEPT ![c.bet] = @ + 1]
      /\ UNCHANGED <<bets, dirty, copy, staked, overlapped>>
  BY <1>1 DEF UpdateUser, Goto
<1>5. TypeOK'
  <2>1. row' \in [Users -> [BalanceTypes -> Nat]]
    BY <1>1 DEF UpdateUser, SInv, TypeOK
  <2> QED BY <1>1, <1>3, <1>4, <2>1 DEF SInv, TypeOK
<1>6. Places' /\ Carries' /\ StakeFirst' /\ PaidFirst'
  BY <1>1, <1>3, <1>4, BetAssumption
  DEF SInv, TypeOK, Places, Carries, StakeFirst, PaidFirst, InFlight, Calls,
      ClaimType, SettleType
<1>7. AloneOnce'
  <2>1. \A d \in Calls \ {c} : InFlight(d) /\ c.bet \in Touches(d)
                                 => c.bet \in overlapped
    BY <1>1 DEF Apart
  <2>2. \A b \in Bets \ overlapped' : Once(b)'
    BY <1>1, <1>4 DEF UpdateUser, SInv, TypeOK, AloneOnce, Once, ClaimOnce,
                      Calls
  <2>3. \A d \in Claims : d.bet \notin overlapped' => ClaimOnce(d)'
    <3> SUFFICES ASSUME NEW d \in Claims, d.bet \notin overlapped
                 PROVE  ClaimOnce(d)'
      BY <1>4
    <3>1. CASE d = c
      BY <1>1, <1>3, <1>4, <3>1 DEF SInv, TypeOK, ClaimOnce
    <3>2. CASE d # c
      <4>1. d.bet = c.bet => ~InFlight(d)
        BY <2>1, <3>2, CallsTouch DEF Calls
      <4> QED BY <1>1, <1>3, <1>4, <3>2, <4>1, CallsTouch
              DEF SInv, TypeOK, AloneOnce, ClaimOnce, InFlight, Calls
    <3> QED BY <3>1, <3>2
  <2>4. \A d \in Settles : d.bet \notin overlapped' => SettleOnce(d)'
    BY <1>1, <1>3, <1>4 DEF SInv, TypeOK, AloneOnce, SettleOnce, Calls
  <2> QED BY <2>2, <2>3, <2>4 DEF AloneOnce
<1> QED BY <1>2, <1>5, <1>6, <1>7 DEF SInv

LEMMA InsertKeeps ==
  ASSUME SInv, Apart, AloneOnce, NEW b \in Bets, Insert(b)
  PROVE  SInv' /\ Apart' /\ AloneOnce'
<1>1. /\ b \in Calls /\ "done" \in PCs /\ b \notin Claims /\ b \notin Settles
      /\ pc[b] = "insert"
  BY KindsDiffer DEF Calls, PCs, Insert
<1>2. Apart'
  BY <1>1, GoingOnApart DEF Insert, Leave, SInv
<1> DEFINE new == [status |-> "open", claimed |-> FALSE, actualPayout |-> 0]
<1>3. /\ bets' = [bets EXCEPT ![b] = new]
      /\ new \in BetRow /\ new # None /\ ~new.claimed
  <2>1. bets' = [bets EXCEPT ![b] = new]
    BY DEF Insert
  <2>2. new \in BetRow
    BY DEF BetRow, BetStatus
  <2>3. ~new.claimed
    OBVIOUS
  <2> QED BY <2>1, <2>2, <2>3, RowsAreRows
<1> HIDE DEF new
<1>4. bets[b] = None
  BY <1>1 DEF SInv, StakeFirst
<1>5. TypeOK'
  BY <1>1, <1>3 DEF Insert, Leave, SInv, TypeOK, NoUser
<1>6. Places' /\ Carries' /\ StakeFirst' /\ PaidFirst'
  <2>1. Places' /\ StakeFirst'
    BY <1>1, <1>3
    DEF Insert, Leave, SInv, TypeOK, Places, StakeFirst, Calls
  <2>2. Carries'
    BY <1>1, <1>3, CallsTouch
    DEF Insert, Leave, SInv, TypeOK, Carries, InFlight, Calls
  <2>3. PaidFirst'
    BY <1>1, <1>3 DEF Insert, Leave, SInv, TypeOK, PaidFirst, InFlight, Calls
  <2> QED BY <2>1, <2>2, <2>3
<1>7. \A d \in Claims \cup Settles : InFlight(d) => d.bet # b
  BY <1>4, RowsAreRows DEF SInv, Carries
<1>8. AloneOnce'
  <2>1. \A a \in Bets \ overlapped' : Once(a)'
    <3> SUFFICES ASSUME NEW a \in Bets, a \notin overlapped PROVE Once(a)'
      BY DEF Insert
    <3>1. Once(a) /\ paid' = paid /\ \A d \in Claims : pc'[d] = pc[d]
      BY <1>1 DEF Insert, Leave, SInv, TypeOK, AloneOnce, Calls
    <3>2. CASE a = b
      <4>1. paid[b] # 1
        BY <1>4, <1>7, <3>1, <3>2 DEF Once, InFlight
      <4> QED BY <3>1, <3>2, <4>1 DEF Once
    <3>3. CASE a # b
      BY <1>3, <3>1, <3>3 DEF Once, SInv, TypeOK
    <3> QED BY <3>2, <3>3
  <2>2. \A d \in Claims : d.bet \notin overlapped' => ClaimOnce(d)'
    BY <1>1, <1>3, <1>7
    DEF Insert, Leave, SInv, TypeOK, AloneOnce, ClaimOnce, InFlight, Calls
  <2>3. \A d \in Settles : d.bet \notin overlapped' => SettleOnce(d)'
    <3> SUFFICES ASSUME NEW d \in Settles, d.bet \notin overlapped
                 PROVE  SettleOnce(d)'
      BY DEF Insert
    <3>1. /\ SettleOnce(d) /\ pc'[d] = pc[d]
          /\ bcopy'[d] = bcopy[d] /\ dirty'[d] = dirty[d]
      BY <1>1 DEF Insert, Leave, SInv, TypeOK, AloneOnce, Calls
    <3>2. CASE d.bet = b
      BY <1>7, <3>1, <3>2 DEF SettleOnce, InFlight
    <3>3. CASE d.bet # b
      <4>1. bets'[d.bet] = bets[d.bet]
        BY <1>3, <3>3, CallsTouch DEF SInv, TypeOK, Calls
      <4> QED BY <3>1, <4>1 DEF SettleOnce
    <3> QED BY <3>2, <3>3
  <2> QED BY <2>1, <2>2, <2>3 DEF AloneOnce
<1> QED BY <1>2, <1>5, <1>6, <1>8 DEF SInv

LEMMA ReloadBetKeeps ==
  ASSUME SInv, Apart, AloneOnce, NEW c \in Claims \cup Settles, ReloadBet(c)
  PROVE  SInv' /\ Apart' /\ AloneOnce'
<1>1. /\ c \in Calls /\ "updateBet" \in PCs /\ c \notin Bets
      /\ c.bet \in Bets /\ InFlight(c)
  BY KindsDiffer, CallsTouch DEF Calls, PCs, ReloadBet, InFlight
<1>2. Apart'
  BY <1>1, GoingOnApart DEF ReloadBet, Goto, SInv
<1>3. TypeOK'
  BY <1>1 DEF ReloadBet, Goto, SInv, TypeOK
<1>4. Places' /\ Carries' /\ StakeFirst' /\ PaidFirst'
  BY <1>1 DEF ReloadBet, Goto, SInv, TypeOK, Places, Carries, StakeFirst,
              PaidFirst, InFlight, Calls
<1>5. AloneOnce'
  <2>1. bcopy[c].claimed \in BOOLEAN /\ bets[c.bet].claimed \in BOOLEAN
    BY <1>1 DEF SInv, Carries, BetRow
  <2>2. "claimed" \in dirty'[c] <=> bcopy[c].claimed # bets[c.bet].claimed
    <3>1. dirty'[c] = {k \in BetColumns : bcopy[c][k] # bets[c.bet][k]}
      BY <1>1 DEF ReloadBet, SInv, TypeOK
    <3>2. /\ bcopy[c]["claimed"] = bcopy[c].claimed
          /\ bets[c.bet]["claimed"] = bets[c.bet].claimed
      OBVIOUS
    <3> QED BY <3>1, <3>2 DEF BetColumns
  <2>3. \A b \in Bets \ overlapped' : Once(b)'
    BY <1>1 DEF ReloadBet, Goto, SInv, TypeOK, AloneOnce, Once, Calls
  <2>4. \A d \in Claims : d.bet \notin overlapped' => ClaimOnce(d)'
    BY <1>1, <2>1, <2>2
    DEF ReloadBet, Goto, SInv, TypeOK, AloneOnce, ClaimOnce, Calls
  <2>5. \A d \in Settles : d.bet \notin overlapped' => SettleOnce(d)'
    BY <1>1, <2>1, <2>2
    DEF ReloadBet, Goto, SInv, TypeOK, AloneOnce, SettleOnce, Calls
  <2> QED BY <2>3, <2>4, <2>5 DEF AloneOnce
<1> QED BY <1>2, <1>3, <1>4, <1>5 DEF SInv

LEMMA CutKeeps ==
  ASSUME SInv, Apart, AloneOnce, NEW c \in Calls, Cut(c)
  PROVE  SInv' /\ Apart' /\ AloneOnce'
<1>1. /\ "cut" \in PCs /\ InFlight(c) /\ overlapped \subseteq overlapped'
      /\ overlapped' \subseteq Users \cup Bets
  BY CallsTouch DEF PCs, Cut, SInv, TypeOK
<1>2. Apart'
  BY <1>1, GoingOnApart DEF Cut, Leave, SInv
<1>3. TypeOK'
  BY <1>1 DEF Cut, Leave, SInv, TypeOK, NoUser
<1>4. Places' /\ Carries' /\ StakeFirst' /\ PaidFirst'
  BY <1>1, KindsDiffer
  DEF Cut, Leave, SInv, TypeOK, Places, Carries, StakeFirst, PaidFirst,
      InFlight, Calls
<1>5. AloneOnce'
  <2>1. c \in Claims => c.bet \in overlapped'
    BY CallsTouch DEF Cut
  <2> QED BY <1>1, <2>1 DEF Cut, Leave, SInv, TypeOK, AloneOnce, Once,
                            ClaimOnce, SettleOnce, Calls
<1> QED BY <1>2, <1>3, <1>4, <1>5 DEF SInv

LEMMA UpdateBetKeeps ==
  ASSUME SInv, Apart, AloneOnce, NEW c \in Claims \cup Settles, UpdateBet(c)
  PROVE  SInv' /\ Apart' /\ AloneOnce'
<1>1. /\ c \in Calls /\ "done" \in PCs /\ c \notin Bets
      /\ c.bet \in Bets /\ c.bet \in Touches(c) /\ InFlight(c)
      /\ pc[c] = "updateBet"
  BY KindsDiffer, CallsTouch DEF Calls, PCs, UpdateBet, InFlight
<1>2. Apart'
  BY <1>1, GoingOnApart DEF UpdateBet, Leave, SInv
<1> DEFINE new == [k \in BetColumns |->
                     IF k \in dirty[c] THEN bcopy[c][k] ELSE bets[c.bet][k]]
<1>3. bets' = [bets EXCEPT ![c.bet] = new]
  BY <1>1 DEF UpdateBet, SInv, TypeOK
<1>4. /\ bcopy[c] \in BetRow /\ bets[c.bet] \in BetRow
      /\ bets[c.bet] # None
  BY <1>1, RowsAreRows DEF SInv, Carries
<1>5. /\ new \in BetRow /\ new # None
      /\ new.claimed = IF "claimed" \in dirty[c] THEN bcopy[c].claimed
                       ELSE bets[c.bet].claimed
  <2>1. new \in BetRow
    BY <1>4 DEF BetRow, BetColumns
  <2>2. new.claimed = IF "claimed" \in dirty[c] THEN bcopy[c].claimed
                      ELSE bets[c.bet].claimed
    BY DEF BetColumns
  <2> QED BY <2>1, <2>2, RowsAreRows
<1> HIDE DEF new
<1>6. TypeOK'
  BY <1>1, <1>3, <1>5 DEF UpdateBet, Leave, SInv, TypeOK, NoUser
<1>7. Places' /\ Carries' /\ StakeFirst' /\ PaidFirst'
  <2>1. Places'
    BY <1>1 DEF UpdateBet, Leave, SInv, TypeOK, Places, Calls
  <2>2. StakeFirst'
    BY <1>1, <1>3, <1>4
    DEF UpdateBet, Leave, SInv, TypeOK, StakeFirst, Calls
  <2>3. Carries'
    BY <1>1, <1>3, <1>5, CallsTouch
    DEF UpdateBet, Leave, SInv, TypeOK, Carries, InFlight, Calls
  <2>4. PaidFirst'
    <3>1. new.claimed => paid[c.bet] > 0
      BY <1>1, <1>4, <1>5 DEF SInv, PaidFirst
    <3> QED BY <1>1, <1>3, <3>1
            DEF UpdateBet, Leave, SInv, TypeOK, PaidFirst, InFlight, Calls
  <2> QED BY <2>1, <2>2, <2>3, <2>4
<1>8. \A d \in Claims \cup Settles :
        d # c /\ d.bet = c.bet /\ c.bet \notin overlapped => ~InFlight(d)
  BY <1>1, CallsTouch DEF Apart, Calls
<1>9. AloneOnce'
  <2>1. \A b \in Bets \ overlapped' : Once(b)'
    <3> SUFFICES ASSUME NEW b \in Bets, b \notin overlapped PROVE Once(b)'
      BY DEF UpdateBet
    <3>1. Once(b) /\ paid' = paid
          /\ \A d \in Claims : d # c => pc'[d] = pc[d]
      BY <1>1 DEF UpdateBet, Leave, SInv, TypeOK, AloneOnce, Calls
    <3>2. CASE c.bet = b
      <4>1. CASE c \in Claims
        <5>1. new.claimed
          BY <1>1, <1>5, <3>2, <4>1 DEF AloneOnce, ClaimOnce
        <5> QED BY <1>1, <1>3, <1>5, <3>1, <3>2, <5>1 DEF Once, SInv, TypeOK
      <4>2. CASE c \in Settles
        <5>1. new.claimed = bets[b].claimed
          BY <1>1, <1>5, <3>2, <4>2 DEF AloneOnce, SettleOnce
        <5>2. \A d \in Claims : d.bet = b => d # c /\ ~InFlight(d)
          BY <1>8, <3>2, <4>2, KindsDiffer
        <5>3. \A d \in Claims : d.bet = b =>
                pc[d] \notin {"saveBet", "updateBet"}
          BY <5>2 DEF InFlight
        <5> QED BY <1>1, <1>3, <1>5, <3>1, <3>2, <5>1, <5>3
                DEF Once, SInv, TypeOK
      <4> QED BY <4>1, <4>2
    <3>3. CASE c.bet # b
      BY <1>3, <3>1, <3>3 DEF Once, SInv, TypeOK
    <3> QED BY <3>2, <3>3
  <2>2. \A d \in Claims : d.bet \notin overlapped' => ClaimOnce(d)'
    <3> SUFFICES ASSUME NEW d \in Claims, d.bet \notin overlapped
                 PROVE  ClaimOnce(d)'
      BY DEF UpdateBet
    <3>1. d = c => pc'[d] = "done"
      BY <1>1 DEF UpdateBet, Leave, SInv, TypeOK
    <3>2. d # c => /\ ClaimOnce(d) /\ pc'[d] = pc[d] /\ paid' = paid
                   /\ bcopy'[d] = bcopy[d] /\ dirty'[d] = dirty[d]
                   /\ d.bet = c.bet => ~InFlight(d)
                   /\ d.bet # c.bet => bets'[d.bet] = bets[d.bet]
      BY <1>1, <1>3, <1>8, CallsTouch
      DEF UpdateBet, Leave, SInv, TypeOK, AloneOnce, Calls
    <3> QED BY <3>1, <3>2 DEF ClaimOnce, InFlight
  <2>3. \A d \in Settles : d.bet \notin overlapped' => SettleOnce(d)'
    <3> SUFFICES ASSUME NEW d \in Settles, d.bet \notin overlapped
                 PROVE  SettleOnce(d)'
      BY DEF UpdateBet
    <3>1. d = c => pc'[d] = "done"
      BY <1>1 DEF UpdateBet, Leave, SInv, TypeOK
    <3>2. d # c => /\ SettleOnce(d) /\ pc'[d] = pc[d]
                   /\ bcopy'[d] = bcopy[d] /\ dirty'[d] = dirty[d]
                   /\ d.bet = c.bet => ~InFlight(d)
                   /\ d.bet # c.bet => bets'[d.bet] = bets[d.bet]
      BY <1>1, <1>3, <1>8, CallsTouch
      DEF UpdateBet, Leave, SInv, TypeOK, AloneOnce, Calls
    <3> QED BY <3>1, <3>2 DEF SettleOnce, InFlight
  <2> QED BY <2>1, <2>2, <2>3 DEF AloneOnce
<1> QED BY <1>2, <1>6, <1>7, <1>9 DEF SInv

-----------------------------------------------------------------------------
LEMMA BetsInvariant == Spec => [](SInv /\ Apart /\ AloneOnce)
<1>1. SInv /\ Apart /\ AloneOnce /\ [Next]_vars
        => SInv' /\ Apart' /\ AloneOnce'
  <2> SUFFICES ASSUME SInv, Apart, AloneOnce, [Next]_vars
               PROVE  SInv' /\ Apart' /\ AloneOnce'
    OBVIOUS
  <2>1. ASSUME NEW b \in Bets, PlaceBet(b) \/ Insert(b)
        PROVE  SInv' /\ Apart' /\ AloneOnce'
    BY <2>1, PlaceBetKeeps, InsertKeeps
  <2>2. ASSUME NEW c \in Claims, ClaimWinnings(c) \/ ReadUser(c)
        PROVE  SInv' /\ Apart' /\ AloneOnce'
    BY <2>2, ClaimKeeps, ReadUserKeeps
  <2>3. ASSUME NEW c \in Settles, UpdateBetStatus(c)
        PROVE  SInv' /\ Apart' /\ AloneOnce'
    BY <2>3, SettleKeeps
  <2>4. ASSUME NEW c \in Bets \cup Claims, ReloadUser(c) \/ UpdateUser(c)
        PROVE  SInv' /\ Apart' /\ AloneOnce'
    BY <2>4, ReloadUserKeeps, StakeKeeps, PayoutKeeps
  <2>5. ASSUME NEW c \in Claims \cup Settles, ReloadBet(c) \/ UpdateBet(c)
        PROVE  SInv' /\ Apart' /\ AloneOnce'
    BY <2>5, ReloadBetKeeps, UpdateBetKeeps
  <2>6. ASSUME NEW c \in Calls, Refuse(c) \/ Cut(c)
        PROVE  SInv' /\ Apart' /\ AloneOnce'
    BY <2>6, RefuseKeeps, CutKeeps
  <2>7. CASE UNCHANGED vars
    BY <2>7, StutterKeeps
  <2> QED BY <2>1, <2>2, <2>3, <2>4, <2>5, <2>6, <2>7 DEF Next
<1> QED BY InitSInv, <1>1, PTL DEF Spec

\* Every balance, row and copy keeps its type; no balance goes below zero.
THEOREM TypeCorrect == Spec => []TypeOK
<1>1. SInv => TypeOK
  BY DEF SInv
<1> QED BY <1>1, BetsInvariant, PTL

\* However calls are cut off and meet: no bet without its stake, and no mark of a
\* payout without the payout.
THEOREM StakeAndPayoutFirst == Spec => []MoneyFirst
<1>1. SInv => MoneyFirst
  BY DEF SInv, StakeFirst, PaidFirst, MoneyFirst
<1> QED BY <1>1, BetsInvariant, PTL

\* A bet that no two calls worked on at once, and none was cut off over, is paid
\* at most once, however often it is settled and claimed.
THEOREM PaidOnceAlone == Spec => []PaidAgainNeedsOverlap
<1>1. AloneOnce => PaidAgainNeedsOverlap
  BY DEF AloneOnce, Once, PaidAgainNeedsOverlap
<1> QED BY <1>1, BetsInvariant, PTL

-----------------------------------------------------------------------------
(* The books                                                               *)

AtSave(c) == pc[c] \in {"saveUser", "updateUser"}

\* What the call is about to write into its user's row.
Meant(c) == IF c \in Bets THEN [row[c.user] EXCEPT ![c.balance] = @ - c.amount]
            ELSE [row[c.user] EXCEPT ![c.bet.balance] = @ + c.bet.payout]

Fits(c) == /\ copy[c] = Meant(c)
           /\ pc[c] = "updateUser" =>
                dirty[c] = {t \in BalanceTypes : copy[c][t] # row[c.user][t]}

\* Between read and save the row of a user with one call stays as it was read.
CopiesFit ==
  \A c \in Bets \cup Claims : AtSave(c) /\ c.user \notin overlapped => Fits(c)

\* A stake is taken once and a payout is of a bet whose stake was taken.
StakesFirst ==
  /\ IsFiniteSet(staked)
  /\ \A b \in Bets : /\ paid[b] > 0 => b \in staked
                     /\ pc[b] = "new" \/ AtSave(b) => b \notin staked
  /\ \A c \in Claims : InFlight(c) => c.user = c.bet.user /\ c.bet \in staked

BooksInv == CopiesFit /\ StakesFirst /\ BooksBalance

Net == [b \in Bets |-> paid[b] * b.payout - b.amount]
Mine(u, t) == {b \in staked : b.user = u /\ b.balance = t}

LEMMA PayoutIsNat ==
  ASSUME NEW p \in Nat, NEW q \in Nat
  PROVE  p * q \in Nat /\ (p + 1) * q = p * q + q /\ 0 * q = 0
  OBVIOUS

LEMMA NetIsInt ==
  ASSUME TypeOK, NEW b \in Bets
  PROVE  /\ b.amount \in Nat /\ b.payout \in Nat /\ paid[b] \in Nat
         /\ paid[b] * b.payout - b.amount \in Int
<1>1. b.amount \in Nat /\ b.payout \in Nat /\ paid[b] \in Nat
  BY BetAssumption DEF TypeOK, BetType
<1>2. paid[b] * b.payout \in Nat
  BY <1>1, PayoutIsNat
<1> QED BY <1>1, <1>2

LEMMA BooksSum ==
  ASSUME TypeOK, StakesFirst, NEW u, NEW t
  PROVE  /\ Net \in [Bets -> Int] /\ Mine(u, t) \in SUBSET Bets
         /\ IsFiniteSet(Mine(u, t))
         /\ SumFunctionOnSet(Net, Mine(u, t)) \in Int
<1>1. Net \in [Bets -> Int]
  BY NetIsInt DEF Net
<1>2. Mine(u, t) \in SUBSET staked /\ Mine(u, t) \in SUBSET Bets
  BY DEF Mine, TypeOK
<1>3. IsFiniteSet(Mine(u, t))
  BY <1>2, FS_Subset DEF StakesFirst
<1> QED BY <1>1, <1>2, <1>3, SumType

LEMMA BooksAre ==
  BooksBalance <=>
    \A u \in Users \ overlapped, t \in BalanceTypes :
      row[u][t] = InitialBalance + SumFunctionOnSet(Net, Mine(u, t))
  BY DEF BooksBalance, Net, Mine

LEMMA InitBooks == Init => BooksInv
<1> SUFFICES ASSUME Init PROVE BooksInv
  OBVIOUS
<1>1. CopiesFit
  BY DEF Init, CopiesFit, AtSave, Calls
<1>2. StakesFirst
  BY FS_EmptySet DEF Init, StakesFirst, InFlight, AtSave, Calls
<1>3. TypeOK
  BY InitSInv DEF SInv
<1>4. ASSUME NEW u \in Users, NEW t \in BalanceTypes
      PROVE  row[u][t] = InitialBalance + SumFunctionOnSet(Net, Mine(u, t))
  <2>1. Mine(u, t) = {}
    BY DEF Init, Mine
  <2>2. Net \in [Bets -> Int]
    BY <1>2, <1>3, BooksSum
  <2>3. SumFunctionOnSet(Net, {}) = 0
    BY <2>2, SumEmpty
  <2>4. row[u][t] = InitialBalance /\ InitialBalance \in Nat
    BY BetAssumption DEF Init
  <2> QED BY <2>1, <2>3, <2>4
<1> QED BY <1>1, <1>2, <1>4, BooksAre DEF BooksInv

\* A step that takes no stake, pays nothing and moves no balance.
LEMMA QuietBooks ==
  ASSUME BooksInv, UNCHANGED <<row, staked, paid>>, overlapped \subseteq overlapped'
  PROVE  BooksBalance'
<1>1. Net' = Net /\ \A u, t : Mine(u, t)' = Mine(u, t)
  BY DEF Net, Mine
<1>2. (BooksBalance <=> \A u \in Users \ overlapped, t \in BalanceTypes :
         row[u][t] = InitialBalance + SumFunctionOnSet(Net, Mine(u, t)))'
  BY BooksAre, PTL
<1> QED BY <1>1, <1>2, BooksAre DEF BooksInv

\* Every step but a save of a user's row, by what it does to one call.
LEMMA OneCallBooks ==
  ASSUME SInv, BooksInv, UNCHANGED <<row, staked, paid>>,
         overlapped \subseteq overlapped', NEW c \in Calls,
         \A d \in Calls \ {c} : UNCHANGED <<pc[d], copy[d], dirty[d]>>,
         c \in Bets /\ (pc'[c] = "new" \/ AtSave(c)') => c \notin staked,
         c \in Claims /\ InFlight(c)' => c.user = c.bet.user /\ c.bet \in staked,
         c \in Bets \cup Claims /\ AtSave(c)' /\ c.user \notin overlapped' => Fits(c)'
  PROVE  BooksInv'
<1>1. BooksBalance'
  BY QuietBooks
<1>2. StakesFirst'
  BY KindsDiffer DEF BooksInv, StakesFirst, AtSave, InFlight, Calls
<1>3. CopiesFit'
  <2> SUFFICES ASSUME NEW d \in Bets \cup Claims, AtSave(d)', d.user \notin overlapped'
               PROVE  Fits(d)'
    BY DEF CopiesFit
  <2>1. CASE d = c
    BY <2>1
  <2>2. CASE d # c
    <3>1. pc'[d] = pc[d] /\ copy'[d] = copy[d] /\ dirty'[d] = dirty[d]
      BY <2>2 DEF Calls
    <3>2. Fits(d)
      BY <3>1 DEF BooksInv, CopiesFit, AtSave
    <3> QED BY <3>1, <3>2 DEF Fits, Meant
  <2> QED BY <2>1, <2>2
<1> QED BY <1>1, <1>2, <1>3 DEF BooksInv

LEMMA ReadBooks ==
  ASSUME SInv, Apart, BooksInv, NEW c \in Bets \cup Claims,
         \/ c \in Bets /\ PlaceBet(c)
         \/ c \in Claims /\ ReadUser(c)
  PROVE  BooksInv'
<1>1. c \in Calls /\ "saveUser" \in PCs /\ (c \in Bets <=> c \notin Claims)
  BY KindsDiffer DEF Calls, PCs
<1>2. TypeOK
  BY DEF SInv
<1>3. /\ UNCHANGED <<row, staked, paid, dirty>> /\ pc' = [pc EXCEPT ![c] = "saveUser"]
      /\ copy' = [copy EXCEPT ![c] = Meant(c)] /\ overlapped \subseteq overlapped'
  <2>1. CASE c \in Bets
    BY <1>1, <2>1, BeginMeets DEF PlaceBet, Begin, Meant, SInv
  <2>2. CASE c \in Claims
    BY <1>1, <2>2 DEF ReadUser, Goto, Meant
  <2> QED BY <2>1, <2>2
<1>4. pc'[c] = "saveUser" /\ copy'[c] = Meant(c) /\ Meant(c)' = Meant(c)
  BY <1>1, <1>2, <1>3 DEF TypeOK, Meant
<1>5. \A d \in Calls \ {c} : UNCHANGED <<pc[d], copy[d], dirty[d]>>
  BY <1>2, <1>3 DEF TypeOK
<1>6. c \in Bets => c \notin staked
  BY <1>1 DEF PlaceBet, BooksInv, StakesFirst
<1>7. c \in Claims => c.user = c.bet.user /\ c.bet \in staked
  BY <1>1 DEF ReadUser, BooksInv, StakesFirst, InFlight
<1>8. Fits(c)'
  BY <1>4 DEF Fits
<1> QED BY <1>1, <1>3, <1>5, <1>6, <1>7, <1>8, OneCallBooks

LEMMA ReloadBooks ==
  ASSUME SInv, BooksInv, NEW c \in Bets \cup Claims, ReloadUser(c)
  PROVE  BooksInv'
<1>1. c \in Calls /\ (c \in Bets <=> c \notin Claims) /\ pc[c] = "saveUser"
  BY KindsDiffer DEF Calls, ReloadUser
<1>2. TypeOK
  BY DEF SInv
<1>3. /\ UNCHANGED <<row, staked, paid, copy, overlapped>>
      /\ pc' = [pc EXCEPT ![c] = "updateUser"]
      /\ dirty' = [dirty EXCEPT ![c] =
                      {t \in BalanceTypes : copy[c][t] # row[c.user][t]}]
  BY DEF ReloadUser, Goto
<1>4. /\ pc'[c] = "updateUser" /\ Meant(c)' = Meant(c)
      /\ dirty'[c] = {t \in BalanceTypes : copy[c][t] # row[c.user][t]}
  BY <1>1, <1>2, <1>3 DEF TypeOK, Meant
<1>5. \A d \in Calls \ {c} : UNCHANGED <<pc[d], copy[d], dirty[d]>>
  BY <1>2, <1>3 DEF TypeOK
<1>6. c \in Bets => c \notin staked
  BY <1>1 DEF BooksInv, StakesFirst, AtSave
<1>7. c \in Claims => c.user = c.bet.user /\ c.bet \in staked
  BY <1>1 DEF BooksInv, StakesFirst, InFlight
<1>8. c.user \notin overlapped' => Fits(c)'
  <2> SUFFICES ASSUME c.user \notin overlapped PROVE Fits(c)'
    BY <1>3
  <2>1. copy[c] = Meant(c)
    BY <1>1 DEF BooksInv, CopiesFit, AtSave, Fits
  <2> QED BY <1>3, <1>4, <2>1 DEF Fits
<1> QED BY <1>1, <1>3, <1>5, <1>6, <1>7, <1>8, OneCallBooks

\* The other steps of a call: it is not on the way to a save of its user's row.
LEMMA OtherBooks ==
  ASSUME SInv, Apart, BooksInv, NEW c \in Calls,
         \/ c \in Bets /\ Insert(c)
         \/ c \in Claims /\ ClaimWinnings(c)
         \/ c \in Settles /\ UpdateBetStatus(c)
         \/ c \in Claims \cup Settles /\ (ReloadBet(c) \/ UpdateBet(c))
         \/ Refuse(c) \/ Cut(c)
  PROVE  BooksInv'
<1>1. TypeOK
  BY DEF SInv
<1>2. /\ UNCHANGED <<row, staked, paid>> /\ overlapped \subseteq overlapped'
      /\ pc'[c] \notin {"new", "saveUser", "updateUser"}
      /\ \A d \in Calls \ {c} : UNCHANGED <<pc[d], copy[d], dirty[d]>>
  <2>1. CASE c \in Bets /\ Insert(c)
    BY <1>1, <2>1 DEF Insert, Leave, TypeOK
  <2>2. CASE c \in Claims /\ ClaimWinnings(c)
    BY <1>1, <2>2 DEF ClaimWinnings, Begin, TypeOK
  <2>3. CASE c \in Settles /\ UpdateBetStatus(c)
    BY <1>1, <2>3 DEF UpdateBetStatus, Begin, TypeOK
  <2>4. CASE ReloadBet(c)
    BY <1>1, <2>4 DEF ReloadBet, Goto, TypeOK
  <2>5. CASE UpdateBet(c)
    BY <1>1, <2>5 DEF UpdateBet, Leave, TypeOK
  <2>6. CASE Refuse(c)
    BY <1>1, <2>6 DEF Refuse, Goto, TypeOK
  <2>7. CASE Cut(c)
    BY <1>1, <2>7 DEF Cut, Leave, TypeOK
  <2> QED BY <2>1, <2>2, <2>3, <2>4, <2>5, <2>6, <2>7
<1>3. ASSUME c \in Claims, InFlight(c)' PROVE c.user = c.bet.user /\ c.bet \in staked
  <2>1. CASE InFlight(c)
    BY <1>3, <2>1 DEF BooksInv, StakesFirst
  <2>2. CASE ~InFlight(c)
    <3>1. ClaimWinnings(c)
      <4>1. ~Refuse(c)
        BY <1>1, <1>3 DEF Refuse, Goto, InFlight, TypeOK
      <4>2. ~Cut(c) /\ ~ReloadBet(c) /\ ~UpdateBet(c)
        BY <2>2 DEF Cut, ReloadBet, UpdateBet, InFlight
      <4> QED BY <1>3, <4>1, <4>2, KindsDiffer
    <3>2. bets[c.bet] # None /\ c.user = c.bet.user /\ c.bet \in Bets
      BY <1>3, <3>1, CallsTouch DEF ClaimWinnings, Claimable, Calls
    <3> QED BY <3>2 DEF SInv, StakeFirst
  <2> QED BY <2>1, <2>2
<1>4. ~AtSave(c)' /\ pc'[c] # "new"
  BY <1>2 DEF AtSave
<1> QED BY <1>2, <1>3, <1>4, OneCallBooks

\* The save writes what the call meant into the row it read: nobody else was at it.
LEMMA SaveBooks ==
  ASSUME SInv, Apart, BooksInv, NEW c \in Bets \cup Claims, UpdateUser(c)
  PROVE  BooksInv'
<1>1. /\ c \in Calls /\ (c \in Bets <=> c \notin Claims) /\ c \notin Settles
      /\ pc[c] = "updateUser" /\ InFlight(c) /\ AtSave(c)
  BY KindsDiffer DEF Calls, UpdateUser, InFlight, AtSave
<1>2. TypeOK /\ StakesFirst
  BY DEF SInv, BooksInv
<1>3. /\ c.user \in Users
      /\ c \in Claims => c.bet \in Bets /\ c.bet \in staked /\ c.user = c.bet.user
  BY <1>1, <1>2, BetAssumption, CallsTouch DEF BetType, ClaimType, StakesFirst
<1>4. /\ row' = [row EXCEPT ![c.user] =
           [t \in BalanceTypes |-> IF t \in dirty[c] THEN copy[c][t] ELSE row[c.user][t]]]
      /\ UNCHANGED <<copy, dirty, overlapped>>
      /\ c \in Bets => /\ pc' = [pc EXCEPT ![c] = "insert"]
                       /\ staked' = staked \cup {c} /\ paid' = paid
      /\ c \in Claims => /\ pc' = [pc EXCEPT ![c] = "saveBet"]
                         /\ paid' = [paid EXCEPT ![c.bet] = @ + 1] /\ staked' = staked
  BY <1>1 DEF UpdateUser, Goto
<1>5. /\ pc'[c] \in {"insert", "saveBet"} /\ \A d \in Calls \ {c} : pc'[d] = pc[d]
      /\ \A u \in Users \ {c.user} : row'[u] = row[u]
      /\ row'[c.user] = [t \in BalanceTypes |->
                           IF t \in dirty[c] THEN copy[c][t] ELSE row[c.user][t]]
  BY <1>1, <1>2, <1>3, <1>4 DEF TypeOK
<1>6. ASSUME c.user \notin overlapped PROVE row'[c.user] = Meant(c)
  <2>1. Fits(c)
    BY <1>1, <1>6 DEF BooksInv, CopiesFit
  <2>2. \A t \in BalanceTypes : row'[c.user][t] = copy[c][t]
    BY <1>1, <1>5, <2>1 DEF Fits
  <2>3. copy[c] \in [BalanceTypes -> Nat]
    BY <1>1, <1>2 DEF TypeOK
  <2>4. row'[c.user] = copy[c]
    BY <1>5, <2>2, <2>3
  <2> QED BY <2>1, <2>4 DEF Fits
<1>7. CopiesFit'
  <2> SUFFICES ASSUME NEW d \in Bets \cup Claims, AtSave(d)', d.user \notin overlapped'
               PROVE  Fits(d)'
    BY DEF CopiesFit
  <2>1. d # c /\ d \in Calls /\ d \notin Settles /\ d.user \in Users
    BY <1>5, KindsDiffer, BetAssumption DEF AtSave, Calls, BetType, ClaimType
  <2>2. pc'[d] = pc[d] /\ AtSave(d) /\ InFlight(d)
    BY <1>5, <2>1 DEF AtSave, InFlight
  <2>3. d.user # c.user
    BY <1>1, <1>4, <2>1, <2>2 DEF Apart, Touches
  <2>4. row'[d.user] = row[d.user]
    BY <1>5, <2>1, <2>3
  <2>5. Fits(d)
    BY <1>4, <2>2 DEF BooksInv, CopiesFit
  <2> QED BY <1>4, <2>2, <2>4, <2>5 DEF Fits, Meant
<1>8. StakesFirst'
  <2>1. IsFiniteSet(staked')
    <3>1. IsFiniteSet(staked) /\ IsFiniteSet(staked \cup {c})
      BY <1>2, FS_AddElement DEF StakesFirst
    <3> QED BY <1>1, <1>4, <3>1
  <2>2. ASSUME NEW b \in Bets
        PROVE  /\ paid'[b] > 0 => b \in staked'
               /\ pc'[b] = "new" \/ AtSave(b)' => b \notin staked'
    <3>1. CASE c \in Bets
      BY <1>1, <1>2, <1>4, <1>5, <3>1 DEF StakesFirst, AtSave, Calls
    <3>2. CASE c \in Claims
      <4>1. b # c /\ b \in Calls /\ pc'[b] = pc[b] /\ staked' = staked
        BY <1>1, <1>4, <1>5, <3>2 DEF Calls
      <4>2. b # c.bet => paid'[b] = paid[b]
        BY <1>2, <1>4, <3>2 DEF TypeOK
      <4> QED BY <1>2, <1>3, <3>2, <4>1, <4>2 DEF StakesFirst, AtSave
    <3> QED BY <3>1, <3>2
  <2>3. ASSUME NEW d \in Claims, InFlight(d)' PROVE d.user = d.bet.user /\ d.bet \in staked'
    <3>1. InFlight(d)
      BY <1>1, <1>5, <2>3 DEF InFlight, Calls
    <3> QED BY <1>2, <1>4, <3>1 DEF StakesFirst
  <2> QED BY <2>1, <2>2, <2>3 DEF StakesFirst

<1>9. ASSUME NEW u \in Users \ overlapped, NEW t \in BalanceTypes
      PROVE  row'[u][t] = InitialBalance + SumFunctionOnSet(Net', Mine(u, t)')
  <2>1. /\ row[u][t] = InitialBalance + SumFunctionOnSet(Net, Mine(u, t))
        /\ row \in [Users -> [BalanceTypes -> Nat]] /\ InitialBalance \in Nat
    BY <1>2, BooksAre, BetAssumption DEF BooksInv, TypeOK
  <2>2. /\ Net \in [Bets -> Int] /\ Mine(u, t) \in SUBSET Bets
        /\ IsFiniteSet(Mine(u, t)) /\ SumFunctionOnSet(Net, Mine(u, t)) \in Int
    BY <1>2, BooksSum
  <2>3. CASE c \in Bets
    <3>1. /\ c \notin staked /\ paid[c] = 0 /\ c.balance \in BalanceTypes
          /\ c.amount \in Nat /\ c.payout \in Nat
      BY <1>1, <1>2, <2>3, BetAssumption DEF StakesFirst, TypeOK, BetType
    <3>2. Net[c] = -c.amount
      <4>1. paid[c] * c.payout = 0
        BY <3>1, PayoutIsNat
      <4> QED BY <2>3, <3>1, <4>1 DEF Net
    <3>3. Net' = Net
      BY <1>4, <2>3 DEF Net
    <3>4. CASE c.user = u /\ c.balance = t
      <4>1. Mine(u, t)' = Mine(u, t) \cup {c} /\ c \notin Mine(u, t)
        BY <1>4, <2>3, <3>1, <3>4 DEF Mine
      <4>2. row'[u][t] = row[u][t] - c.amount
        BY <1>6, <2>1, <2>3, <3>1, <3>4 DEF Meant
      <4>3. SumFunctionOnSet(Net, Mine(u, t) \cup {c})
              = SumFunctionOnSet(Net, Mine(u, t)) + Net[c]
        BY <2>2, <2>3, <4>1, SumAdd
      <4> QED BY <2>1, <2>2, <3>1, <3>2, <3>3, <4>1, <4>2, <4>3
    <3>5. CASE ~(c.user = u /\ c.balance = t)
      <4>1. Mine(u, t)' = Mine(u, t)
        BY <1>4, <2>3, <3>5 DEF Mine
      <4>2. row'[u][t] = row[u][t]
        BY <1>3, <1>5, <1>6, <2>1, <2>3, <3>1, <3>5 DEF Meant
      <4> QED BY <2>1, <3>3, <4>1, <4>2
    <3> QED BY <3>4, <3>5
  <2>4. CASE c \in Claims
    <3> PICK b : b = c.bet
      OBVIOUS
    <3>1. /\ b \in Bets /\ b \in staked /\ b.user = c.user /\ b.balance \in BalanceTypes
          /\ b.amount \in Nat /\ b.payout \in Nat /\ paid[b] \in Nat
      BY <1>2, <1>3, <2>4, BetAssumption DEF TypeOK, BetType
    <3>2. Mine(u, t)' = Mine(u, t)
      BY <1>4, <2>4 DEF Mine
    <3>3. /\ Net'[b] = Net[b] + b.payout /\ Net' \in [Bets -> Int]
          /\ \A a \in Bets \ {b} : Net'[a] = Net[a]
      <4>1. /\ paid'[b] = paid[b] + 1 /\ \A a \in Bets \ {b} : paid'[a] = paid[a]
            /\ paid' \in [Bets -> Nat]
        BY <1>2, <1>4, <2>4, <3>1 DEF TypeOK
      <4>2. (paid[b] + 1) * b.payout = paid[b] * b.payout + b.payout
            /\ paid[b] * b.payout \in Nat
        BY <3>1, PayoutIsNat
      <4>3. Net'[b] = paid'[b] * b.payout - b.amount /\ Net[b] = paid[b] * b.payout - b.amount
        BY <3>1 DEF Net
      <4> PICK p : p = paid[b] * b.payout
        OBVIOUS
      <4>4. Net'[b] = (p + b.payout) - b.amount /\ Net[b] = p - b.amount /\ p \in Nat
        BY <4>1, <4>2, <4>3
      <4>5. Net'[b] = Net[b] + b.payout
        BY <3>1, <4>4
      <4>6. \A a \in Bets \ {b} : Net'[a] = Net[a]
        BY <4>1 DEF Net
      <4>7. Net' \in [Bets -> Int]
        <5>1. Net' = [a \in Bets |-> Net'[a]]
          BY DEF Net
        <5>2. Net[b] \in Int /\ Net'[b] \in Int
          BY <2>2, <3>1, <4>5
        <5>3. \A a \in Bets : Net'[a] \in Int
          BY <2>2, <4>6, <5>2
        <5> QED BY <5>1, <5>3
      <4> QED BY <4>5, <4>6, <4>7
    <3>4. CASE b.user = u /\ b.balance = t
      <4>1. b \in Mine(u, t)
        BY <3>1, <3>4 DEF Mine
      <4>2. row'[u][t] = row[u][t] + b.payout
        BY <1>1, <1>6, <2>1, <2>4, <3>1, <3>4 DEF Meant
      <4> PICK h : h = Net'
        OBVIOUS
      <4> PICK S : S = Mine(u, t)
        OBVIOUS
      <4>3. SumFunctionOnSet(h, S) = SumFunctionOnSet(Net, S) + (h[b] - Net[b])
        BY <2>2, <3>1, <3>3, <4>1, SumChange
      <4>4. Net[b] \in Int /\ h[b] = Net[b] + b.payout /\ row[u][t] \in Int
        BY <2>1, <2>2, <3>1, <3>3
      <4>5. SumFunctionOnSet(h, S) = SumFunctionOnSet(Net, S) + b.payout
        BY <3>1, <4>3, <4>4
      <4>6. row'[u][t] = InitialBalance + SumFunctionOnSet(h, S)
        BY <2>1, <2>2, <3>1, <4>2, <4>5
      <4> QED BY <3>2, <4>6
    <3>5. CASE ~(b.user = u /\ b.balance = t)
      <4>1. b \notin Mine(u, t)
        BY <3>5 DEF Mine
      <4>2. row'[u][t] = row[u][t]
        BY <1>1, <1>3, <1>5, <1>6, <2>1, <2>4, <3>1, <3>5 DEF Meant
      <4> PICK h : h = Net'
        OBVIOUS
      <4> PICK S : S = Mine(u, t)
        OBVIOUS
      <4>3. SumFunctionOnSet(h, S) = SumFunctionOnSet(Net, S)
        <5>1. \A x \in S : Net[x] = h[x]
          BY <2>2, <3>3, <4>1
        <5> QED BY <2>2, <3>3, <5>1, SumSame
      <4> QED BY <2>1, <3>2, <4>2, <4>3
    <3> QED BY <3>4, <3>5
  <2> QED BY <2>3, <2>4
<1>10. (BooksBalance <=> \A u \in Users \ overlapped, t \in BalanceTypes :
          row[u][t] = InitialBalance + SumFunctionOnSet(Net, Mine(u, t)))'
  BY BooksAre, PTL
<1>11. BooksBalance'
  BY <1>4, <1>9, <1>10
<1> QED BY <1>7, <1>8, <1>11 DEF BooksInv

LEMMA BooksStay ==
  SInv /\ Apart /\ BooksInv /\ [Next]_vars => BooksInv'
<1> SUFFICES ASSUME SInv, Apart, BooksInv, [Next]_vars PROVE BooksInv'
  OBVIOUS
<1>1. ASSUME NEW b \in Bets, PlaceBet(b) \/ Insert(b) PROVE BooksInv'
  BY <1>1, ReadBooks, OtherBooks DEF Calls
<1>2. ASSUME NEW c \in Claims, ClaimWinnings(c) \/ ReadUser(c) PROVE BooksInv'
  BY <1>2, ReadBooks, OtherBooks DEF Calls
<1>3. ASSUME NEW c \in Settles, UpdateBetStatus(c) PROVE BooksInv'
  BY <1>3, OtherBooks DEF Calls
<1>4. ASSUME NEW c \in Bets \cup Claims, ReloadUser(c) \/ UpdateUser(c) PROVE BooksInv'
  BY <1>4, ReloadBooks, SaveBooks
<1>5. ASSUME NEW c \in Claims \cup Settles, ReloadBet(c) \/ UpdateBet(c) PROVE BooksInv'
  BY <1>5, OtherBooks DEF Calls
<1>6. ASSUME NEW c \in Calls, Refuse(c) \/ Cut(c) PROVE BooksInv'
  BY <1>6, OtherBooks
<1>7. CASE UNCHANGED vars
  <2>1. BooksBalance'
    BY <1>7, QuietBooks DEF vars
  <2>2. StakesFirst' /\ CopiesFit'
    BY <1>7 DEF vars, BooksInv, StakesFirst, CopiesFit, AtSave, InFlight, Fits, Meant
  <2> QED BY <2>1, <2>2 DEF BooksInv
<1> QED BY <1>1, <1>2, <1>3, <1>4, <1>5, <1>6, <1>7 DEF Next

\* A user none of whose calls overlapped or was cut off has what the stakes and the
\* payouts leave of the start balance, for any bets, claims and settlements.
THEOREM BooksAlwaysBalance == Spec => []BooksBalance
<1>1. BooksInv => BooksBalance
  BY DEF BooksInv
<1>2. Init => BooksInv
  BY InitBooks
<1> QED BY <1>1, <1>2, BooksStay, BetsInvariant, PTL DEF Spec

-----------------------------------------------------------------------------
(* The markets a browser shows                                             *)

Known == Markets \cup {NoMarkets}

FetchType == [step: {"idle", "sent", "answered", "returned"},
              query: Queries \cup {Idle.query}, hash: Known, prev: Known,
              answer: Known \cup {NoChange}, current: Known, crossed: BOOLEAN]

MarketTyped ==
  /\ version \in 0 .. MaxVersion
  /\ cachedData \in Known /\ cachedHash \in Known
  /\ store \in [Browsers -> [markets: Known, hash: Known]]
  /\ fetch \in [Slots -> FetchType]

\* A request that nothing crossed carries the hash of the list in the cache, and is
\* answered with what the API has.
AsksAboutCache ==
  /\ cachedData = cachedHash
  /\ \A s \in Slots :
       /\ fetch[s].step = "sent" => fetch[s].query \in Queries
       /\ fetch[s].step \in {"sent", "answered"} /\ s \notin mixed
            => fetch[s].hash = cachedHash
       /\ fetch[s].step = "answered"
            => fetch[s].current = IF fetch[s].answer = NoChange THEN fetch[s].hash
                                  ELSE fetch[s].answer
       /\ fetch[s].step = "returned" => fetch[s].answer \in Known

\* A request that no other answer crossed holds the list its browser shows.
HoldsList ==
  \A s \in Slots : fetch[s].step # "idle"
                     => fetch[s].crossed \/ fetch[s].prev = store[s[1]].markets

MarketInv == MarketTyped /\ AsksAboutCache /\ HoldsList /\ AnswersFit

LEMMA IdleIs == Idle \in FetchType /\ Idle.step = "idle" /\ Idle.crossed = FALSE
  BY DEF Idle, FetchType, Known

LEMMA SlotIs ==
  ASSUME NEW s \in Slots
  PROVE  s[1] \in Browsers /\ s[2] \in Fetches /\ s = <<s[1], s[2]>>
  BY DEF Slots

LEMMA InitMarkets == MarketInit => MarketInv
<1> SUFFICES ASSUME MarketInit PROVE MarketInv
  OBVIOUS
<1>1. \A s \in Slots : fetch[s] = Idle
  BY DEF MarketInit
<1>2. MarketTyped
  BY IdleIs, MarketAssumption DEF MarketInit, MarketTyped, Known
<1>3. AsksAboutCache /\ HoldsList
  BY <1>1, IdleIs DEF MarketInit, AsksAboutCache, HoldsList
<1>4. AnswersFit
  BY <1>1, IdleIs DEF MarketInit, AnswersFit, ReturnsWhatApiHad, HashFitsList
<1> QED BY <1>2, <1>3, <1>4 DEF MarketInv

\* A step of one request that changes neither the cache nor what a browser shows.
LEMMA OneRequest ==
  ASSUME MarketInv, NEW s \in Slots, version' \in 0 .. MaxVersion,
         UNCHANGED <<cachedData, cachedHash, store, undone>>,
         NEW r \in FetchType, fetch' = [fetch EXCEPT ![s] = r],
         \A t \in Slots \ {s} : t \in mixed' <=> t \in mixed,
         r.step = "sent" => r.query \in Queries,
         r.step \in {"sent", "answered"} /\ s \notin mixed' => r.hash = cachedHash,
         r.step = "answered" => r.current = IF r.answer = NoChange THEN r.hash ELSE r.answer,
         r.step # "idle" => r.crossed \/ r.prev = store[s[1]].markets,
         r.step = "returned" => s \in mixed' \/ r.answer = r.current,
         r.step = "returned" => r.answer \in Known
  PROVE  MarketInv'
<1>1. fetch'[s] = r /\ \A t \in Slots \ {s} : fetch'[t] = fetch[t]
  BY DEF MarketInv, MarketTyped
<1>2. MarketTyped'
  BY DEF MarketInv, MarketTyped
<1>3. AsksAboutCache'
  BY <1>1 DEF MarketInv, AsksAboutCache
<1>4. HoldsList'
  BY <1>1, Zenon DEF MarketInv, HoldsList
<1>5. AnswersFit'
  BY <1>1, Zenon DEF MarketInv, AnswersFit, ReturnsWhatApiHad, HashFitsList
<1> QED BY <1>2, <1>3, <1>4, <1>5 DEF MarketInv

LEMMA ChangeKeeps ==
  ASSUME MarketInv, MarketsChange \/ UNCHANGED marketVars
  PROVE  MarketInv'
<1>1. /\ UNCHANGED <<cachedData, cachedHash, store, fetch, mixed, undone>>
      /\ version' \in 0 .. MaxVersion
  BY MarketAssumption DEF MarketsChange, marketVars, MarketInv, MarketTyped
<1> QED BY <1>1, Zenon DEF MarketInv, MarketTyped, AsksAboutCache, HoldsList, AnswersFit,
                           ReturnsWhatApiHad, HashFitsList

LEMMA SendKeeps ==
  ASSUME MarketInv, NEW b \in Browsers, NEW f \in Fetches, NEW q \in Queries,
         SendFetch(b, f, q)
  PROVE  MarketInv'
<1>s. <<b, f>> \in Slots /\ <<b, f>>[1] = b
  BY DEF Slots
<1> PICK s \in Slots : s = <<b, f>> /\ s[1] = b
  BY <1>s
<1> DEFINE own == store[b].hash
           r == [Idle EXCEPT !.step = "sent", !.query = q,
                   !.hash = IF own # NoMarkets THEN own ELSE cachedHash,
                   !.prev = store[b].markets]
<1>0. own \in Known /\ store[b].markets \in Known /\ cachedHash \in Known
      /\ fetch \in [Slots -> FetchType] /\ version \in 0 .. MaxVersion
  BY DEF MarketInv, MarketTyped
<1>1. /\ fetch[s] = Idle
      /\ mixed' = IF own \in {NoMarkets, cachedHash} THEN mixed \ {s} ELSE mixed \cup {s}
      /\ UNCHANGED <<version, cachedData, cachedHash, store, undone>>
  BY DEF SendFetch
<1>2. fetch' = [fetch EXCEPT ![s] = r]
  BY <1>0, <1>1 DEF SendFetch
<1>3. /\ r \in FetchType /\ r.step = "sent" /\ r.query = q /\ r.prev = store[b].markets
      /\ r.hash = IF own # NoMarkets THEN own ELSE cachedHash
  BY <1>0, IdleIs DEF FetchType
<1> HIDE DEF r
<1>4. s \notin mixed' => r.hash = cachedHash
  BY <1>1, <1>3
<1>5. \A t \in Slots \ {s} : t \in mixed' <=> t \in mixed
  BY <1>1
<1> QED BY <1>0, <1>1, <1>2, <1>3, <1>4, <1>5, OneRequest

LEMMA ApiKeeps ==
  ASSUME MarketInv, NEW s \in Slots, ApiAnswers(s)
  PROVE  MarketInv'
<1> DEFINE m == [query |-> fetch[s].query, version |-> version]
           r == [fetch[s] EXCEPT !.step = "answered", !.current = m,
                   !.answer = IF fetch[s].hash = m THEN NoChange ELSE m]
<1>0. fetch[s] \in FetchType /\ fetch \in [Slots -> FetchType] /\ version \in 0 .. MaxVersion
  BY DEF MarketInv, MarketTyped
<1>1. fetch[s].step = "sent" /\ fetch[s].query \in Queries
  BY DEF ApiAnswers, MarketInv, AsksAboutCache
<1>2. m \in Markets /\ m # NoChange
  BY <1>0, <1>1, MarketAssumption DEF Markets
<1>3. fetch' = [fetch EXCEPT ![s] = r]
  BY <1>0 DEF ApiAnswers
<1>4. UNCHANGED <<version, cachedData, cachedHash, store, mixed, undone>>
  BY DEF ApiAnswers
<1> HIDE DEF m
<1>5. /\ r \in FetchType /\ r.step = "answered" /\ r.hash = fetch[s].hash
      /\ r.prev = fetch[s].prev /\ r.crossed = fetch[s].crossed /\ r.current = m
      /\ r.answer = IF fetch[s].hash = m THEN NoChange ELSE m
  BY <1>0, <1>2 DEF FetchType, Known
<1> HIDE DEF r
<1>6. r.current = IF r.answer = NoChange THEN r.hash ELSE r.answer
  BY <1>2, <1>5
<1>7. s \notin mixed' => r.hash = cachedHash
  BY <1>1, <1>4, <1>5 DEF MarketInv, AsksAboutCache
<1>8. r.crossed \/ r.prev = store[s[1]].markets
  BY <1>1, <1>5, Zenon DEF MarketInv, HoldsList
<1> QED BY <1>0, <1>3, <1>4, <1>5, <1>6, <1>7, <1>8, OneRequest

LEMMA FailMarketKeeps ==
  ASSUME MarketInv, NEW s \in Slots, MarketsFail(s)
  PROVE  MarketInv'
<1>1. /\ UNCHANGED <<version, cachedData, cachedHash, store, mixed, undone>>
      /\ fetch' = [fetch EXCEPT ![s] = Idle]
  BY DEF MarketsFail
<1>2. version \in 0 .. MaxVersion
  BY DEF MarketInv, MarketTyped
<1> QED BY <1>1, <1>2, IdleIs, OneRequest

\* A new answer replaces the cache, and crosses every request under way.
LEMMA ReceiveKeeps ==
  ASSUME MarketInv, NEW s \in Slots, Receive(s)
  PROVE  MarketInv'
<1>0. /\ fetch[s] \in FetchType /\ fetch \in [Slots -> FetchType] /\ fetch[s].step = "answered"
      /\ cachedData \in Known /\ cachedData = cachedHash /\ version \in 0 .. MaxVersion
      /\ fetch[s].current = IF fetch[s].answer = NoChange THEN fetch[s].hash
                            ELSE fetch[s].answer
      /\ s \notin mixed => fetch[s].hash = cachedHash
  BY DEF MarketInv, MarketTyped, AsksAboutCache, Receive
<1>1. fetch[s].crossed \/ fetch[s].prev = store[s[1]].markets
  BY <1>0, Zenon DEF MarketInv, HoldsList
<1>2. CASE fetch[s].answer = NoChange
  <2> DEFINE r == [fetch[s] EXCEPT !.step = "returned", !.answer = cachedData]
  <2>1. /\ fetch' = [fetch EXCEPT ![s] = r]
        /\ UNCHANGED <<version, cachedData, cachedHash, store, mixed, undone>>
    BY <1>0, <1>2 DEF Receive
  <2>2. /\ r \in FetchType /\ r.step = "returned" /\ r.answer = cachedData
        /\ r.prev = fetch[s].prev /\ r.crossed = fetch[s].crossed
        /\ r.current = fetch[s].current
    BY <1>0 DEF FetchType
  <2> HIDE DEF r
  <2>3. s \in mixed' \/ r.answer = r.current
    BY <1>0, <1>2, <2>1, <2>2
  <2>4. r.crossed \/ r.prev = store[s[1]].markets
    BY <1>1, <2>2, Zenon
  <2> QED BY <1>0, <2>1, <2>2, <2>3, <2>4, OneRequest
<1>3. CASE fetch[s].answer # NoChange
  <2> DEFINE r == [fetch[s] EXCEPT !.step = "returned"]
  <2>1. /\ fetch' = [fetch EXCEPT ![s] = r]
        /\ cachedData' = fetch[s].answer /\ cachedHash' = fetch[s].answer
        /\ mixed' = mixed \cup {t \in Slots \ {s} : fetch[t].step \in {"sent", "answered"}}
        /\ UNCHANGED <<version, store, undone>>
    BY <1>0, <1>3 DEF Receive, NewHash
  <2>2. /\ r \in FetchType /\ r.step = "returned" /\ r.answer = fetch[s].answer
        /\ r.prev = fetch[s].prev /\ r.crossed = fetch[s].crossed
        /\ r.current = fetch[s].current
    BY <1>0 DEF FetchType
  <2> HIDE DEF r
  <2>3. fetch'[s] = r /\ \A t \in Slots \ {s} : fetch'[t] = fetch[t]
    BY <1>0, <2>1
  <2>4. MarketTyped'
    BY <1>0, <1>3, <2>1, <2>2 DEF MarketInv, MarketTyped, FetchType
  <2>5. AsksAboutCache'
    <3>1. r.answer \in Known
      BY <1>0, <1>3, <2>2 DEF FetchType
    <3>2. \A t \in Slots \ {s} :
             fetch[t].step \in {"sent", "answered"} => t \in mixed'
      BY <2>1
    <3>3. cachedData' = cachedHash'
      BY <2>1
    <3> SUFFICES ASSUME NEW t \in Slots
                 PROVE  /\ fetch'[t].step = "sent" => fetch'[t].query \in Queries
                        /\ fetch'[t].step \in {"sent", "answered"} /\ t \notin mixed'
                             => fetch'[t].hash = cachedHash'
                        /\ fetch'[t].step = "answered"
                             => fetch'[t].current = IF fetch'[t].answer = NoChange
                                                    THEN fetch'[t].hash ELSE fetch'[t].answer
                        /\ fetch'[t].step = "returned" => fetch'[t].answer \in Known
      BY <3>3 DEF AsksAboutCache, Known, Markets
    <3>4. CASE t = s
      BY <2>2, <2>3, <3>1, <3>4
    <3>5. CASE t # s
      BY <2>3, <3>2, <3>5 DEF MarketInv, AsksAboutCache
    <3> QED BY <3>4, <3>5
  <2>6. HoldsList'
    BY <1>1, <2>1, <2>2, <2>3, Zenon DEF MarketInv, HoldsList
  <2>7. ReturnsWhatApiHad'
    BY <1>0, <1>3, <2>1, <2>2, <2>3 DEF MarketInv, AnswersFit, ReturnsWhatApiHad
  <2>8. HashFitsList'
    BY <2>1 DEF MarketInv, AnswersFit, HashFitsList
  <2> QED BY <2>4, <2>5, <2>6, <2>7, <2>8 DEF MarketInv, AnswersFit
<1> QED BY <1>2, <1>3

\* The list a browser shows changes: its other requests are crossed by that.
LEMMA ShowKeeps ==
  ASSUME MarketInv, NEW b \in Browsers, NEW f \in Fetches, Show(b, f)
  PROVE  MarketInv'
<1>s. <<b, f>> \in Slots /\ <<b, f>>[1] = b
  BY DEF Slots
<1> PICK s \in Slots : s = <<b, f>> /\ s[1] = b
  BY <1>s
<1> DEFINE m == fetch[s].answer
<1>0. /\ fetch[s] \in FetchType /\ fetch \in [Slots -> FetchType] /\ fetch[s].step = "returned"
      /\ store \in [Browsers -> [markets: Known, hash: Known]]
  BY DEF MarketInv, MarketTyped, Show
<1> DEFINE keep == m = NoMarkets \/ (m # NoMarkets /\ m.query \in Empty)
<1>1. /\ store' = [store EXCEPT ![b] = IF keep THEN [store[b] EXCEPT !.markets = fetch[s].prev]
                                       ELSE [markets |-> m, hash |-> m]]
      /\ undone' = IF ~keep THEN undone \ {b}
                   ELSE IF fetch[s].crossed THEN undone \cup {b} ELSE undone
  BY Zenon DEF Show, Reused
<1>2. /\ fetch' = [t \in Slots |->
            IF t = s THEN Idle
            ELSE IF t[1] = b /\ fetch[t].step # "idle" /\ store'[b] # store[b]
            THEN [fetch[t] EXCEPT !.crossed = TRUE] ELSE fetch[t]]
      /\ UNCHANGED <<version, cachedData, cachedHash, mixed>>
  BY DEF Show
<1> HIDE DEF keep
<1>3. fetch'[s] = Idle /\ Idle \in FetchType /\ Idle.step = "idle"
  BY <1>2, IdleIs
<1>4. \A t \in Slots \ {s} :
        /\ fetch'[t].step = fetch[t].step /\ fetch'[t].query = fetch[t].query
        /\ fetch'[t].hash = fetch[t].hash /\ fetch'[t].prev = fetch[t].prev
        /\ fetch'[t].answer = fetch[t].answer /\ fetch'[t].current = fetch[t].current
        /\ fetch'[t] \in FetchType
  <2> SUFFICES ASSUME NEW t \in Slots \ {s}
               PROVE  /\ fetch'[t].step = fetch[t].step /\ fetch'[t].query = fetch[t].query
                      /\ fetch'[t].hash = fetch[t].hash /\ fetch'[t].prev = fetch[t].prev
                      /\ fetch'[t].answer = fetch[t].answer
                      /\ fetch'[t].current = fetch[t].current
                      /\ fetch'[t] \in FetchType
    OBVIOUS
  <2>1. fetch[t] \in FetchType
    BY <1>0
  <2>2. fetch'[t] = fetch[t] \/ fetch'[t] = [fetch[t] EXCEPT !.crossed = TRUE]
    BY <1>2
  <2> QED BY <2>1, <2>2 DEF FetchType
<1>5. \A t \in Slots \ {s} : fetch'[t] = fetch[t]
         \/ (t[1] = b /\ fetch[t].step # "idle" /\ store'[b] # store[b] /\ fetch'[t].crossed)
  <2> SUFFICES ASSUME NEW t \in Slots \ {s}, fetch'[t] # fetch[t]
               PROVE  t[1] = b /\ fetch[t].step # "idle" /\ store'[b] # store[b]
                      /\ fetch'[t].crossed
    OBVIOUS
  <2>1. fetch[t] \in FetchType
    BY <1>0
  <2>2. /\ fetch'[t] = [fetch[t] EXCEPT !.crossed = TRUE]
        /\ t[1] = b /\ fetch[t].step # "idle" /\ store'[b] # store[b]
    BY <1>2
  <2>3. fetch'[t].crossed = TRUE
    BY <2>1, <2>2 DEF FetchType
  <2> QED BY <2>2, <2>3
<1>6. \A c \in Browsers \ {b} : store'[c] = store[c] /\ (c \in undone' <=> c \in undone)
  BY <1>0, <1>1
<1>7. fetch[s].prev \in Known /\ (~keep => m \in Known)
  <2>1. fetch[s].prev \in Known
    BY <1>0 DEF FetchType
  <2>2. m \in Known
    BY <1>0, Zenon DEF MarketInv, AsksAboutCache
  <2> QED BY <2>1, <2>2
<1>8. MarketTyped'
  <2>1. store' \in [Browsers -> [markets: Known, hash: Known]]
    BY <1>0, <1>1, <1>7
  <2>2. fetch' \in [Slots -> FetchType]
    BY <1>2, <1>3, <1>4
  <2> QED BY <1>2, <2>1, <2>2 DEF MarketInv, MarketTyped
<1>9. AsksAboutCache'
  <2>1. cachedData' = cachedHash'
    BY <1>2 DEF MarketInv, AsksAboutCache
  <2> SUFFICES ASSUME NEW t \in Slots
               PROVE  /\ fetch'[t].step = "sent" => fetch'[t].query \in Queries
                      /\ fetch'[t].step \in {"sent", "answered"} /\ t \notin mixed
                           => fetch'[t].hash = cachedHash
                      /\ fetch'[t].step = "answered"
                           => fetch'[t].current = IF fetch'[t].answer = NoChange
                                                  THEN fetch'[t].hash ELSE fetch'[t].answer
                      /\ fetch'[t].step = "returned" => fetch'[t].answer \in Known
    BY <1>2, <2>1 DEF AsksAboutCache, Known, Markets
  <2>2. CASE t = s
    BY <1>3, <2>2
  <2>3. CASE t # s
    BY <1>4, <2>3 DEF MarketInv, AsksAboutCache
  <2> QED BY <2>2, <2>3
<1>10. HoldsList'
  <2> SUFFICES ASSUME NEW t \in Slots, fetch'[t].step # "idle"
               PROVE  fetch'[t].crossed \/ fetch'[t].prev = store'[t[1]].markets
    BY DEF HoldsList
  <2>1. t # s /\ t[1] \in Browsers
    BY <1>3, SlotIs
  <2>2. CASE fetch'[t] = fetch[t] /\ store'[t[1]] = store[t[1]]
    BY <2>2, Zenon DEF MarketInv, HoldsList
  <2>3. CASE fetch'[t] = fetch[t] /\ store'[t[1]] # store[t[1]]
    <3>1. t[1] = b /\ fetch[t].step # "idle" /\ store'[b] # store[b]
      BY <1>6, <2>1, <2>3
    <3>2. fetch[t] = [fetch[t] EXCEPT !.crossed = TRUE]
      BY <1>2, <2>1, <2>3, <3>1
    <3>3. fetch[t] \in FetchType
      BY <1>0
    <3>4. fetch[t].crossed = TRUE
      BY <3>2, <3>3 DEF FetchType
    <3> QED BY <2>3, <3>4
  <2>4. CASE fetch'[t] # fetch[t]
    BY <1>5, <2>1, <2>4, Zenon
  <2> QED BY <2>2, <2>3, <2>4
<1>11. ReturnsWhatApiHad'
  <2> SUFFICES ASSUME NEW t \in Slots, fetch'[t].step = "returned"
               PROVE  t \in mixed' \/ fetch'[t].answer = fetch'[t].current
    BY DEF ReturnsWhatApiHad
  <2>1. t # s
    BY <1>3
  <2> QED BY <1>2, <1>4, <2>1 DEF MarketInv, AnswersFit, ReturnsWhatApiHad
<1>12. HashFitsList'
  <2> SUFFICES ASSUME NEW c \in Browsers
               PROVE  store'[c].markets = store'[c].hash \/ c \in undone'
    BY DEF HashFitsList
  <2>1. store[c].markets = store[c].hash \/ c \in undone
    BY DEF MarketInv, AnswersFit, HashFitsList
  <2>2. CASE c # b
    BY <1>6, <2>1, <2>2
  <2>3. CASE c = b /\ ~keep
    <3>1. store'[b] = [markets |-> m, hash |-> m]
      BY <1>0, <1>1, <2>3
    <3> QED BY <2>3, <3>1
  <2>4. CASE c = b /\ keep
    <3>1. fetch[s].crossed \/ fetch[s].prev = store[b].markets
      BY <1>0, Zenon DEF MarketInv, HoldsList
    <3>2. CASE fetch[s].crossed
      BY <1>1, <2>4, <3>2, Zenon
    <3>3. CASE ~fetch[s].crossed
      <4>1. fetch[s].prev = store[b].markets
        BY <3>1, <3>3, Zenon
      <4>2. store'[b] = [store[b] EXCEPT !.markets = fetch[s].prev]
        BY <1>0, <1>1, <2>4
      <4>3. store'[b].markets = store[b].markets /\ store'[b].hash = store[b].hash
        BY <1>0, <4>1, <4>2
      <4>4. undone' = undone
        BY <1>1, <2>4, <3>3, Zenon
      <4> QED BY <2>1, <2>4, <4>3, <4>4
    <3> QED BY <3>2, <3>3
  <2> QED BY <2>2, <2>3, <2>4
<1> QED BY <1>8, <1>9, <1>10, <1>11, <1>12 DEF MarketInv, AnswersFit

LEMMA MarketStays == MarketSpec => []MarketInv
<1>1. MarketInv /\ [MarketNext]_marketVars => MarketInv'
  BY ChangeKeeps, SendKeeps, ApiKeeps, FailMarketKeeps, ReceiveKeeps, ShowKeeps
     DEF MarketNext
<1> QED BY InitMarkets, <1>1, PTL DEF MarketSpec

\* What the service returns, and the hash a browser sends, are of one list the API
\* had, however the requests of the browsers cross; the exceptions are the
\* requests another answer crosses in the service's cache (sports.service.ts) and
\* the lists an empty answer sets back (MarketsStore.ts).
THEOREM AnswersAlwaysFit == MarketSpec => []AnswersFit
<1>1. MarketInv => AnswersFit
  BY DEF MarketInv
<1> QED BY <1>1, MarketStays, PTL

-----------------------------------------------------------------------------
(* The slip of a browser                                                   *)

\* Where a ticket of Only(ts, K) was in ts.
Sources(ts, K) == {i \in DOMAIN ts : ts[i] \in K}
Rank(I, i) == Cardinality({j \in I : j <= i})
Source(ts, K, k) == CHOOSE i \in Sources(ts, K) : Rank(Sources(ts, K), i) = k

\* The ranks of the members of a finite set of numbers are the numbers up to its size.
LEMMA RanksCover ==
  ASSUME NEW I \in SUBSET Nat, IsFiniteSet(I), NEW k \in 1 .. Cardinality(I)
  PROVE  \E i \in I : Rank(I, i) = k
<1> DEFINE n == Cardinality(I)
           f == [i \in I |-> Rank(I, i)]
<1>1. ASSUME NEW i \in I PROVE Rank(I, i) \in 1 .. n
  <2> DEFINE P == {j \in I : j <= i}
  <2>1. P \subseteq I /\ i \in P
    BY DEF P
  <2>2. IsFiniteSet(P) /\ Cardinality(P) <= n
    BY <2>1, FS_Subset
  <2>3. Cardinality(P) \in Nat /\ n \in Nat
    BY <2>2, FS_CardinalityType
  <2>4. Cardinality(P) # 0
    BY <2>1, <2>2, FS_EmptySet
  <2> QED BY <2>2, <2>3, <2>4 DEF Rank
<1>2. ASSUME NEW i \in I, NEW j \in I, i < j PROVE Rank(I, i) < Rank(I, j)
  <2> DEFINE P == {x \in I : x <= i}
             Q == {x \in I : x <= j}
  <2>1. P \subseteq Q /\ P # Q
    <3>1. i \in Nat /\ j \in Nat
      OBVIOUS
    <3>2. P \subseteq Q
      <4>1. \A x \in Nat : x <= i => x <= j
        BY <1>2, <3>1
      <4> QED BY <4>1
    <3>3. j \in Q /\ j \notin P
      BY <1>2, <3>1
    <3> HIDE DEF P, Q
    <3> QED BY <3>2, <3>3
  <2>2. IsFiniteSet(P) /\ IsFiniteSet(Q)
    BY FS_Subset
  <2>3. Cardinality(P) < Cardinality(Q)
    <3> HIDE DEF P, Q
    <3>1. Cardinality(P) <= Cardinality(Q) /\ Cardinality(P) # Cardinality(Q)
      BY <2>1, <2>2, FS_Subset
    <3>2. Cardinality(P) \in Nat /\ Cardinality(Q) \in Nat
      BY <2>2, FS_CardinalityType
    <3> QED BY <3>1, <3>2
  <2> QED BY <2>3 DEF Rank
<1>3. ASSUME NEW i \in I, NEW j \in I, i # j PROVE f[i] # f[j]
  <2>1. Rank(I, i) \in Nat /\ Rank(I, j) \in Nat
    BY <1>1
  <2>2. i < j \/ j < i
    BY <1>3
  <2> QED BY <1>2, <2>1, <2>2
<1>4. n \in Nat
  BY FS_CardinalityType
<1>5. f \in Injection(I, 1 .. n)
  <2>1. f \in [I -> 1 .. n]
    BY <1>1
  <2>2. \A i, j \in I : f[i] = f[j] => i = j
    BY <1>3, Zenon
  <2> HIDE DEF f
  <2> QED BY <2>1, <2>2 DEF Injection, IsInjective
<1>6. IsFiniteSet(1 .. n) /\ Cardinality(1 .. n) = n
  BY <1>4, FS_Interval
<1>7. f \in Surjection(I, 1 .. n)
  BY <1>5, <1>6, FS_Injection
<1>8. \E i \in I : f[i] = k
  BY <1>7 DEF Surjection
<1> QED BY <1>8

\* Filtering keeps members and brings no ticket twice.
LEMMA OnlyKeeps ==
  ASSUME NEW S, NEW ts \in Seq(S), NEW K
  PROVE  /\ Only(ts, K) \in Seq(S)
         /\ \A k \in DOMAIN Only(ts, K) :
              /\ Source(ts, K, k) \in DOMAIN ts
              /\ Only(ts, K)[k] = ts[Source(ts, K, k)]
              /\ ts[Source(ts, K, k)] \in K
         /\ \A k, l \in DOMAIN Only(ts, K) : k # l => Source(ts, K, k) # Source(ts, K, l)
<1> DEFINE I == Sources(ts, K)
           n == Cardinality(I)
<1>1. I \in SUBSET Nat /\ I \subseteq 1 .. Len(ts) /\ IsFiniteSet(1 .. Len(ts))
  BY FS_Interval DEF Sources
<1>2. IsFiniteSet(I) /\ n \in Nat
  BY <1>1, FS_Subset, FS_CardinalityType
<1>3. Only(ts, K) = [k \in 1 .. n |-> ts[Source(ts, K, k)]]
  BY DEF Only, Source, Sources, Rank
<1>4. ASSUME NEW k \in 1 .. n
      PROVE  Source(ts, K, k) \in I /\ Rank(I, Source(ts, K, k)) = k
  <2>1. \E i \in I : Rank(I, i) = k
    BY <1>1, <1>2, RanksCover
  <2> QED BY <2>1, Zenon DEF Source
<1>5. \A k \in 1 .. n : Source(ts, K, k) \in DOMAIN ts /\ ts[Source(ts, K, k)] \in K
  BY <1>4 DEF Sources
<1>6. \A k, l \in 1 .. n : k # l => Source(ts, K, k) # Source(ts, K, l)
  BY <1>4, Zenon
<1> HIDE DEF n
<1>7. DOMAIN Only(ts, K) = 1 .. n
  BY <1>3
<1>8. \A k \in 1 .. n : Only(ts, K)[k] = ts[Source(ts, K, k)] /\ ts[Source(ts, K, k)] \in S
  BY <1>3, <1>5
<1>9. Only(ts, K) \in Seq(S)
  BY <1>2, <1>3, <1>8
<1> QED BY <1>5, <1>6, <1>7, <1>8, <1>9

\* Two tickets of ts have the same game only for the games in G.
TwoOnlyIn(ts, G) ==
  \A i, j \in DOMAIN ts : i # j /\ ts[i].game = ts[j].game => ts[i].game \in G

LEMMA OnlyTwo ==
  ASSUME NEW S, NEW ts \in Seq(S), NEW K, NEW G, TwoOnlyIn(ts, G)
  PROVE  /\ Only(ts, K) \in Seq(S) /\ TwoOnlyIn(Only(ts, K), G)
         /\ ToSet(Only(ts, K)) \subseteq ToSet(ts) \cap K
<1> DEFINE r == Only(ts, K)
           at(k) == Source(ts, K, k)
<1>1. /\ r \in Seq(S)
      /\ \A k \in DOMAIN r : at(k) \in DOMAIN ts /\ r[k] = ts[at(k)] /\ ts[at(k)] \in K
      /\ \A k, l \in DOMAIN r : k # l => at(k) # at(l)
  BY OnlyKeeps
<1> HIDE DEF r, at
<1>2. TwoOnlyIn(r, G)
  BY <1>1, Zenon DEF TwoOnlyIn
<1>3. ToSet(r) \subseteq ToSet(ts) \cap K
  BY <1>1 DEF ToSet
<1> QED BY <1>1, <1>2, <1>3 DEF r

LEMMA WithTwo ==
  ASSUME NEW ts \in Seq(Ticket), NEW t \in Ticket, NEW G, NEW H, TwoOnlyIn(ts, G),
         G \subseteq H,
         (\E u \in ToSet(ts) : u.game = t.game /\ u.type # t.type) => t.game \in H
  PROVE  WithTicket(ts, t) \in Seq(Ticket) /\ TwoOnlyIn(WithTicket(ts, t), H)
<1>1. CASE \E i \in DOMAIN ts : ts[i].game = t.game /\ ts[i].type = t.type
  <2> DEFINE r == [i \in DOMAIN ts |->
                     IF ts[i].game = t.game /\ ts[i].type = t.type THEN t ELSE ts[i]]
  <2>1. WithTicket(ts, t) = r
    BY <1>1, Zenon DEF WithTicket
  <2>2. DOMAIN r = DOMAIN ts /\ \A i \in DOMAIN ts : r[i].game = ts[i].game
    OBVIOUS
  <2>3. r \in Seq(Ticket)
    OBVIOUS
  <2> HIDE DEF r
  <2>4. TwoOnlyIn(r, H)
    BY <2>2 DEF TwoOnlyIn
  <2> QED BY <2>1, <2>3, <2>4
<1>2. CASE ~\E i \in DOMAIN ts : ts[i].game = t.game /\ ts[i].type = t.type
  <2> DEFINE r == Append(ts, t)
  <2>1. WithTicket(ts, t) = r
    BY <1>2, Zenon DEF WithTicket
  <2>2. /\ r \in Seq(Ticket) /\ DOMAIN r = DOMAIN ts \cup {Len(ts) + 1}
        /\ Len(ts) + 1 \notin DOMAIN ts
        /\ r[Len(ts) + 1] = t /\ \A i \in DOMAIN ts : r[i] = ts[i]
    OBVIOUS
  <2>3. \A i \in DOMAIN ts : ts[i].game = t.game => t.game \in H
    <3> SUFFICES ASSUME NEW i \in DOMAIN ts, ts[i].game = t.game PROVE t.game \in H
      OBVIOUS
    <3>1. ts[i] \in ToSet(ts)
      BY DEF ToSet
    <3>2. ts[i].type # t.type
      BY <1>2
    <3> QED BY <3>1, <3>2
  <2> HIDE DEF r
  <2>4. TwoOnlyIn(r, H)
    <3> SUFFICES ASSUME NEW i \in DOMAIN r, NEW j \in DOMAIN r, i # j,
                        r[i].game = r[j].game
                 PROVE  r[i].game \in H
      BY DEF TwoOnlyIn
    <3>1. CASE i \in DOMAIN ts /\ j \in DOMAIN ts
      BY <2>2, <3>1 DEF TwoOnlyIn
    <3>2. CASE i = Len(ts) + 1
      <4>1. j \in DOMAIN ts /\ r[i] = t /\ r[j] = ts[j]
        BY <2>2, <3>2
      <4> QED BY <2>3, <4>1
    <3>3. CASE j = Len(ts) + 1
      <4>1. i \in DOMAIN ts /\ r[j] = t /\ r[i] = ts[i]
        BY <2>2, <3>3
      <4> QED BY <2>3, <4>1
    <3> QED BY <2>2, <3>1, <3>2, <3>3
  <2> QED BY <2>1, <2>2, <2>4
<1> QED BY <1>1, <1>2

SlipTypes ==
  /\ slip \in Seq(Ticket) /\ posted \in Seq(Ticket)
  /\ request \in {"none", "sent", "accepted", "refused"}

\* Every ticket of the slip is in the bet under way or was put in since.
CoveredTickets ==
  /\ placing <=> request # "none"
  /\ request # "none" => ToSet(slip) \subseteq meanwhile \cup ToSet(posted)

\* A ticket of the slip that was placed waits for the answer of its bet, or that
\* answer was lost.
PlacedIsAnswered ==
  /\ ToSet(slip) \cap placed \subseteq
       lost \cup (IF request = "accepted" THEN ToSet(posted) ELSE {})
  /\ SecondNeedsLoss

SlipInv == SlipTypes /\ CoveredTickets /\ PlacedIsAnswered /\ TwoOnlyIn(slip, byCard)

LEMMA InitSlip == SlipInit => SlipInv
<1> SUFFICES ASSUME SlipInit PROVE SlipInv
  OBVIOUS
<1>1. SlipTypes
  BY DEF SlipInit, SlipTypes
<1>2. CoveredTickets
  BY Zenon DEF SlipInit, CoveredTickets
<1>3. PlacedIsAnswered
  BY DEF SlipInit, PlacedIsAnswered, SecondNeedsLoss
<1>4. TwoOnlyIn(slip, byCard)
  BY DEF SlipInit, TwoOnlyIn
<1> QED BY <1>1, <1>2, <1>3, <1>4 DEF SlipInv

LEMMA ClickKeeps ==
  ASSUME SlipInv, NEW after \in Seq(Ticket), Click(after), TwoOnlyIn(after, byCard')
  PROVE  SlipInv'
<1>1. SlipTypes'
  BY DEF SlipInv, SlipTypes, Click
<1>2. CoveredTickets'
  <2>1. placing' <=> request' # "none"
    BY Zenon DEF SlipInv, CoveredTickets, Click
  <2>2. ASSUME request' # "none"
        PROVE  ToSet(slip)' \subseteq meanwhile' \cup ToSet(posted)'
    <3>1. placing /\ request # "none" /\ UNCHANGED posted /\ slip' = after
      BY <2>2, Zenon DEF SlipInv, CoveredTickets, Click
    <3>2. meanwhile' = meanwhile \cup (ToSet(after) \ ToSet(slip))
      BY <3>1 DEF Click
    <3>3. ToSet(slip) \subseteq meanwhile \cup ToSet(posted)
      BY <3>1, Zenon DEF SlipInv, CoveredTickets
    <3>4. ToSet(slip)' = ToSet(after) /\ ToSet(posted)' = ToSet(posted)
      BY <3>1 DEF ToSet
    <3> QED BY <3>2, <3>3, <3>4
  <2> QED BY <2>1, <2>2, Zenon DEF CoveredTickets
<1>3. PlacedIsAnswered'
  <2> PICK putIn : putIn = ToSet(after) \ ToSet(slip)
    OBVIOUS
  <2>1. /\ placed' = placed \ putIn /\ lost' = lost \ putIn
        /\ UNCHANGED <<request, posted>>
    BY DEF Click
  <2>2. ToSet(slip)' = ToSet(after) /\ ToSet(posted)' = ToSet(posted)
    BY <2>1 DEF Click
  <2>3. SecondNeedsLoss'
    BY <2>1, <2>2 DEF SlipInv, PlacedIsAnswered, SecondNeedsLoss
  <2> QED BY <2>1, <2>2, <2>3 DEF SlipInv, PlacedIsAnswered
<1>4. TwoOnlyIn(slip, byCard)'
  <2>1. slip' = after
    BY DEF Click
  <2> QED BY <2>1 DEF TwoOnlyIn
<1> QED BY <1>1, <1>2, <1>3, <1>4 DEF SlipInv

LEMMA CardKeeps ==
  ASSUME SlipInv, NEW t \in Ticket, ClickCard(t)
  PROVE  SlipInv'
<1>0. slip \in Seq(Ticket) /\ TwoOnlyIn(slip, byCard)
  BY DEF SlipInv, SlipTypes
<1>1. /\ byCard \subseteq byCard'
      /\ (\E u \in ToSet(slip) : u.game = t.game /\ u.type # t.type) => t.game \in byCard'
  BY DEF ClickCard
<1>2. /\ WithoutGame(slip, t.game) \in Seq(Ticket)
      /\ TwoOnlyIn(WithoutGame(slip, t.game), byCard')
  <2>1. /\ WithoutGame(slip, t.game) \in Seq(Ticket)
        /\ TwoOnlyIn(WithoutGame(slip, t.game), byCard)
    BY <1>0, OnlyTwo DEF WithoutGame
  <2> QED BY <1>1, <2>1 DEF TwoOnlyIn
<1>3. WithTicket(slip, t) \in Seq(Ticket) /\ TwoOnlyIn(WithTicket(slip, t), byCard')
  BY <1>0, <1>1, WithTwo
<1>4. AfterCard(t) \in Seq(Ticket) /\ TwoOnlyIn(AfterCard(t), byCard')
  BY <1>2, <1>3, Zenon DEF AfterCard
<1>5. Click(AfterCard(t))
  BY DEF ClickCard
<1> QED BY <1>4, <1>5, ClickKeeps

LEMMA PageKeeps ==
  ASSUME SlipInv, NEW t \in Ticket, ClickPage(t)
  PROVE  SlipInv'
<1> DEFINE r == WithoutGame(slip, t.game)
<1>0. slip \in Seq(Ticket) /\ TwoOnlyIn(slip, byCard) /\ byCard' = byCard
  BY DEF SlipInv, SlipTypes, ClickPage
<1>1. /\ r \in Seq(Ticket) /\ TwoOnlyIn(r, byCard)
      /\ ToSet(r) \subseteq {u \in Ticket : u.game # t.game}
  BY <1>0, OnlyTwo DEF WithoutGame
<1> HIDE DEF r
<1>2. ~\E u \in ToSet(r) : u.game = t.game /\ u.type # t.type
  BY <1>1
<1>3. WithTicket(r, t) \in Seq(Ticket) /\ TwoOnlyIn(WithTicket(r, t), byCard)
  BY <1>1, <1>2, WithTwo
<1>4. AfterPage(t) \in Seq(Ticket) /\ TwoOnlyIn(AfterPage(t), byCard')
  BY <1>0, <1>1, <1>3, Zenon DEF AfterPage, r
<1>5. Click(AfterPage(t))
  BY DEF ClickPage
<1> QED BY <1>4, <1>5, ClickKeeps

LEMMA RemoveKeeps ==
  ASSUME SlipInv, NEW t \in Ticket, RemoveTicket(t)
  PROVE  SlipInv'
<1> PICK K : K = {u \in Ticket : u.game # t.game \/ u.type # t.type}
  OBVIOUS
<1>0. /\ slip \in Seq(Ticket) /\ TwoOnlyIn(slip, byCard) /\ slip' = Only(slip, K)
      /\ UNCHANGED <<placing, posted, request, placed, lost, meanwhile, byCard>>
      /\ t \in ToSet(slip)
  BY DEF SlipInv, SlipTypes, RemoveTicket
<1>1. /\ Only(slip, K) \in Seq(Ticket) /\ TwoOnlyIn(Only(slip, K), byCard)
      /\ ToSet(Only(slip, K)) \subseteq ToSet(slip)
  BY <1>0, OnlyTwo
<1>2. ToSet(slip)' = ToSet(Only(slip, K)) /\ ToSet(posted)' = ToSet(posted)
  BY <1>0 DEF ToSet
<1>3. SlipTypes'
  BY <1>0, <1>1 DEF SlipInv, SlipTypes
<1>4. CoveredTickets'
  <2>1. placing' <=> request' # "none"
    BY <1>0, Zenon DEF SlipInv, CoveredTickets
  <2>2. ASSUME request' # "none"
        PROVE  ToSet(slip)' \subseteq meanwhile' \cup ToSet(posted)'
    <3>1. ToSet(slip) \subseteq meanwhile \cup ToSet(posted)
      BY <1>0, <2>2, Zenon DEF SlipInv, CoveredTickets
    <3> QED BY <1>0, <1>1, <1>2, <3>1
  <2> QED BY <2>1, <2>2, Zenon DEF CoveredTickets
<1>5. PlacedIsAnswered'
  BY <1>0, <1>1, <1>2 DEF SlipInv, PlacedIsAnswered, SecondNeedsLoss
<1>6. TwoOnlyIn(slip, byCard)'
  BY <1>0, <1>1 DEF TwoOnlyIn
<1> QED BY <1>3, <1>4, <1>5, <1>6 DEF SlipInv

\* The steps of a bet: they change neither the slip, but to clear it, nor byCard.
LEMMA BetStepsKeep ==
  ASSUME SlipInv, SendBet \/ ServerPlaces \/ AnswerComes \/ AnswerLost \/ UNCHANGED slipVars
  PROVE  SlipInv'
<1>0. slip \in Seq(Ticket) /\ TwoOnlyIn(slip, byCard)
  BY DEF SlipInv, SlipTypes
<1>1. UNCHANGED byCard /\ (slip' = slip \/ slip' = << >>)
  BY DEF SendBet, ServerPlaces, AnswerComes, SlipAfter, AnswerLost, slipVars
<1>2. TwoOnlyIn(slip, byCard)'
  BY <1>0, <1>1 DEF TwoOnlyIn
<1>3. SlipTypes'
  <2> USE DEF SlipInv, SlipTypes
  <2>1. CASE SendBet
    BY <2>1 DEF SendBet
  <2>2. CASE ServerPlaces
    BY <2>2 DEF ServerPlaces
  <2>3. CASE AnswerComes
    BY <2>3 DEF AnswerComes, SlipAfter
  <2>4. CASE AnswerLost
    BY <2>4 DEF AnswerLost
  <2>5. CASE UNCHANGED slipVars
    BY <2>5 DEF slipVars
  <2> QED BY <2>1, <2>2, <2>3, <2>4, <2>5
<1>4. CoveredTickets'
  <2>1. CASE SendBet
    <3>1. placing' /\ request' = "sent" /\ posted' = slip /\ slip' = slip
      BY <2>1, Zenon DEF SendBet
    <3>2. ToSet(slip)' = ToSet(posted)'
      BY <3>1
    <3> QED BY <3>1, <3>2 DEF CoveredTickets
  <2>2. CASE ServerPlaces
    <3>1. request # "none" /\ request' # "none" /\ UNCHANGED <<slip, placing, posted, meanwhile>>
      BY <2>2 DEF ServerPlaces
    <3>2. ToSet(slip)' = ToSet(slip) /\ ToSet(posted)' = ToSet(posted)
      BY <3>1
    <3> QED BY <3>1, <3>2, Zenon DEF SlipInv, CoveredTickets
  <2>3. CASE AnswerComes \/ AnswerLost
    <3>1. ~placing' /\ request' = "none"
      BY <2>3, Zenon DEF AnswerComes, AnswerLost
    <3> QED BY <3>1, Zenon DEF CoveredTickets
  <2>4. CASE UNCHANGED slipVars
    <3>1. UNCHANGED <<slip, placing, posted, meanwhile, request>>
      BY <2>4 DEF slipVars
    <3>2. ToSet(slip)' = ToSet(slip) /\ ToSet(posted)' = ToSet(posted)
      BY <3>1
    <3> QED BY <3>1, <3>2, Zenon DEF SlipInv, CoveredTickets
  <2> QED BY <2>1, <2>2, <2>3, <2>4
<1>5. PlacedIsAnswered'
  <2> USE DEF SlipInv, PlacedIsAnswered, SecondNeedsLoss
  <2>1. CASE SendBet
    <3>1. request = "none"
      BY <2>1, Zenon DEF SendBet, Enabled, CoveredTickets
    <3>2. /\ UNCHANGED <<slip, placed, lost>> /\ posted' = slip
          /\ request' = "sent"
      BY <2>1 DEF SendBet
    <3> QED BY <3>1, <3>2
  <2>2. CASE ServerPlaces
    <3>1. /\ UNCHANGED <<slip, posted, lost>> /\ request = "sent"
          /\ \/ request' = "accepted" /\ placed' = placed \cup ToSet(posted)
             \/ request' = "refused" /\ placed' = placed
      BY <2>2 DEF ServerPlaces
    <3> QED BY <3>1
  <2>3. CASE AnswerComes
    <3>1. /\ request' = "none" /\ UNCHANGED <<placed, lost>>
          /\ slip' = IF request = "accepted" THEN << >> ELSE slip
      BY <2>3 DEF AnswerComes, SlipAfter
    <3>2. ToSet(<< >>) = {}
      BY DEF ToSet
    <3> QED BY <3>1, <3>2
  <2>4. CASE AnswerLost
    <3>1. /\ request' = "none" /\ UNCHANGED <<slip, placed>>
          /\ lost' = IF request = "accepted" THEN lost \cup ToSet(posted) ELSE lost
      BY <2>4 DEF AnswerLost
    <3> QED BY <3>1
  <2>5. CASE UNCHANGED slipVars
    <3>1. UNCHANGED <<slip, posted, request, placed, lost>>
      BY <2>5 DEF slipVars
    <3> QED BY <3>1
  <2> QED BY <2>1, <2>2, <2>3, <2>4, <2>5
<1> QED BY <1>2, <1>3, <1>4, <1>5 DEF SlipInv

LEMMA SlipStays == SlipSpec => []SlipInv
<1>1. SlipInv /\ [SlipNext]_slipVars => SlipInv'
  BY CardKeeps, PageKeeps, RemoveKeeps, BetStepsKeep DEF SlipNext
<1> QED BY InitSlip, <1>1, PTL DEF SlipSpec

\* A slip never holds two tickets of one game without a click on a card of a game
\* with a ticket of another market (SportsCard.tsx).  Whatever a slip holds, a bet
\* has a ticket that was placed before and not put in since only if that bet was
\* placed without its answer coming back (handlePlaceBet of BetSlip.tsx).
THEOREM SlipsAreSafe == SlipSpec => []SlipSafe
<1>1. SlipInv => SlipSafe
  <2> SUFFICES ASSUME SlipInv PROVE SlipSafe
    OBVIOUS
  <2>1. TwoNeedACard
    BY DEF SlipInv, TwoOnlyIn, TwoNeedACard
  <2>2. SecondNeedsLoss
    BY DEF SlipInv, PlacedIsAnswered
  <2> QED BY <2>1, <2>2 DEF SlipSafe
<1> QED BY <1>1, SlipStays, PTL

\* The answer to a bet clears only tickets that were placed with it or put in while
\* it was under way (clearAllTickets of store/betSlip.ts).
THEOREM ClearsWhatWasPlaced == SlipSpec => ClearedWasPlaced
<1> DEFINE A == request # "none" /\ request' = "none" =>
                  \A t \in ToSet(slip) \ ToSet(slip') :
                    t \in meanwhile \/ (request = "accepted" /\ t \in ToSet(posted))
<1>1. SlipInv /\ [SlipNext]_slipVars => [A]_slipVars
  <2> SUFFICES ASSUME SlipInv, SlipNext, request # "none", request' = "none",
                      NEW t \in ToSet(slip) \ ToSet(slip')
               PROVE  t \in meanwhile \/ (request = "accepted" /\ t \in ToSet(posted))
    BY DEF slipVars
  <2>1. t \in meanwhile \cup ToSet(posted) /\ slip' # slip
    BY Zenon DEF SlipInv, CoveredTickets
  <2>2. AnswerComes \/ AnswerLost
    BY DEF SlipNext, ClickCard, ClickPage, Click, RemoveTicket, SendBet, ServerPlaces
  <2>3. request = "accepted"
    BY <2>1, <2>2, Zenon DEF AnswerComes, AnswerLost, SlipAfter
  <2> QED BY <2>1, <2>3
<1> HIDE DEF A
<1>2. SlipSpec => [][A]_slipVars
  BY <1>1, SlipStays, PTL DEF SlipSpec
<1> QED BY <1>2 DEF A, ClearedWasPlaced
=============================================================================
