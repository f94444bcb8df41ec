------------------------------ MODULE BetSlip ------------------------------
(***************************************************************************)
(* The slip of a browser (store/betSlip.ts): tickets come from the cards   *)
(* of the games (SportsCard.tsx) and from the page of one game             *)
(* (sport/[id]/page.tsx), and handlePlaceBet of BetSlip.tsx sends them.    *)
(* The slip is kept over a reload of the page.                             *)
(***************************************************************************)
EXTENDS Integers, FiniteSets, SequencesExt

CONSTANTS Games, MarketTypes, Positions,
          MainType,  \* the market of a card
          MaxClicks, \* bound on the clicks on odds
          MaxSent    \* bound on the bets sent

ASSUME SlipAssumption ==
  MainType \in MarketTypes /\ MaxClicks \in Nat /\ MaxSent \in Nat

Ticket == [game: Games, type: MarketTypes, position: Positions]

VARIABLES slip,     \* selectedTickets
          placing,  \* isPlacingBet
          posted,   \* the tickets of the bet that was sent
          request,  \* where the request is
          clicks, sent,
          placed,    \* tickets of bets the server placed that no click has put
                     \* in since (history)
          lost,      \* those of them whose bet was not answered (history)
          meanwhile, \* tickets put in while a bet was being placed (history)
          byCard     \* games that a card added to beside another ticket
                     \* (history)

slipVars == <<slip, placing, posted, request, clicks, sent, placed, lost,
              meanwhile, byCard>>

SlipInit ==
  /\ slip = << >> /\ placing = FALSE /\ posted = << >> /\ request = "none"
  /\ clicks = 0 /\ sent = 0
  /\ placed = {} /\ lost = {} /\ meanwhile = {} /\ byCard = {}

-----------------------------------------------------------------------------
\* filter: the tickets of ts that are in K, in their order (SelectSeq, in a form that
\* can be reasoned about).
Only(ts, K) ==
  LET at == {i \in DOMAIN ts : ts[i] \in K} IN
    [k \in 1 .. Cardinality(at) |->
       ts[CHOOSE i \in at : Cardinality({j \in at : j <= i}) = k]]

Of(ts, g) == Only(ts, {t \in Ticket : t.game = g})

\* removeTicket takes every ticket of the game.
WithoutGame(ts, g) == Only(ts, {t \in Ticket : t.game # g})

\* addTicket replaces a ticket of the same market.
WithTicket(ts, t) ==
  IF \E i \in DOMAIN ts : ts[i].game = t.game /\ ts[i].type = t.type
  THEN [i \in DOMAIN ts |->
          IF ts[i].game = t.game /\ ts[i].type = t.type THEN t ELSE ts[i]]
  ELSE Append(ts, t)

\* A click on the odds that the first ticket of the game shows takes the tickets
\* of the game out.
AfterCard(t) ==
  IF Of(slip, t.game) # << >> /\ Head(Of(slip, t.game)).position = t.position
  THEN WithoutGame(slip, t.game)
  ELSE WithTicket(slip, t)

\* "single selection per game"
AfterPage(t) ==
  IF t \in ToSet(slip) THEN WithoutGame(slip, t.game)
  ELSE WithTicket(WithoutGame(slip, t.game), t)

Click(after) ==
  LET putIn == ToSet(after) \ ToSet(slip) IN
    /\ clicks < MaxClicks
    /\ clicks' = clicks + 1
    /\ slip' = after
    /\ meanwhile' = IF placing THEN meanwhile \cup putIn ELSE meanwhile
    /\ placed' = placed \ putIn /\ lost' = lost \ putIn
    /\ UNCHANGED <<placing, posted, request, sent>>

ClickCard(t) ==
  /\ t.type = MainType
  /\ Click(AfterCard(t))
  /\ byCard' = IF \E u \in ToSet(slip) : u.game = t.game /\ u.type # t.type
               THEN byCard \cup {t.game} ELSE byCard

ClickPage(t) ==
  /\ Click(AfterPage(t))
  /\ UNCHANGED byCard

RemoveTicket(t) ==
  /\ t \in ToSet(slip)
  /\ slip' = Only(slip, {u \in Ticket : u.game # t.game \/ u.type # t.type})
  /\ UNCHANGED <<placing, posted, request, clicks, sent, placed, lost, meanwhile,
                 byCard>>

\* Mutant: the button stays enabled.
EnabledAlways == slip # << >> /\ request \in {"none", "accepted"}

Enabled == slip # << >> /\ ~placing

\* The button is disabled while a bet is placed.  Login and balance are taken
\* for granted.
SendBet ==
  /\ Enabled /\ sent < MaxSent
  /\ sent' = sent + 1
  /\ placing' = TRUE /\ posted' = slip /\ request' = "sent"
  /\ meanwhile' = {}
  /\ UNCHANGED <<slip, clicks, placed, lost, byCard>>

\* The server places the bet or refuses it.
ServerPlaces ==
  /\ request = "sent"
  /\ \/ request' = "accepted" /\ placed' = placed \cup ToSet(posted)
     \/ request' = "refused" /\ UNCHANGED placed
  /\ UNCHANGED <<slip, placing, posted, clicks, sent, lost, meanwhile, byCard>>

\* Mutant: the slip is cleared whatever the answer.
SlipAfterAny == << >>

SlipAfter == IF request = "accepted" THEN << >> ELSE slip

AnswerComes ==
  /\ request \in {"accepted", "refused"}
  /\ slip' = SlipAfter
  /\ placing' = FALSE /\ request' = "none" /\ posted' = << >>
  /\ UNCHANGED <<clicks, sent, placed, lost, meanwhile, byCard>>

\* The request fails on its way or on the way back, or the page is loaded again.
AnswerLost ==
  /\ request # "none"
  /\ placing' = FALSE /\ request' = "none" /\ posted' = << >>
  /\ lost' = IF request = "accepted" THEN lost \cup ToSet(posted) ELSE lost
  /\ UNCHANGED <<slip, clicks, sent, placed, meanwhile, byCard>>

SlipNext ==
  \/ \E t \in Ticket : ClickCard(t) \/ ClickPage(t) \/ RemoveTicket(t)
  \/ SendBet \/ ServerPlaces \/ AnswerComes \/ AnswerLost

SlipSpec == SlipInit /\ [][SlipNext]_slipVars

-----------------------------------------------------------------------------
\* "Clear bet slip": the answer takes a ticket out only if it was in a bet that
\* was placed, or was put in, or put back, while that bet was under way.
ClearedWasPlaced ==
  [][request # "none" /\ request' = "none" =>
       \A t \in ToSet(slip) \ ToSet(slip') :
         t \in meanwhile \/ (request = "accepted" /\ t \in ToSet(posted))]_slipVars

\* A bet holds a ticket that was placed before, and that no click has put in since,
\* only if that bet was placed without its answer coming back: however many
\* tickets the slip has, none is placed a second time for any other reason.
SecondNeedsLoss ==
  request = "sent" => ToSet(posted) \cap placed \subseteq lost

\* Two tickets of one game ("single selection per game") need a click on a card
\* whose game has a ticket of another market.
TwoNeedACard ==
  \A i, j \in DOMAIN slip :
    i # j /\ slip[i].game = slip[j].game => slip[i].game \in byCard

\* What the slip of one browser keeps to.
SlipSafe == TwoNeedACard /\ SecondNeedsLoss
=============================================================================
