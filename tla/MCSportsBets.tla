---------------------------- MODULE MCSportsBets ----------------------------
(***************************************************************************)
(* From the odds to the payout.  A behaviour runs one of three: the lists  *)
(* of markets, the slip of one browser, or the bets at the server, where   *)
(* one is settled and claimed twice, beside one that only its winnings can *)
(* pay and one on the other balance.                                       *)
(***************************************************************************)
EXTENDS SportsBets, BetSlip, MarketCache

CONSTANTS u1, u2

VARIABLE part \* the one that runs

allVars == <<part, vars, slipVars, marketVars>>

MCUsers == {u1, u2}

Bet(id, t, amount, payout, valid) ==
  [id |-> id, user |-> u1, balance |-> t, amount |-> amount,
   payout |-> payout, valid |-> valid]

Single == Bet(1, "realBalance", 2, 3, TRUE)
Large  == Bet(2, "realBalance", 4, 5, TRUE)
Parlay == Bet(3, "testBalance", 1, 4, TRUE)

Claim(id, u, b)  == [id |-> id, user |-> u, bet |-> b]
Settle(id, b, s) == [id |-> id, bet |-> b, status |-> s]

ThreeBets  == {Single, Large, Parlay}
TwoClaims  == {Claim(10, u1, Single), Claim(11, u1, Single)}
TwoSettles == {Settle(20, Single, "won"), Settle(21, Single, "lost")}

MCInit == /\ part \in {"markets", "slip", "bets"}
          /\ MarketInit /\ SlipInit /\ Init

MCNext ==
  \/ part = "markets" /\ MarketNext /\ UNCHANGED <<part, slipVars, vars>>
  \/ part = "slip" /\ SlipNext /\ UNCHANGED <<part, marketVars, vars>>
  \/ part = "bets" /\ Next /\ UNCHANGED <<part, marketVars, slipVars>>

MCSpec == MCInit /\ [][MCNext]_allVars

\* A user whose calls never overlapped and were never cut off has the start
\* balance minus the stakes taken plus the payouts of the bets on it.
BooksBalance ==
  \A u \in Users \ overlapped, t \in BalanceTypes :
    row[u][t] = InitialBalance
      + SumFunctionOnSet([b \in Bets |-> paid[b] * b.payout - b.amount],
                         {b \in staked : b.user = u /\ b.balance = t})
=============================================================================
