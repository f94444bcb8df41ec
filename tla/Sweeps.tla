------------------------------- MODULE Sweeps -------------------------------
(***************************************************************************)
(* sweepFromUsers of admin/admin.service.ts for one user: the coins of the *)
(* deposit wallets are sent to the hot wallets, one asset after the other, *)
(* while deposits arrive and the user plays; then the token balances of    *)
(* the user's row are set to zero and the row is saved as it was when the  *)
(* sweep began.                                                            *)
(***************************************************************************)
EXTENDS Integers, SequencesExt

CONSTANTS Chains,     \* the EVM chains, in the order of chainConfig
          WithRpc,    \* those for which the environment names an endpoint
          Gas,        \* what a transfer costs in the chain's coin
          Threshold,  \* SWEEP_ETH
          Incoming,   \* the deposits of a behaviour: asset and amount
          MaxPlays    \* bound on the plays

BalanceColumns == {"btc", "sol", "eth", "usdt", "usdc", "real"}
TokenColumns == BalanceColumns \ {"real"}

FirstSweeps == << <<"bitcoin", "btc">>, <<"solana", "sol">>, <<"solana", "usdt">>,
                  <<"solana", "usdc">> >>
EvmSweeps == <<"usdt", "usdc", "eth">>

\* The assets in the order they are swept: on each EVM chain the coin is the last.
Order == FirstSweeps \o
         [i \in 1 .. 3 * Len(Chains) |->
            <<Chains[(i + 2) \div 3], EvmSweeps[((i - 1) % 3) + 1]>>]
Assets == ToSet(Order)

ASSUME SweepAssumption ==
  /\ Chains \in Seq(ToSet(Chains))
  /\ \A i, j \in DOMAIN Chains : Chains[i] = Chains[j] => i = j
  /\ WithRpc \subseteq ToSet(Chains) /\ Gas \in Nat /\ Threshold \in Nat
  /\ MaxPlays \in Nat /\ \A d \in Incoming : d[1] \in Assets /\ d[2] \in Nat

\* The coin that pays for the transfers of a chain.
Native(a) == CASE a[1] = "bitcoin" -> <<a[1], "btc">>
               [] a[1] = "solana" -> <<a[1], "sol">>
               [] OTHER -> <<a[1], "eth">>

VARIABLES held,  \* what the deposit wallets hold of each asset
          book,  \* the user's row
          turn,  \* the asset whose turn it is, 0 between two sweeps
          rowCopy, rowDirty, \* the row as it was read, the columns the save updates
          income, plays, \* the deposits and the number of plays there were
          swept, \* assets that left in this sweep (history)
          before, \* what was held when the sweep began (history)
          broken, \* assets whose sweep an endpoint stopped (history)
          played  \* the user played since the sweep began (history)

sweepVars == <<held, book, turn, rowCopy, rowDirty, income, plays, swept, before,
               broken, played>>
sweepPast == <<swept, before, broken, played>>

Reading == Len(Order) + 1
Saving  == Len(Order) + 2

SweepTypeOK ==
  /\ held \in [Assets -> Nat] /\ before \in [Assets -> Nat]
  /\ book \in [BalanceColumns -> Nat] /\ rowCopy \in [BalanceColumns -> Nat]
  /\ turn \in 0 .. Saving /\ rowDirty \subseteq BalanceColumns
  /\ income \subseteq Incoming /\ plays \in 0 .. MaxPlays
  /\ swept \subseteq Assets /\ broken \subseteq Assets /\ played \in BOOLEAN

SweepInit ==
  /\ held = [a \in Assets |-> 0] /\ before = held
  /\ book = [c \in BalanceColumns |-> 0] /\ rowCopy = book
  /\ turn = 0 /\ rowDirty = {} /\ income = {} /\ plays = 0
  /\ swept = {} /\ broken = {} /\ played = FALSE

-----------------------------------------------------------------------------
\* A deposit arrives and is credited.
Income(d) ==
  /\ d \notin income
  /\ income' = income \cup {d}
  /\ held' = [held EXCEPT ![d[1]] = @ + d[2]]
  /\ book' = [book EXCEPT ![d[1][2]] = @ + d[2]]
  /\ UNCHANGED <<turn, rowCopy, rowDirty, plays, sweepPast>>

\* A game or a bet changes the USD balance.
Play ==
  /\ plays < MaxPlays
  /\ plays' = plays + 1
  /\ book' = [book EXCEPT !["real"] = @ + 1]
  /\ played' = (turn > 0)
  /\ UNCHANGED <<held, turn, rowCopy, rowDirty, income, swept, before, broken>>

\* fetchSweepableUsers: the four comparisons share one parameter name, so each
\* uses the amount that was set last, that of ETH.  USDC is not looked at.
Sweepable == \E c \in {"usdt", "btc", "sol", "eth"} : book[c] > Threshold

BeginSweep ==
  /\ turn = 0 /\ Sweepable
  /\ turn' = 1
  /\ rowCopy' = book /\ before' = held
  /\ UNCHANGED <<held, book, rowDirty, income, plays, swept, broken, played>>

\* The forms register stores the private keys in, and those the sweeps decode.
StoredAs(chain) == IF chain = "bitcoin" THEN "hex"
                   ELSE IF chain = "solana" THEN "base58" ELSE "0xhex"
\* Mutant: the keys are decoded in the form they are stored in.
DecodedRight(chain) == StoredAs(chain)
DecodedAs(chain) == IF chain = "bitcoin" THEN "WIF"
                    ELSE IF chain = "solana" THEN "base64" ELSE "0xhex"

Usable(a) == /\ StoredAs(a[1]) = DecodedAs(a[1])
             /\ a[1] \in ToSet(Chains) => a[1] \in WithRpc

\* Mutant: a token is sent without a look at the coin that pays for it.
CanSendNoGas(a) == Usable(a) /\ held[a] > 0

\* sweepERC20 needs gas beside the token, sweepNative takes it from the coin.
CanSend(a) == Usable(a) /\ held[a] > 0 /\ held[Native(a)] > Gas

\* A coin is sent, or the attempt returns or throws an error.  The row that is
\* to record a transfer and the counters of the summary are left out: nothing
\* that follows depends on them.
SweepAsset ==
  /\ turn \in DOMAIN Order
  /\ LET a == Order[turn] IN
     \/ /\ CanSend(a)
        /\ held' = IF a = Native(a) THEN [held EXCEPT ![a] = 0]
                   ELSE [held EXCEPT ![a] = 0, ![Native(a)] = @ - Gas]
        /\ swept' = swept \cup {a}
        /\ UNCHANGED broken
     \/ /\ ~CanSend(a)
        /\ UNCHANGED <<held, swept, broken>>
     \/ /\ Usable(a) \* an endpoint fails
        /\ broken' = broken \cup {a}
        /\ UNCHANGED <<held, swept>>
  /\ turn' = turn + 1
  /\ UNCHANGED <<book, rowCopy, rowDirty, income, plays, before, played>>

\* Mutant: the USD balance is zeroed with the others.
ZeroedAll == [c \in BalanceColumns |-> 0]

Zeroed == [c \in BalanceColumns |-> IF c \in TokenColumns THEN 0 ELSE rowCopy[c]]

\* The save reads the row and finds the columns that differ from the copy.
ReadRow ==
  /\ turn = Reading
  /\ rowCopy' = Zeroed
  /\ rowDirty' = {c \in BalanceColumns : Zeroed[c] # book[c]}
  /\ turn' = Saving
  /\ UNCHANGED <<held, book, income, plays, sweepPast>>

\* The sweep is over, its row is gone, and what is remembered of it too.
EndSweep ==
  /\ turn' = 0 /\ rowDirty' = {} /\ rowCopy' = [c \in BalanceColumns |-> 0]
  /\ swept' = {} /\ broken' = {} /\ played' = FALSE
  /\ before' = [a \in Assets |-> 0]

SaveRow ==
  /\ turn = Saving
  /\ book' = [c \in BalanceColumns |-> IF c \in rowDirty THEN rowCopy[c] ELSE book[c]]
  /\ EndSweep
  /\ UNCHANGED <<held, income, plays>>

\* A query fails or the process stops: the sweep ends where it is.
Abort ==
  /\ turn > 0
  /\ EndSweep
  /\ UNCHANGED <<held, book, income, plays>>

SweepNext ==
  \/ \E d \in Incoming : Income(d)
  \/ Play \/ BeginSweep \/ SweepAsset \/ ReadRow \/ SaveRow \/ Abort

SweepSpec == SweepInit /\ [][SweepNext]_sweepVars

-----------------------------------------------------------------------------
\* The sweeps do not run out of gas through their own order: a token that was
\* there when the sweep began, on a chain whose coin could pay for both tokens,
\* has left when the row is saved, unless an endpoint failed.
TokensBeforeGas ==
  turn >= Reading =>
    \A a \in Assets :
      Usable(a) /\ a[2] \in {"usdt", "usdc"} /\ before[a] > 0
        /\ before[Native(a)] > 2 * Gas /\ a \notin broken
      => a \in swept

\* The keys of Bitcoin and Solana are stored in one form and decoded in
\* another: no sweep ever moves a coin of theirs.
OnlyEvmMoves ==
  [][\A a \in Assets : a[1] \in {"bitcoin", "solana"} => held'[a] >= held[a]]_sweepVars

\* The save of a sweep changes the USD balance only by putting back what a game
\* or a bet changed since the sweep began.
RealOnlyPutBack ==
  [][turn = Saving /\ turn' = 0 /\ book'["real"] # book["real"] => played]_sweepVars

\* "Update user balances to zero after successful sweeps": a token balance that
\* is set to zero is that of assets of which nothing stays behind.
ZeroedAfterSuccess ==
  [][turn = Saving /\ turn' = 0 =>
       \A a \in Assets : book[a[2]] > 0 /\ book'[a[2]] = 0 => held[a] = 0]_sweepVars

\* What a step of a sweep never does.
SweepSteps == OnlyEvmMoves /\ RealOnlyPutBack
=============================================================================
