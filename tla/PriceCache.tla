----------------------------- MODULE PriceCache -----------------------------
(***************************************************************************)
(* getTokenUsdPrice of api/api.service.ts for one token: a price from      *)
(* CoinGecko is kept for a minute, counted from the moment at which its    *)
(* request began.  Deposits are converted with it.                         *)
(***************************************************************************)
EXTENDS Integers, FiniteSets

CONSTANTS Askers,
          CacheTtl, \* CACHE_TTL
          Timeout,  \* of a request
          MaxTime   \* bound on the clock

ASSUME PriceAssumption ==
  CacheTtl \in Nat /\ Timeout \in Nat /\ MaxTime \in Nat

\* A price is named by the moment at which it was quoted.
VARIABLES clock,
          cache,  \* the price that is kept, and its stamp
          ask,    \* where each call is
          began,  \* when it read the clock
          price   \* the price it was sent or returns

priceVars == <<clock, cache, ask, began, price>>

Never == -1
Moments == Never .. MaxTime
NoPrice == [value |-> Never, timestamp |-> Never]

PriceTypeOK ==
  /\ clock \in 0 .. MaxTime
  /\ cache \in [value: Moments, timestamp: Moments]
  /\ ask \in [Askers -> {"idle", "waiting", "quoted", "returned"}]
  /\ began \in [Askers -> Moments] /\ price \in [Askers -> Moments]

PriceInit ==
  /\ clock = 0 /\ cache = NoPrice
  /\ ask = [a \in Askers |-> "idle"]
  /\ began = [a \in Askers |-> Never] /\ price = began

-----------------------------------------------------------------------------
\* A request is answered or fails before its timeout.  What has been returned is
\* used before the clock moves.
Tick ==
  /\ clock < MaxTime
  /\ \A a \in Askers :
       /\ ask[a] # "returned"
       /\ ask[a] \in {"waiting", "quoted"} => clock < began[a] + Timeout
  /\ clock' = clock + 1
  /\ UNCHANGED <<cache, ask, began, price>>

\* Mutant: off by one.
FreshLonger == clock - cache.timestamp <= CacheTtl

Fresh == clock - cache.timestamp < CacheTtl

AskPrice(a) ==
  /\ ask[a] = "idle"
  /\ IF cache # NoPrice /\ Fresh
     THEN /\ ask' = [ask EXCEPT ![a] = "returned"]
          /\ price' = [price EXCEPT ![a] = cache.value]
          /\ UNCHANGED began
     ELSE /\ ask' = [ask EXCEPT ![a] = "waiting"]
          /\ began' = [began EXCEPT ![a] = clock]
          /\ UNCHANGED price
  /\ UNCHANGED <<clock, cache>>

Quote(a) ==
  /\ ask[a] = "waiting"
  /\ price' = [price EXCEPT ![a] = clock]
  /\ ask' = [ask EXCEPT ![a] = "quoted"]
  /\ UNCHANGED <<clock, cache, began>>

Stamp(a) == began[a]

Arrive(a) ==
  /\ ask[a] = "quoted"
  /\ cache' = [value |-> price[a], timestamp |-> Stamp(a)]
  /\ ask' = [ask EXCEPT ![a] = "returned"]
  /\ UNCHANGED <<clock, began, price>>

\* The caller has its price, or its request failed and the error went to it.
Done(a) ==
  /\ ask[a] # "idle"
  /\ ask' = [ask EXCEPT ![a] = "idle"]
  /\ began' = [began EXCEPT ![a] = Never]
  /\ price' = [price EXCEPT ![a] = Never]
  /\ UNCHANGED <<clock, cache>>

PriceNext ==
  \/ Tick
  \/ \E a \in Askers : AskPrice(a) \/ Quote(a) \/ Arrive(a) \/ Done(a)

PriceSpec == PriceInit /\ [][PriceNext]_priceVars

-----------------------------------------------------------------------------
\* However slow the answers and in whatever order they come: a price that is
\* used was quoted less than CACHE_TTL ago, or during the request for it.
PriceIsYoung ==
  \A a \in Askers :
    ask[a] = "returned" =>
      \/ clock - price[a] < CacheTtl
      \/ began[a] # Never /\ price[a] >= began[a] /\ clock - price[a] <= Timeout
=============================================================================
