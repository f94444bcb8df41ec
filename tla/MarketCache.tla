---------------------------- MODULE MarketCache ----------------------------
(***************************************************************************)
(* The markets of the sports pages: the store of each browser              *)
(* (store/MarketsStore.ts) asks fetchMarketsMapper of                      *)
(* sports/sports.service.ts, which asks the markets API.  The service      *)
(* keeps one answer and one hash for all networks and queries, a browser   *)
(* one list and one hash for all its filters.  A request carries the hash  *)
(* of the browser, or else that of the service, and the API answers "no    *)
(* change" if it is the hash of what it would answer.                      *)
(***************************************************************************)
EXTENDS Integers, FiniteSets

CONSTANTS Queries,    \* networks and filters
          Empty,      \* the queries that find no market
          Browsers,
          Fetches,    \* slots for the requests of each browser
          MaxVersion, \* bound on the changes of the markets
          MaxFetches, \* bound on the requests of a behaviour
          NoMarkets, NoChange

\* The markets of a query in one version; they also stand for their hash.
Markets == [query: Queries, version: 0 .. MaxVersion]

ASSUME MarketAssumption ==
  /\ Empty \subseteq Queries /\ MaxVersion \in Nat /\ MaxFetches \in Nat
  /\ NoMarkets \notin Markets /\ NoChange \notin Markets

VARIABLES version,    \* how often the markets have changed
          cachedData, cachedHash, \* of the service
          store,      \* markets and responseHash of each browser
          fetch,      \* what each slot has under way
          fetches,    \* requests so far
          mixed,      \* slots in whose time the service got another answer, or
                      \* whose request carried a hash that was not the service's
                      \* (history)
          undone      \* browsers whose list an empty answer set back to one from
                      \* before another answer (history)

marketVars == <<version, cachedData, cachedHash, store, fetch, fetches, mixed, undone>>

Slots == Browsers \X Fetches
Idle == [step |-> "idle", query |-> CHOOSE q \in Queries : TRUE, hash |-> NoMarkets,
         prev |-> NoMarkets, answer |-> NoMarkets, current |-> NoMarkets,
         crossed |-> FALSE]

MarketInit ==
  /\ version = 0 /\ cachedData = NoMarkets /\ cachedHash = NoMarkets
  /\ store = [b \in Browsers |-> [markets |-> NoMarkets, hash |-> NoMarkets]]
  /\ fetch = [f \in Slots |-> Idle]
  /\ fetches = 0 /\ mixed = {} /\ undone = {}

-----------------------------------------------------------------------------
MarketsChange ==
  /\ version < MaxVersion
  /\ version' = version + 1
  /\ UNCHANGED <<cachedData, cachedHash, store, fetch, fetches, mixed, undone>>

\* fetchMarkets keeps the list it found, and its hash overrides the service's.
SendFetch(b, f, q) ==
  /\ fetch[<<b, f>>] = Idle /\ fetches < MaxFetches
  /\ fetches' = fetches + 1
  /\ LET own == store[b].hash IN
       /\ fetch' = [fetch EXCEPT ![<<b, f>>].step = "sent", ![<<b, f>>].query = q,
            ![<<b, f>>].hash = IF own # NoMarkets THEN own ELSE cachedHash,
            ![<<b, f>>].prev = store[b].markets]
       /\ mixed' = IF own \in {NoMarkets, cachedHash} THEN mixed \ {<<b, f>>}
                   ELSE mixed \cup {<<b, f>>}
  /\ UNCHANGED <<version, cachedData, cachedHash, store, undone>>

ApiAnswers(s) ==
  /\ fetch[s].step = "sent"
  /\ LET m == [query |-> fetch[s].query, version |-> version] IN
       fetch' = [fetch EXCEPT ![s].step = "answered", ![s].current = m,
                   ![s].answer = IF fetch[s].hash = m THEN NoChange ELSE m]
  /\ UNCHANGED <<version, cachedData, cachedHash, store, fetches, mixed, undone>>

\* Mutant: only the first hash is kept.
FirstHash(m) == IF cachedHash = NoMarkets THEN m ELSE cachedHash

NewHash(m) == m

\* fetchMarketsMapper returns what is in the cache then.
Receive(s) ==
  /\ fetch[s].step = "answered"
  /\ IF fetch[s].answer = NoChange
     THEN /\ fetch' = [fetch EXCEPT ![s].step = "returned", ![s].answer = cachedData]
          /\ UNCHANGED <<cachedData, cachedHash, mixed>>
     ELSE /\ cachedData' = fetch[s].answer
          /\ cachedHash' = NewHash(fetch[s].answer)
          /\ mixed' = mixed \cup {t \in Slots \ {s} : fetch[t].step \in {"sent", "answered"}}
          /\ fetch' = [fetch EXCEPT ![s].step = "returned"]
  /\ UNCHANGED <<version, store, fetches, undone>>

\* "No market changes -- reusing cached markets": the list is the one that was
\* there when the request was sent.
Reused(b, s) == [store[b] EXCEPT !.markets = fetch[s].prev]

Show(b, f) ==
  LET s == <<b, f>> IN
  /\ fetch[s].step = "returned"
  /\ LET m == fetch[s].answer
         keep == m = NoMarkets \/ (m # NoMarkets /\ m.query \in Empty) IN
       /\ store' = [store EXCEPT ![b] = IF keep THEN Reused(b, s)
                                        ELSE [markets |-> m, hash |-> m]]
       /\ undone' = IF ~keep THEN undone \ {b}
                    ELSE IF fetch[s].crossed THEN undone \cup {b} ELSE undone
       /\ fetch' = [t \in Slots |->
            IF t = s THEN Idle
            ELSE IF t[1] = b /\ fetch[t].step # "idle" /\ store'[b] # store[b]
            THEN [fetch[t] EXCEPT !.crossed = TRUE] ELSE fetch[t]]
  /\ UNCHANGED <<version, cachedData, cachedHash, fetches, mixed>>

\* The request fails: only the error is set.
MarketsFail(s) ==
  /\ fetch[s].step # "idle"
  /\ fetch' = [fetch EXCEPT ![s] = Idle]
  /\ UNCHANGED <<version, cachedData, cachedHash, store, fetches, mixed, undone>>

MarketNext ==
  \/ MarketsChange
  \/ \E b \in Browsers, f \in Fetches :
       Show(b, f) \/ \E q \in Queries : SendFetch(b, f, q)
  \/ \E s \in Slots : ApiAnswers(s) \/ Receive(s) \/ MarketsFail(s)

MarketSpec == MarketInit /\ [][MarketNext]_marketVars

-----------------------------------------------------------------------------
\* "No change in sports data, using cached version": what the service returns are
\* the markets the API had for the query, unless the answer to another request
\* came meanwhile or the request named another list than the one in the cache.
ReturnsWhatApiHad ==
  \A s \in Slots : fetch[s].step = "returned"
                     => s \in mixed \/ fetch[s].answer = fetch[s].current

\* The hash a browser sends is that of the list it shows, unless a request that
\* found no markets has put back the list from before another answer.
HashFitsList ==
  \A b \in Browsers : store[b].markets = store[b].hash \/ b \in undone

\* What the service returns and what a browser shows was once one list of the API.
AnswersFit == ReturnsWhatApiHad /\ HashFitsList
=============================================================================
