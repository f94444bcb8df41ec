---------------------------- MODULE UpkeepProofs ----------------------------
(***************************************************************************)
(* What is kept up beside the money, for any number of runs, callers and   *)
(* requests: the boards, the files of a start, the endpoints of a chain, a *)
(* price and the game lists of a browser, one after the other.             *)
(***************************************************************************)
EXTENDS MCUpkeep, TLAPS

-----------------------------------------------------------------------------
(* The price.  That a price is never older than its stamp says makes the   *)
(* bound inductive: it is why the stamp must be taken before the request   *)
(* and not when the answer comes.                                          *)

\* The kept price was quoted no earlier than its stamp says.
StampIsEarlier == cache.timestamp <= cache.value /\ cache.value <= clock

\* A request that is under way has not run into its timeout, and its price was
\* quoted after it began.
InTime ==
  \A a \in Askers :
    /\ ask[a] \in {"waiting", "quoted"} =>
         0 <= began[a] /\ began[a] <= clock /\ clock <= began[a] + Timeout
    /\ ask[a] = "quoted" => began[a] <= price[a] /\ price[a] <= clock

PriceInv == PriceTypeOK /\ StampIsEarlier /\ InTime /\ PriceIsYoung

LEMMA InitPriceInv == PriceInit => PriceInv
  BY PriceAssumption
  DEF PriceInit, PriceInv, PriceTypeOK, StampIsEarlier, InTime, PriceIsYoung,
      NoPrice, Never, Moments

LEMMA TickKeeps == ASSUME PriceInv, Tick PROVE PriceInv'
  BY PriceAssumption
  DEF Tick, PriceInv, PriceTypeOK, StampIsEarlier, InTime, PriceIsYoung, Never,
      Moments

LEMMA AskKeeps ==
  ASSUME PriceInv, NEW a \in Askers, AskPrice(a) PROVE PriceInv'
<1> USE PriceAssumption DEF AskPrice, Fresh, Never, Moments
<1>1. PriceTypeOK'
  BY DEF PriceInv, PriceTypeOK
<1>2. StampIsEarlier'
  BY DEF PriceInv, StampIsEarlier
<1>3. InTime'
  BY DEF PriceInv, PriceTypeOK, InTime
<1>4. PriceIsYoung'
  BY DEF PriceInv, PriceTypeOK, StampIsEarlier, PriceIsYoung
<1> QED BY <1>1, <1>2, <1>3, <1>4 DEF PriceInv

LEMMA QuoteKeeps ==
  ASSUME PriceInv, NEW a \in Askers, Quote(a) PROVE PriceInv'
  BY PriceAssumption
  DEF Quote, PriceInv, PriceTypeOK, StampIsEarlier, InTime, PriceIsYoung, Never,
      Moments

LEMMA ArriveKeeps ==
  ASSUME PriceInv, NEW a \in Askers, Arrive(a) PROVE PriceInv'
<1> USE PriceAssumption DEF Arrive, Stamp, Never, Moments
<1>1. PriceTypeOK'
  BY DEF PriceInv, PriceTypeOK
<1>2. StampIsEarlier'
  BY DEF PriceInv, PriceTypeOK, InTime, StampIsEarlier
<1>3. InTime'
  BY DEF PriceInv, PriceTypeOK, InTime
<1>4. PriceIsYoung'
  BY DEF PriceInv, PriceTypeOK, InTime, PriceIsYoung
<1> QED BY <1>1, <1>2, <1>3, <1>4 DEF PriceInv

LEMMA DoneKeeps ==
  ASSUME PriceInv, NEW a \in Askers, Done(a) PROVE PriceInv'
  BY PriceAssumption
  DEF Done, PriceInv, PriceTypeOK, StampIsEarlier, InTime, PriceIsYoung, Never,
      Moments

LEMMA StutterKeeps == ASSUME PriceInv, UNCHANGED priceVars PROVE PriceInv'
  BY DEF PriceInv, PriceTypeOK, StampIsEarlier, InTime, PriceIsYoung, priceVars

LEMMA PriceStep == PriceInv /\ [PriceNext]_priceVars => PriceInv'
  BY TickKeeps, AskKeeps, QuoteKeeps, ArriveKeeps, DoneKeeps, StutterKeeps
  DEF PriceNext

LEMMA PriceInvariant == PriceSpec => []PriceInv
  BY InitPriceInv, PriceStep, PTL DEF PriceSpec

\* A price that getTokenUsdPrice returns was quoted less than CACHE_TTL ago or
\* during the request for it, whatever the number of callers, the lifetime and
\* the timeout.
THEOREM PricesYoung == PriceSpec => []PriceIsYoung
<1>1. PriceInv => PriceIsYoung
  BY DEF PriceInv
<1> QED BY <1>1, PriceInvariant, PTL

-----------------------------------------------------------------------------
(* The files of a start                                                    *)

\* A start that fetches game lists has asked for each one before the present.
ListsSoFar ==
  boot = "games" =>
    /\ file /\ fetching \in 1 .. Len(Providers)
    /\ \A i \in 1 .. fetching - 1 :
         Providers[i] \in WithGames => Providers[i] \in gameLists

\* When it is over, it has asked for all of them or has stopped early.
ListsAfter ==
  /\ boot # "games" => fetching = 1
  /\ boot # "games" /\ file => gameLists = WithGames \/ unfinished

BootInv == BootstrapTypeOK /\ ListsSoFar /\ ListsAfter

LEMMA ProviderFacts ==
  /\ Len(Providers) \in Nat
  /\ WithGames \subseteq {Providers[i] : i \in 1 .. Len(Providers)}
<1>1. Providers \in Seq(ToSet(Providers))
  BY BootstrapAssumption
<1>2. Len(Providers) \in Nat /\ DOMAIN Providers = 1 .. Len(Providers)
  BY <1>1
<1>3. ToSet(Providers) = {Providers[i] : i \in 1 .. Len(Providers)}
  BY <1>2 DEF ToSet
<1> QED BY <1>2, <1>3, BootstrapAssumption

LEMMA ProvidersEmpty ==
  IF Providers = << >> THEN WithGames = {} ELSE Len(Providers) >= 1
<1>1. Providers \in Seq(ToSet(Providers))
  BY BootstrapAssumption
<1>2. CASE Providers = << >>
  <2>1. Len(Providers) = 0
    BY <1>2
  <2> QED BY <1>2, <2>1, ProviderFacts
<1>3. CASE Providers # << >>
  BY <1>1, <1>3
<1> QED BY <1>2, <1>3

LEMMA ProvidersLen == Len(Providers) \in Nat
  BY ProviderFacts

LEMMA RetriesCuts == MaxRetries \in Nat /\ MaxCuts \in Nat
  BY BootstrapAssumption

LEMMA InitBootInv == BootstrapInit => BootInv
<1> SUFFICES ASSUME BootstrapInit PROVE BootInv
  OBVIOUS
<1>1. BootstrapTypeOK
  <2>1. attempt \in 0 .. MaxRetries /\ cuts \in 0 .. MaxCuts
    BY RetriesCuts DEF BootstrapInit
  <2>2. fetching \in 1 .. Len(Providers) + 1
    BY ProvidersLen DEF BootstrapInit
  <2> QED BY <2>1, <2>2, Zenon DEF BootstrapInit, BootstrapTypeOK
<1> QED BY <1>1 DEF BootstrapInit, BootInv, ListsSoFar, ListsAfter

LEMMA FetchGamesKeeps ==
  ASSUME BootInv, FetchGames PROVE BootInv'
<1> USE DEF BootInv, FetchGames
<1> DEFINE p == Providers[fetching]
<1>1. /\ boot = "games" /\ file /\ file' /\ fetching \in 1 .. Len(Providers)
      /\ Len(Providers) \in Nat
      /\ gameLists' = IF p \in WithGames THEN gameLists \cup {p} ELSE gameLists
  BY ProviderFacts DEF ListsSoFar
<1>2. \A i \in 1 .. fetching :
        Providers[i] \in WithGames => Providers[i] \in gameLists'
  BY <1>1 DEF ListsSoFar
<1>3. gameLists' \subseteq WithGames
  BY <1>1 DEF BootstrapTypeOK
<1>4. CASE GoesOn(p)
  <2>1. boot' = "games" /\ fetching' = fetching + 1 /\ fetching < Len(Providers)
    BY <1>1, <1>4 DEF GoesOn
  <2>2. BootstrapTypeOK'
    BY <1>1, <1>3, <2>1, BootstrapAssumption DEF BootstrapTypeOK
  <2>3. ListsSoFar'
    BY <1>1, <1>2, <2>1 DEF ListsSoFar
  <2> QED BY <2>1, <2>2, <2>3 DEF ListsAfter
<1>5. CASE ~GoesOn(p)
  <2>1. boot' = "up" /\ fetching' = 1 /\ fetching = Len(Providers)
    BY <1>1, <1>5 DEF GoesOn
  <2>2. BootstrapTypeOK'
    BY <1>1, <1>3, <2>1, BootstrapAssumption DEF BootstrapTypeOK
  <2>3. WithGames \subseteq gameLists'
    BY <1>2, <2>1, ProviderFacts
  <2>4. ListsAfter'
    BY <1>3, <2>1, <2>3 DEF ListsAfter
  <2> QED BY <2>1, <2>2, <2>4 DEF ListsSoFar
<1> QED BY <1>4, <1>5

LEMMA BootStep == BootInv /\ [BootstrapNext]_bootVars => BootInv'
<1> SUFFICES ASSUME BootInv, [BootstrapNext]_bootVars PROVE BootInv'
  OBVIOUS
<1> USE RetriesCuts, ProvidersLen
        DEF BootInv, BootstrapTypeOK, ListsSoFar, ListsAfter
<1>1. CASE StartUp \/ RebuildEnds \/ EndRace \/ CheckFile \/ UNCHANGED bootVars
  <2>1. /\ UNCHANGED <<file, gameLists, fetching, attempt, cuts, unfinished>>
        /\ boot' = boot \/ (boot # "games" /\ boot' # "games")
    BY <1>1, Zenon DEF StartUp, RebuildEnds, EndRace, CheckFile, bootVars
  <2>2. BootstrapTypeOK'
    BY <1>1, <2>1, Zenon DEF StartUp, RebuildEnds, EndRace, CheckFile, bootVars
  <2> QED BY <2>1, <2>2
<1>2. CASE FetchProviders
  BY <1>2, ProvidersEmpty DEF FetchProviders
<1>3. CASE FetchGames
  BY <1>3, FetchGamesKeeps
<1>4. CASE FetchFails
  BY <1>4 DEF FetchFails, MayRetry
<1>5. CASE Crash
  <2>1. /\ boot' = "down" /\ fetching' = 1 /\ file' = file
        /\ gameLists' = gameLists /\ unfinished' = (unfinished \/ boot = "games")
    BY <1>5 DEF Crash
  <2>2. BootstrapTypeOK'
    <3>1. attempt' \in 0 .. MaxRetries /\ cuts' \in 0 .. MaxCuts
      BY <1>5 DEF Crash
    <3>2. fetching' \in 1 .. Len(Providers) + 1
      BY <2>1
    <3>3. rebuild' = FALSE
      BY <1>5 DEF Crash
    <3> QED BY <2>1, <3>1, <3>2, <3>3, Zenon
  <2>3. ListsAfter' /\ ListsSoFar'
    BY <2>1, Zenon
  <2> QED BY <2>2, <2>3
<1> QED BY <1>1, <1>2, <1>3, <1>4, <1>5 DEF BootstrapNext, Startup

\* A server that listens and has the file of providers has every game list,
\* unless a start stopped in between, for any providers, retries and crashes.
THEOREM ListsAreComplete == BootstrapSpec => []ListsComplete
<1>1. BootInv => ListsComplete
  BY DEF BootInv, ListsAfter, ListsComplete
<1> QED BY <1>1, InitBootInv, BootStep, PTL DEF BootstrapSpec

-----------------------------------------------------------------------------
(* The endpoints of a chain                                                *)

Entries == [rpcs: {Chainlist, Fallback} \ {<< >>}, index: Nat \ {0}]

RpcLists ==
  /\ lists \in Seq(Entries) /\ Len(lists) <= MaxLists
  /\ \A i \in DOMAIN lists : lists[i].index <= Len(lists[i].rpcs)
  /\ valid \in BOOLEAN /\ (valid => Len(lists) >= 1)

UsesList(c) == rpc[c] \in {"try", "test", "returned"}

RpcCalls ==
  /\ rpc \in [Callers -> {"idle", "fetch", "try", "test", "returned", "thrown"}]
  /\ mine \in [Callers -> 0 .. MaxLists] /\ attempts \in [Callers -> Nat]
  /\ \A c \in Callers :
       /\ UsesList(c) => mine[c] \in DOMAIN lists
       /\ rpc[c] \in {"idle", "fetch"} => attempts[c] = 0

RpcUrls ==
  /\ alive \subseteq Endpoints
  /\ testing \in [Callers -> Endpoints \cup {NoUrl}]
  /\ result \in [Callers -> Endpoints \cup {NoUrl}]
  /\ rpcCalls \in 0 .. MaxCalls /\ helped \subseteq Callers

\* How many steps ago the index of entry e, now at its place, stood at j.
Behind(e, j) == IF e.index > j THEN e.index - j
                ELSE e.index - j + Len(e.rpcs)

\* A caller whose index nobody else moved has found dead what it has tried, and
\* is testing what the index has just left.
Tried(c) ==
  LET e == lists[mine[c]] IN
  /\ rpc[c] = "try" =>
       /\ attempts[c] <= Len(e.rpcs)
       /\ \A j \in 1 .. Len(e.rpcs) :
            Behind(e, j) <= attempts[c] => e.rpcs[j] \notin alive
  /\ rpc[c] = "test" =>
       /\ attempts[c] < Len(e.rpcs)
       /\ \A j \in 1 .. Len(e.rpcs) :
            /\ Behind(e, j) = 1 => testing[c] = e.rpcs[j]
            /\ 1 < Behind(e, j) /\ Behind(e, j) <= attempts[c] + 1 =>
                 e.rpcs[j] \notin alive

GoesRound == \A c \in Callers \ helped : Tried(c)

RpcInv == RpcLists /\ RpcCalls /\ RpcUrls /\ GoesRound /\ AloneFindsWorking

LEMMA RpcFacts ==
  /\ MaxLists \in Nat \ {0} /\ MaxCalls \in Nat
  /\ \A l \in {Chainlist, Fallback} \ {<< >>} :
       l \in Seq(Endpoints) /\ Len(l) \in Nat \ {0}
<1>1. {Chainlist, Fallback} \subseteq Seq(Endpoints)
  BY RpcAssumption DEF Endpoints
<1>2. ASSUME NEW l \in Seq(Endpoints), l # << >> PROVE Len(l) \in Nat \ {0}
  BY <1>2
<1> QED BY <1>1, <1>2, RpcAssumption

\* What an entry of the cache is.
LEMMA EntryFacts ==
  ASSUME RpcLists, NEW i \in DOMAIN lists
  PROVE  /\ lists[i] \in Entries /\ lists[i].rpcs \in Seq(Endpoints)
         /\ Len(lists[i].rpcs) \in Nat
         /\ lists[i].index \in 1 .. Len(lists[i].rpcs)
         /\ \A j \in 1 .. Len(lists[i].rpcs) : lists[i].rpcs[j] \in Endpoints
<1>1. lists[i] \in Entries
  BY DEF RpcLists
<1>2. lists[i].rpcs \in Seq(Endpoints) /\ Len(lists[i].rpcs) \in Nat \ {0}
  BY <1>1, RpcFacts DEF Entries
<1>3. lists[i].index \in 1 .. Len(lists[i].rpcs)
  BY <1>1, <1>2 DEF RpcLists, Entries
<1> QED BY <1>1, <1>2, <1>3

\* The step of the index goes round the list.
LEMMA NextIndexFacts ==
  ASSUME NEW n \in Nat, NEW x \in 1 .. n
  PROVE  (x % n) + 1 = IF x = n THEN 1 ELSE x + 1
<1>1. CASE x = n
  BY <1>1
<1>2. CASE x < n
  BY <1>2
<1> QED BY <1>1, <1>2

\* An endpoint is behind the index by one more when it has moved, and the one it
\* left is behind it by one.
LEMMA BehindNext ==
  ASSUME RpcLists, NEW i \in DOMAIN lists, NEW f,
         f.rpcs = lists[i].rpcs, f.index = NextIndex(lists[i]),
         NEW j \in 1 .. Len(lists[i].rpcs)
  PROVE  /\ f.index \in 1 .. Len(lists[i].rpcs)
         /\ j = lists[i].index => Behind(f, j) = 1
         /\ j # lists[i].index => Behind(f, j) = Behind(lists[i], j) + 1
         /\ Behind(lists[i], j) \in 1 .. Len(lists[i].rpcs)
<1> DEFINE n == Len(lists[i].rpcs)
           x == lists[i].index
<1>1. n \in Nat /\ x \in 1 .. n
  BY EntryFacts
<1>2. f.index = IF x = n THEN 1 ELSE x + 1
  BY <1>1, NextIndexFacts DEF NextIndex
<1> HIDE DEF n, x
<1>3. /\ Behind(f, j) = IF f.index > j THEN f.index - j ELSE f.index - j + n
      /\ Behind(lists[i], j) = IF x > j THEN x - j ELSE x - j + n
  BY DEF Behind, n, x
<1>4. j \in 1 .. n
  BY DEF n
<1>5. /\ f.index \in 1 .. n
      /\ j = x => Behind(f, j) = 1
      /\ j # x => Behind(f, j) = Behind(lists[i], j) + 1
      /\ Behind(lists[i], j) \in 1 .. n
  BY <1>1, <1>2, <1>3, <1>4
<1> QED BY <1>5 DEF n, x

LEMMA InitRpcInv == RpcInit => RpcInv
<1> SUFFICES ASSUME RpcInit PROVE RpcInv
  OBVIOUS
<1>1. RpcLists
  <2>1. lists \in Seq(Entries) /\ Len(lists) = 0 /\ valid = FALSE
    BY DEF RpcInit
  <2>2. DOMAIN lists = {}
    BY <2>1
  <2>3. Len(lists) <= MaxLists /\ ~valid
    BY <2>1, RpcFacts
  <2> QED BY <2>1, <2>2, <2>3, Zenon DEF RpcLists
<1>2. RpcCalls
  BY RpcFacts DEF RpcInit, RpcCalls, UsesList
<1>3. RpcUrls
  BY RpcFacts DEF RpcInit, RpcUrls
<1>4. GoesRound /\ AloneFindsWorking
  BY DEF RpcInit, GoesRound, Tried, AloneFindsWorking
<1> QED BY <1>1, <1>2, <1>3, <1>4 DEF RpcInv

\* The steps that leave the lists alone: the caller goes on, or a list expires.
LEMMA SameListsKeep ==
  ASSUME RpcInv, NEW c \in Callers,
         CallRpc(c) \/ TestEnds(c) \/ GiveUp(c) \/ TakeUrl(c)
  PROVE  RpcInv'
<1> USE DEF RpcInv
<1>1. lists' = lists /\ valid' = valid /\ alive' = alive
  BY DEF CallRpc, TestEnds, GiveUp, TakeUrl
<1>2. RpcLists'
  BY <1>1 DEF RpcLists
<1>3. /\ Len(lists) \in Nat /\ DOMAIN lists = 1 .. Len(lists)
      /\ Len(lists) \in 0 .. MaxLists
  BY RpcFacts DEF RpcLists
<1>4. RpcCalls'
  <2>1. CASE CallRpc(c)
    BY <1>1, <1>3, <2>1, RpcFacts DEF CallRpc, RpcCalls, RpcLists, UsesList
  <2>2. CASE TestEnds(c)
    <3>1. /\ rpc' \in [Callers -> {"idle", "fetch", "try", "test", "returned",
                                  "thrown"}]
          /\ attempts' \in [Callers -> Nat] /\ mine' = mine
      BY <2>2 DEF TestEnds, RpcCalls
    <3>2. ASSUME NEW d \in Callers
          PROVE  /\ UsesList(d)' => UsesList(d)
                 /\ rpc'[d] \in {"idle", "fetch"} =>
                      rpc[d] \in {"idle", "fetch"} /\ attempts'[d] = attempts[d]
      BY <2>2 DEF TestEnds, RpcCalls, UsesList
    <3> QED BY <1>1, <3>1, <3>2 DEF RpcCalls
  <2>3. CASE GiveUp(c)
    BY <1>1, <1>3, <2>3 DEF GiveUp, RpcCalls, UsesList
  <2>4. CASE TakeUrl(c)
    BY <1>1, <1>3, <2>4, RpcFacts DEF TakeUrl, RpcCalls, UsesList
  <2> QED BY <2>1, <2>2, <2>3, <2>4
<1>5. RpcUrls'
  <2>1. CASE CallRpc(c)
    BY <2>1, RpcFacts DEF CallRpc, RpcUrls
  <2>2. CASE TestEnds(c)
    BY <2>2 DEF TestEnds, RpcUrls
  <2>3. CASE GiveUp(c)
    <3>0. mine[c] \in DOMAIN lists
      BY <2>3 DEF GiveUp, RpcCalls, UsesList
    <3>1. lists[mine[c]].rpcs[1] \in Endpoints
      BY <3>0, EntryFacts
    <3> QED BY <2>3, <3>1 DEF GiveUp, RpcUrls
  <2>4. CASE TakeUrl(c)
    BY <2>4 DEF TakeUrl, RpcUrls
  <2> QED BY <2>1, <2>2, <2>3, <2>4
<1>6. ASSUME NEW d \in Callers \ {c}
      PROVE  /\ rpc'[d] = rpc[d] /\ mine'[d] = mine[d] /\ attempts'[d] = attempts[d]
             /\ testing'[d] = testing[d] /\ result'[d] = result[d]
             /\ d \in helped' <=> d \in helped
  BY DEF CallRpc, TestEnds, GiveUp, TakeUrl, RpcCalls, RpcUrls
<1>7. GoesRound'
  <2> SUFFICES ASSUME NEW d \in Callers, d \notin helped' PROVE Tried(d)'
    BY DEF GoesRound
  <2>1. CASE d # c
    <3>1. Tried(d)
      BY <1>6, <2>1 DEF GoesRound
    <3> QED BY <1>1, <1>6, <2>1, <3>1 DEF Tried, Behind
  <2>2. CASE d = c
    <3>1. CASE CallRpc(c)
      <4>1. rpc'[c] \in {"try", "fetch"} /\ attempts'[c] = 0
        BY <3>1 DEF CallRpc, RpcCalls
      <4>2. rpc'[c] = "try" => mine'[c] \in DOMAIN lists
        BY <1>1, <1>4, <4>1 DEF RpcCalls, UsesList
      <4>3. ASSUME rpc'[c] = "try", NEW j \in 1 .. Len(lists[mine'[c]].rpcs)
            PROVE  Behind(lists[mine'[c]], j) >= 1
        BY <4>2, <4>3, EntryFacts DEF Behind
      <4>4. rpc'[c] = "try" => Len(lists[mine'[c]].rpcs) \in Nat
        BY <4>2, EntryFacts
      <4>5. ASSUME rpc'[c] = "try", NEW j \in 1 .. Len(lists[mine'[c]].rpcs)
            PROVE  ~(Behind(lists[mine'[c]], j) <= 0)
        <5>1. Behind(lists[mine'[c]], j) \in Int
          BY <4>2, <4>5, EntryFacts DEF Behind
        <5> QED BY <4>3, <4>5, <5>1
      <4>6. rpc'[c] = "try" => 0 <= Len(lists[mine'[c]].rpcs)
        BY <4>4
      <4> QED BY <1>1, <2>2, <4>1, <4>5, <4>6 DEF Tried
    <3>2. CASE TestEnds(c)
      <4> DEFINE e == lists[mine[c]]
      <4>1. mine[c] \in DOMAIN lists /\ attempts[c] \in Nat
        BY <3>2 DEF TestEnds, RpcCalls, UsesList
      <4>2. rpc[c] = "test" /\ Tried(c)
        BY <2>2, <3>2 DEF TestEnds, GoesRound
      <4>3. CASE testing[c] \in alive
        <5>1. rpc'[c] = "returned"
          BY <3>2, <4>3 DEF TestEnds, RpcCalls
        <5> QED BY <2>2, <5>1 DEF Tried
      <4>4. CASE testing[c] \notin alive
        <5>1. rpc'[c] = "try" /\ attempts'[c] = attempts[c] + 1 /\ mine'[c] = mine[c]
          BY <3>2, <4>4 DEF TestEnds, RpcCalls
        <5>2. \A j \in 1 .. Len(e.rpcs) : Behind(e, j) \in Int /\ Behind(e, j) >= 1
          BY <4>1, EntryFacts DEF Behind
        <5>3. \A j \in 1 .. Len(e.rpcs) :
                Behind(e, j) <= attempts[c] + 1 => e.rpcs[j] \notin alive
          BY <4>1, <4>2, <4>4, <5>2 DEF Tried
        <5>4. attempts[c] + 1 <= Len(e.rpcs)
          BY <4>1, <4>2, EntryFacts DEF Tried
        <5> QED BY <1>1, <2>2, <5>1, <5>3, <5>4 DEF Tried, Behind
      <4> QED BY <4>3, <4>4
    <3>3. CASE GiveUp(c) \/ TakeUrl(c)
      BY <2>2, <3>3 DEF GiveUp, TakeUrl, RpcCalls, Tried
    <3> QED BY <3>1, <3>2, <3>3
  <2> QED BY <2>1, <2>2
<1>8. AloneFindsWorking'
  <2> SUFFICES ASSUME NEW d \in Callers, rpc'[d] = "returned",
                      result'[d] \notin alive, d \notin helped'
               PROVE  ToSet(lists[mine'[d]].rpcs) \cap alive = {}
    BY <1>1 DEF AloneFindsWorking
  <2>1. CASE d # c
    BY <1>6, <2>1 DEF AloneFindsWorking
  <2>2. CASE d = c
    <3>1. GiveUp(c)
      BY <2>2 DEF CallRpc, TestEnds, GiveUp, TakeUrl, RpcCalls, RpcUrls
    <3> DEFINE e == lists[mine[c]]
    <3>2. mine[c] \in DOMAIN lists /\ rpc[c] = "try" /\ attempts[c] \in Nat
      BY <3>1 DEF GiveUp, RpcCalls, UsesList
    <3>3. Tried(c) /\ mine' = mine
      BY <2>2, <3>1 DEF GiveUp, GoesRound
    <3>4. attempts[c] >= Len(e.rpcs)
      BY <3>1 DEF GiveUp, TriedAll
    <3>5. \A j \in 1 .. Len(e.rpcs) : Behind(e, j) \in Int /\ Behind(e, j) <= Len(e.rpcs)
      BY <3>2, EntryFacts DEF Behind
    <3>6. \A j \in 1 .. Len(e.rpcs) : e.rpcs[j] \notin alive
      BY <3>2, <3>3, <3>4, <3>5, EntryFacts DEF Tried
    <3>7. DOMAIN e.rpcs = 1 .. Len(e.rpcs)
      BY <3>2, EntryFacts
    <3> QED BY <2>2, <3>3, <3>6, <3>7 DEF ToSet
  <2> QED BY <2>1, <2>2
<1> QED BY <1>2, <1>4, <1>5, <1>7, <1>8

LEMMA ExpireListKeeps == ASSUME RpcInv, ExpireList PROVE RpcInv'
<1> USE DEF RpcInv, ExpireList
<1>1. RpcLists'
  BY DEF RpcLists
<1>2. (RpcCalls /\ RpcUrls)'
  BY DEF RpcCalls, RpcUrls, UsesList
<1>3. GoesRound'
  BY DEF GoesRound, Tried, Behind
<1>4. AloneFindsWorking'
  BY DEF AloneFindsWorking
<1> QED BY <1>1, <1>2, <1>3, <1>4

\* The entries there are stay what they are when a list joins them.
LEMMA LoadListKeeps ==
  ASSUME RpcInv, NEW c \in Callers, LoadList(c) PROVE RpcInv'
<1> USE DEF RpcInv
<1>1. rpc[c] = "fetch" /\ attempts[c] = 0
  BY DEF LoadList, RpcCalls
<1>2. PICK l \in {Chainlist, Fallback} :
       IF l = << >>
       THEN /\ rpc' = [rpc EXCEPT ![c] = "thrown"]
            /\ UNCHANGED <<lists, valid, mine>>
       ELSE /\ Len(lists) < MaxLists
            /\ lists' = Append(lists, [rpcs |-> l, index |-> 1])
            /\ valid' = TRUE
            /\ mine' = [mine EXCEPT ![c] = Len(lists) + 1]
            /\ rpc' = [rpc EXCEPT ![c] = "try"]
  BY DEF LoadList
<1>3. RpcUrls' /\ UNCHANGED <<alive, attempts, testing, result, rpcCalls, helped>>
  BY DEF LoadList, RpcUrls
<1>4. ASSUME NEW d \in Callers \ {c}
      PROVE  rpc'[d] = rpc[d] /\ mine'[d] = mine[d]
  BY <1>2 DEF RpcCalls
<1>5. CASE l = << >>
  <2>1. /\ rpc' = [rpc EXCEPT ![c] = "thrown"]
        /\ UNCHANGED <<lists, valid, mine>>
    BY <1>2, <1>5
  <2>2. rpc'[c] = "thrown"
    BY <2>1 DEF RpcCalls
  <2>3. RpcLists' /\ RpcCalls'
    BY <1>3, <1>4, <2>1, <2>2 DEF RpcLists, RpcCalls, UsesList
  <2>4. GoesRound'
    <3> SUFFICES ASSUME NEW d \in Callers, d \notin helped PROVE Tried(d)'
      BY <1>3 DEF GoesRound
    <3>1. Tried(d)
      BY DEF GoesRound
    <3> QED BY <1>3, <1>4, <2>1, <2>2, <3>1 DEF Tried, Behind
  <2>5. AloneFindsWorking'
    BY <1>3, <1>4, <2>1, <2>2 DEF AloneFindsWorking
  <2> QED BY <1>3, <2>3, <2>4, <2>5
<1>6. CASE l # << >>
  <2> DEFINE e == [rpcs |-> l, index |-> 1]
             n == Len(lists) + 1
  <2>1. /\ Len(lists) < MaxLists /\ valid' = TRUE
        /\ lists' = Append(lists, e)
        /\ mine' = [mine EXCEPT ![c] = n]
        /\ rpc' = [rpc EXCEPT ![c] = "try"]
    BY <1>2, <1>6
  <2>2. e \in Entries /\ lists \in Seq(Entries) /\ Len(lists) \in Nat
    BY <1>6 DEF Entries, RpcLists
  <2>3. /\ lists' \in Seq(Entries) /\ Len(lists') = n
        /\ DOMAIN lists' = 1 .. n /\ DOMAIN lists = 1 .. n - 1
        /\ \A i \in DOMAIN lists : lists'[i] = lists[i]
        /\ lists'[n] = e
    BY <2>1, <2>2
  <2>4. Len(l) \in Nat /\ Len(l) >= 1
    BY <1>6, RpcFacts
  <2>5. RpcLists'
    <3>1. \A i \in 1 .. n : i \in DOMAIN lists \/ i = n
      BY <2>2, <2>3
    <3>2. ASSUME NEW i \in 1 .. n
          PROVE  lists'[i].index <= Len(lists'[i].rpcs)
      BY <2>3, <2>4, <3>1 DEF RpcLists
    <3>3. Len(lists') <= MaxLists /\ Len(lists') >= 1 /\ valid'
      BY <2>1, <2>2, <2>3, RpcFacts
    <3> QED BY <2>1, <2>3, <3>2, <3>3 DEF RpcLists
  <2>6. rpc'[c] = "try" /\ mine'[c] = n
    BY <2>1 DEF RpcCalls
  <2>7. RpcCalls'
    <3>1. mine' \in [Callers -> 0 .. MaxLists]
      BY <2>1, <2>2, RpcFacts DEF RpcCalls
    <3>2. \A d \in Callers : UsesList(d)' => mine'[d] \in DOMAIN lists'
      BY <1>4, <2>2, <2>3, <2>6 DEF RpcCalls, UsesList
    <3>3. \A d \in Callers : rpc'[d] \in {"idle", "fetch"} => attempts'[d] = 0
      BY <1>3, <1>4, <2>6 DEF RpcCalls
    <3> QED BY <1>3, <2>1, <3>1, <3>2, <3>3 DEF RpcCalls
  <2>8. ASSUME NEW d \in Callers \ {c}, UsesList(d)
        PROVE  lists'[mine'[d]] = lists[mine[d]]
    BY <1>4, <2>3, <2>8 DEF RpcCalls
  <2>9. GoesRound'
    <3> SUFFICES ASSUME NEW d \in Callers, d \notin helped PROVE Tried(d)'
      BY <1>3 DEF GoesRound
    <3>1. CASE d # c
      <4>1. Tried(d)
        BY DEF GoesRound
      <4> QED BY <1>3, <1>4, <2>8, <3>1, <4>1 DEF Tried, Behind, UsesList
    <3>2. CASE d = c
      <4>1. \A j \in 1 .. Len(l) : ~(Behind(e, j) <= 0)
        BY <2>4 DEF Behind
      <4> QED BY <1>1, <1>3, <2>3, <2>4, <2>6, <3>2, <4>1 DEF Tried
    <3> QED BY <3>1, <3>2
  <2>10. AloneFindsWorking'
    BY <1>3, <1>4, <2>6, <2>8 DEF AloneFindsWorking, UsesList
  <2> QED BY <1>3, <2>5, <2>7, <2>9, <2>10
<1> QED BY <1>5, <1>6

\* The caller moves the index: for those that share the list with it, it is now
\* somebody else's.
LEMMA TryNextKeeps ==
  ASSUME RpcInv, NEW c \in Callers, TryNext(c) PROVE RpcInv'
<1> USE DEF RpcInv
<1> DEFINE i == mine[c]
           e == lists[i]
           f == [e EXCEPT !.index = NextIndex(e)]
<1>1. rpc[c] = "try" /\ attempts[c] < Len(e.rpcs) /\ i \in DOMAIN lists
  <2>1. rpc[c] = "try" /\ i \in DOMAIN lists
    BY DEF TryNext, RpcCalls, UsesList
  <2>2. attempts[c] \in Nat /\ Len(e.rpcs) \in Nat
    BY <2>1, EntryFacts DEF RpcCalls
  <2> QED BY <2>1, <2>2 DEF TryNext, TriedAll
<1>2. /\ testing' = [testing EXCEPT ![c] = e.rpcs[e.index]]
      /\ rpc' = [rpc EXCEPT ![c] = "test"]
      /\ helped' = helped \cup {d \in Callers \ {c} : Trying(d, i)}
      /\ UNCHANGED <<alive, valid, mine, attempts, result, rpcCalls>>
  BY DEF TryNext
<1>3. lists' = [lists EXCEPT ![i] = f]
  BY DEF TryNext
<1>4. /\ e \in Entries /\ e.index \in 1 .. Len(e.rpcs) /\ Len(e.rpcs) \in Nat
      /\ e.rpcs[e.index] \in Endpoints
  BY <1>1, EntryFacts
<1>5. f.rpcs = e.rpcs /\ f.index = NextIndex(e)
  BY <1>4 DEF Entries
<1>6. f.index \in 1 .. Len(e.rpcs) /\ f \in Entries
  <2>1. f.index \in 1 .. Len(e.rpcs)
    BY <1>1, <1>4, <1>5, BehindNext
  <2>2. NextIndex(e) \in Nat \ {0}
    BY <1>4, <1>5, <2>1
  <2> QED BY <1>4, <2>1, <2>2 DEF Entries
<1>7. /\ lists' \in Seq(Entries) /\ Len(lists') = Len(lists)
      /\ DOMAIN lists' = DOMAIN lists /\ lists'[i] = f
      /\ \A k \in DOMAIN lists \ {i} : lists'[k] = lists[k]
  BY <1>1, <1>3, <1>6 DEF RpcLists
<1> HIDE DEF f
<1>8. RpcLists'
  <2>1. ASSUME NEW k \in DOMAIN lists PROVE lists'[k].index <= Len(lists'[k].rpcs)
    BY <1>4, <1>5, <1>6, <1>7 DEF RpcLists
  <2> QED BY <1>2, <1>7, <2>1 DEF RpcLists
<1>9. rpc'[c] = "test" /\ \A d \in Callers \ {c} : rpc'[d] = rpc[d]
  BY <1>2 DEF RpcCalls
<1>10. RpcCalls'
  BY <1>1, <1>2, <1>7, <1>9 DEF RpcCalls, UsesList
<1>11. RpcUrls'
  BY <1>2, <1>4 DEF RpcUrls
<1>12. GoesRound'
  <2> SUFFICES ASSUME NEW d \in Callers, d \notin helped' PROVE Tried(d)'
    BY DEF GoesRound
  <2>1. Tried(d) /\ (d # c => ~Trying(d, i))
    BY <1>2 DEF GoesRound
  <2>2. CASE d # c
    <3>1. rpc[d] \in {"try", "test"} => lists'[mine[d]] = lists[mine[d]]
      BY <1>7, <2>1, <2>2 DEF Trying, RpcCalls, UsesList
    <3>2. testing'[d] = testing[d]
      BY <1>2, <2>2 DEF RpcUrls
    <3> QED BY <1>2, <1>9, <2>1, <2>2, <3>1, <3>2 DEF Tried, Behind
  <2>3. CASE d = c
    <3>1. testing'[c] = e.rpcs[e.index] /\ mine'[c] = i /\ attempts[c] \in Nat
      BY <1>2 DEF RpcUrls, RpcCalls
    <3>2. ASSUME NEW j \in 1 .. Len(e.rpcs)
          PROVE  /\ Behind(f, j) = 1 => e.rpcs[j] = testing'[c]
                 /\ 1 < Behind(f, j) /\ Behind(f, j) <= attempts[c] + 1 =>
                      e.rpcs[j] \notin alive
      <4>1. /\ j = e.index => Behind(f, j) = 1
            /\ j # e.index => Behind(f, j) = Behind(e, j) + 1
            /\ Behind(e, j) \in 1 .. Len(e.rpcs)
        BY <1>1, <1>5, BehindNext
      <4>2. Behind(e, j) <= attempts[c] => e.rpcs[j] \notin alive
        BY <1>1, <2>1, <2>3 DEF Tried
      <4>3. Behind(f, j) = 1 => j = e.index
        BY <4>1
      <4>4. 1 < Behind(f, j) /\ Behind(f, j) <= attempts[c] + 1 =>
              Behind(e, j) <= attempts[c]
        BY <3>1, <4>1
      <4> QED BY <3>1, <4>2, <4>3, <4>4
    <3> QED BY <1>1, <1>2, <1>5, <1>7, <1>9, <2>3, <3>1, <3>2 DEF Tried
  <2> QED BY <2>2, <2>3
<1>13. AloneFindsWorking'
  <2> SUFFICES ASSUME NEW d \in Callers, rpc'[d] = "returned",
                      result'[d] \notin alive, d \notin helped'
               PROVE  ToSet(lists'[mine'[d]].rpcs) \cap alive = {}
    BY <1>2 DEF AloneFindsWorking
  <2>1. rpc[d] = "returned" /\ d \notin helped /\ mine[d] \in DOMAIN lists
    BY <1>2, <1>9 DEF RpcCalls, UsesList
  <2>2. lists'[mine[d]].rpcs = lists[mine[d]].rpcs
    BY <1>5, <1>7, <2>1
  <2> QED BY <1>2, <2>1, <2>2 DEF AloneFindsWorking
<1> QED BY <1>8, <1>10, <1>11, <1>12, <1>13

LEMMA RpcStep == RpcInv /\ [RpcNext]_rpcVars => RpcInv'
<1> SUFFICES ASSUME RpcInv, [RpcNext]_rpcVars PROVE RpcInv'
  OBVIOUS
<1>1. CASE UNCHANGED rpcVars
  BY <1>1
  DEF rpcVars, RpcInv, RpcLists, RpcCalls, RpcUrls, UsesList, GoesRound, Tried,
      Behind, AloneFindsWorking
<1> QED BY <1>1, ExpireListKeeps, LoadListKeeps, TryNextKeeps, SameListsKeep
        DEF RpcNext

\* A caller that answers with an endpoint that does not work has tried them all,
\* unless another one moved its index, for any lists and any number of callers.
THEOREM AloneFinds == RpcSpec => []AloneFindsWorking
<1>1. RpcInv => AloneFindsWorking
  BY DEF RpcInv
<1> QED BY <1>1, InitRpcInv, RpcStep, PTL DEF RpcSpec

-----------------------------------------------------------------------------
(* The boards                                                              *)

\* As long as no run has cleared a period between the two writes of another, one
\* run at most has rows in it or is about to write them.
OneAtATime ==
  \A p \in DOMAIN Periods \ met :
    \A q, r \in Shown(p) \cup Filling(p) : q = r

BoardInv == LeaderboardTypeOK /\ OneAtATime /\ EmptyIsBeingFilled

LEMMA PeriodFacts ==
  /\ Len(Periods) \in Nat /\ DOMAIN Periods = 1 .. Len(Periods)
  /\ 1 \in DOMAIN Periods /\ MaxBets \in Nat /\ MaxErrors \in Nat
<1>1. Periods \in Seq(ToSet(Periods)) /\ Periods # << >>
  BY LeaderboardAssumption
<1>2. Len(Periods) \in Nat /\ DOMAIN Periods = 1 .. Len(Periods) /\ Len(Periods) # 0
  BY <1>1
<1> QED BY <1>2, LeaderboardAssumption

LEMMA InitBoardInv == LeaderboardInit => BoardInv
<1> SUFFICES ASSUME LeaderboardInit PROVE BoardInv
  OBVIOUS
<1>1. LeaderboardTypeOK
  BY PeriodFacts DEF LeaderboardInit, LeaderboardTypeOK, None
<1>2. OneAtATime
  BY DEF LeaderboardInit, OneAtATime, Shown, Filling
<1>3. EmptyIsBeingFilled
  BY DEF LeaderboardInit, EmptyIsBeingFilled
<1> QED BY <1>1, <1>2, <1>3 DEF BoardInv

\* Where a run goes when it is done with its period: never to an insert.
LEMMA NextPeriodFacts ==
  ASSUME LeaderboardTypeOK, NEW r \in Runs, NextPeriod(r)
  PROVE  /\ step' \in [Runs -> {"idle", "count", "delete", "insert", "over"}]
         /\ turn' \in [Runs -> DOMAIN Periods]
         /\ step'[r] # "insert"
         /\ \A q \in Runs \ {r} : step'[q] = step[q] /\ turn'[q] = turn[q]
<1>1. turn[r] \in 1 .. Len(Periods)
  BY PeriodFacts DEF LeaderboardTypeOK
<1>2. CASE r \notin Manuals /\ turn[r] < Len(Periods)
  <2>1. turn[r] + 1 \in DOMAIN Periods
    BY <1>1, <1>2, PeriodFacts
  <2> QED BY <1>2, <2>1 DEF NextPeriod, LeaderboardTypeOK
<1>3. CASE ~(r \notin Manuals /\ turn[r] < Len(Periods))
  <2>1. turn' = [turn EXCEPT ![r] = 1]
    BY <1>3 DEF NextPeriod
  <2>2. PICK s \in {"idle", "over"} : step' = [step EXCEPT ![r] = s]
    BY <1>3 DEF NextPeriod
  <2> QED BY <2>1, <2>2, PeriodFacts DEF LeaderboardTypeOK
<1> QED BY <1>2, <1>3

\* Steps that write no row and neither begin nor end a fill.
LEMMA QuietBoardKeeps ==
  ASSUME BoardInv, UNCHANGED <<board, met, dropped>>, LeaderboardTypeOK',
         \A p \in DOMAIN Periods : Filling(p)' = Filling(p)
  PROVE  BoardInv'
<1>1. \A p \in DOMAIN Periods : Shown(p)' = Shown(p)
  BY DEF Shown
<1>2. OneAtATime'
  BY <1>1 DEF BoardInv, OneAtATime
<1>3. EmptyIsBeingFilled'
  BY <1>1 DEF BoardInv, EmptyIsBeingFilled
<1> QED BY <1>2, <1>3 DEF BoardInv

LEMMA QuietBoardSteps ==
  ASSUME BoardInv,
         \/ UNCHANGED boardVars \/ PlaceBet
         \/ \E r \in Runs : BeginRun(r) \/ CountBets(r)
  PROVE  BoardInv'
<1> USE DEF BoardInv
<1>1. CASE UNCHANGED boardVars
  BY <1>1, QuietBoardKeeps DEF boardVars, LeaderboardTypeOK, Filling
<1>2. CASE PlaceBet
  <2>1. LeaderboardTypeOK'
    BY <1>2, PeriodFacts DEF PlaceBet, LeaderboardTypeOK
  <2> QED BY <1>2, <2>1, QuietBoardKeeps DEF PlaceBet, Filling
<1>3. ASSUME NEW r \in Runs, BeginRun(r) PROVE BoardInv'
  <2>1. PICK p \in DOMAIN Periods : turn' = [turn EXCEPT ![r] = p]
    BY <1>3 DEF BeginRun
  <2>2. LeaderboardTypeOK'
    BY <1>3, <2>1 DEF BeginRun, LeaderboardTypeOK
  <2>3. \A q \in Runs, n \in DOMAIN Periods :
          step'[q] = "insert" /\ turn'[q] = n <=> step[q] = "insert" /\ turn[q] = n
    BY <1>3, <2>1 DEF BeginRun, LeaderboardTypeOK
  <2> QED BY <1>3, <2>2, <2>3, QuietBoardKeeps DEF BeginRun, Filling
<1>4. ASSUME NEW r \in Runs, CountBets(r) PROVE BoardInv'
  <2>1. LeaderboardTypeOK'
    BY <1>4 DEF CountBets, LeaderboardTypeOK
  <2>2. \A q \in Runs : step'[q] = "insert" <=> step[q] = "insert"
    BY <1>4 DEF CountBets, LeaderboardTypeOK
  <2> QED BY <1>4, <2>1, <2>2, QuietBoardKeeps DEF CountBets, Filling
<1> QED BY <1>1, <1>2, <1>3, <1>4

LEMMA DeleteRowsKeeps ==
  ASSUME BoardInv, NEW r \in Runs, DeleteRows(r) PROVE BoardInv'
<1> USE DEF BoardInv
<1> DEFINE p == turn[r]
<1>1. /\ p \in DOMAIN Periods /\ step[r] = "delete"
      /\ board' = [board EXCEPT ![p] = Nothing]
      /\ met' = IF Filling(p) # {} THEN met \cup {p} ELSE met \ {p}
      /\ UNCHANGED <<bets, turn, seen, errors, dropped>>
  BY DEF DeleteRows, Cleared, LeaderboardTypeOK
<1>2. step' = [step EXCEPT ![r] = "insert"]
  BY DEF DeleteRows
<1>3. LeaderboardTypeOK'
  <2>1. Nothing \in [Runs -> None .. MaxBets]
    BY PeriodFacts DEF Nothing, None
  <2> QED BY <1>1, <1>2, <2>1 DEF LeaderboardTypeOK
<1>4. Shown(p)' = {} /\ \A n \in DOMAIN Periods \ {p} : Shown(n)' = Shown(n)
  BY <1>1 DEF Shown, Nothing, LeaderboardTypeOK
<1>5. /\ Filling(p)' = Filling(p) \cup {r}
      /\ \A n \in DOMAIN Periods \ {p} : Filling(n)' = Filling(n)
  BY <1>1, <1>2 DEF Filling, LeaderboardTypeOK
<1>6. OneAtATime'
  <2> SUFFICES ASSUME NEW n \in DOMAIN Periods, n \notin met'
               PROVE  \A q, s \in (Shown(n) \cup Filling(n))' : q = s
    BY <1>1 DEF OneAtATime
  <2>1. CASE n = p
    BY <1>1, <1>4, <1>5, <2>1
  <2>2. CASE n # p
    BY <1>1, <1>4, <1>5, <2>2 DEF OneAtATime
  <2> QED BY <2>1, <2>2
<1>7. EmptyIsBeingFilled'
  BY <1>1, <1>4, <1>5 DEF EmptyIsBeingFilled
<1> QED BY <1>3, <1>6, <1>7

LEMMA InsertRowsKeeps ==
  ASSUME BoardInv, NEW r \in Runs, InsertRows(r) PROVE BoardInv'
<1> USE DEF BoardInv
<1>0. PICK p \in DOMAIN Periods : p = turn[r]
  BY DEF LeaderboardTypeOK
<1>1. /\ step[r] = "insert" /\ seen[r] \in 0 .. MaxBets
      /\ board' = [board EXCEPT ![p][r] = seen[r]]
      /\ dropped' = dropped \ {p} /\ seen' = [seen EXCEPT ![r] = 0]
      /\ NextPeriod(r) /\ UNCHANGED <<bets, errors, met>>
  BY <1>0 DEF InsertRows, LeaderboardTypeOK
<1>2. seen[r] \in None .. MaxBets /\ seen[r] # None
  BY <1>1, PeriodFacts DEF None
<1>3. /\ board'[p][r] = seen[r]
      /\ \A q \in Runs \ {r} : board'[p][q] = board[p][q]
      /\ \A n \in DOMAIN Periods \ {p} : board'[n] = board[n]
      /\ board' \in [DOMAIN Periods -> [Runs -> None .. MaxBets]]
  BY <1>1, <1>2 DEF LeaderboardTypeOK
<1>4. LeaderboardTypeOK'
  <2>1. /\ step' \in [Runs -> {"idle", "count", "delete", "insert", "over"}]
        /\ turn' \in [Runs -> DOMAIN Periods]
    BY <1>1, NextPeriodFacts
  <2>2. seen' \in [Runs -> 0 .. MaxBets]
    BY <1>1, PeriodFacts DEF LeaderboardTypeOK
  <2> QED BY <1>1, <1>3, <2>1, <2>2 DEF LeaderboardTypeOK
<1>5. /\ Shown(p)' = Shown(p) \cup {r}
      /\ \A n \in DOMAIN Periods \ {p} : Shown(n)' = Shown(n)
  BY <1>2, <1>3 DEF Shown
<1>6. /\ r \in Filling(p) /\ Filling(p)' = Filling(p) \ {r}
      /\ \A n \in DOMAIN Periods \ {p} : Filling(n)' = Filling(n)
  BY <1>0, <1>1, NextPeriodFacts DEF Filling
<1>7. OneAtATime'
  <2> SUFFICES ASSUME NEW n \in DOMAIN Periods, n \notin met
               PROVE  (Shown(n) \cup Filling(n))' \subseteq Shown(n) \cup Filling(n)
    BY <1>1 DEF OneAtATime
  <2> QED BY <1>5, <1>6
<1>8. EmptyIsBeingFilled'
  BY <1>1, <1>5, <1>6 DEF EmptyIsBeingFilled
<1> QED BY <1>4, <1>7, <1>8

\* A fill that ends without its rows is on record.
LEMMA RunsEndKeep ==
  ASSUME BoardInv, LeaderboardTypeOK', UNCHANGED <<board, met>>,
         \A p \in DOMAIN Periods :
           /\ Filling(p)' \subseteq Filling(p)
           /\ Filling(p)' # Filling(p) => p \in dropped',
         dropped \subseteq dropped'
  PROVE  BoardInv'
<1>1. \A p \in DOMAIN Periods : Shown(p)' = Shown(p)
  BY DEF Shown
<1>2. OneAtATime'
  BY <1>1 DEF BoardInv, OneAtATime
<1>3. EmptyIsBeingFilled'
  BY <1>1 DEF BoardInv, EmptyIsBeingFilled
<1> QED BY <1>2, <1>3 DEF BoardInv

LEMMA RunFailsKeeps ==
  ASSUME BoardInv, NEW r \in Runs, RunFails(r) PROVE BoardInv'
<1>1. /\ NextPeriod(r) /\ dropped' = dropped \cup Lost({r})
      /\ seen' = [seen EXCEPT ![r] = 0]
      /\ errors' = errors + 1 /\ errors < MaxErrors
      /\ UNCHANGED <<bets, board, met>>
  BY DEF RunFails
<1>2. step[r] = "insert" => turn[r] \in dropped'
  BY <1>1 DEF Lost
<1>3. dropped' \subseteq DOMAIN Periods
  BY <1>1 DEF BoardInv, LeaderboardTypeOK, Lost
<1>4. LeaderboardTypeOK'
  <2>1. seen' \in [Runs -> 0 .. MaxBets] /\ errors' \in 0 .. MaxErrors
    BY <1>1, PeriodFacts DEF BoardInv, LeaderboardTypeOK
  <2> QED BY <1>1, <1>3, <2>1, NextPeriodFacts DEF BoardInv, LeaderboardTypeOK
<1>5. ASSUME NEW p \in DOMAIN Periods
      PROVE  /\ Filling(p)' \subseteq Filling(p)
             /\ Filling(p)' # Filling(p) => p \in dropped'
  BY <1>1, <1>2, NextPeriodFacts DEF Filling, BoardInv
<1> QED BY <1>1, <1>4, <1>5, RunsEndKeep

LEMMA RestartRunsKeeps ==
  ASSUME BoardInv, RestartRuns PROVE BoardInv'
<1>1. /\ dropped' = dropped \cup Lost(Runs) /\ seen' = [r \in Runs |-> 0]
      /\ step' = [r \in Runs |-> IF r \in Manuals /\ step[r] # "idle" THEN "over"
                                 ELSE "idle"]
      /\ turn' = [r \in Runs |-> 1]
      /\ errors' = errors + 1 /\ errors < MaxErrors
      /\ UNCHANGED <<bets, board, met>>
  BY DEF RestartRuns
<1>2. \A p \in DOMAIN Periods : Filling(p)' = {}
  BY <1>1 DEF Filling
<1>3. \A p \in DOMAIN Periods : Filling(p) # {} => p \in dropped'
  BY <1>1 DEF Filling, Lost
<1>4. LeaderboardTypeOK'
  <2>1. dropped' \subseteq DOMAIN Periods
    BY <1>1 DEF BoardInv, LeaderboardTypeOK, Lost
  <2>2. seen' \in [Runs -> 0 .. MaxBets] /\ errors' \in 0 .. MaxErrors
    BY <1>1, PeriodFacts DEF BoardInv, LeaderboardTypeOK
  <2>3. /\ step' \in [Runs -> {"idle", "count", "delete", "insert", "over"}]
        /\ turn' \in [Runs -> DOMAIN Periods]
    BY <1>1, PeriodFacts
  <2> QED BY <1>1, <2>1, <2>2, <2>3 DEF BoardInv, LeaderboardTypeOK
<1> QED BY <1>1, <1>2, <1>3, <1>4, RunsEndKeep

LEMMA BoardStep == BoardInv /\ [LeaderboardNext]_boardVars => BoardInv'
  BY QuietBoardSteps, DeleteRowsKeeps, InsertRowsKeeps, RunFailsKeeps,
     RestartRunsKeeps
  DEF LeaderboardNext, RunStep

LEMMA BoardInvariance == LeaderboardSpec => []BoardInv
  BY InitBoardInv, BoardStep, PTL DEF LeaderboardSpec

\* A player is listed twice only where a run cleared a period between the two
\* writes of another, and nobody is listed only where a run is filling it or failed
\* to, for any periods and any number of runs, errors and crashes.
THEOREM BoardsAreExplained == LeaderboardSpec => []BoardsExplained
<1>1. BoardInv => BoardsExplained
  BY DEF BoardInv, BoardsExplained, OneAtATime, DoubledNeedsCrossing
<1> QED BY <1>1, BoardInvariance, PTL

-----------------------------------------------------------------------------
(* The game lists of a browser                                             *)

Slot == [shop: Shops, byPage: BOOLEAN, answer: Games, step: {"free", "sent", "answered"}]

Busy(r) == fetched[r].step # "free"

\* Nobody has a list that the server has not had.
NoneAhead ==
  /\ \A p \in Shops : entries[p].games <= edition[p] /\ view[p].games <= edition[p]
  /\ \A r \in Requests : fetched[r].step = "answered" =>
       fetched[r].answer <= edition[fetched[r].shop]

\* A request that has met no other one for its provider is the only one, and its
\* answer is no older than what the cache has.
OneFinds ==
  \A r \in Requests \ overlapped : Busy(r) =>
    /\ fetched[r].step = "answered" =>
         entries[fetched[r].shop].games <= fetched[r].answer
    /\ \A q \in Requests : Busy(q) /\ fetched[q].shop = fetched[r].shop => q = r

GameInv == GameTypeOK /\ NoneAhead /\ OneFinds

LEMMA GameFacts ==
  /\ MaxEdition \in Nat /\ MaxEdition >= 1 /\ MaxChoices \in Nat /\ MaxTroubles \in Nat
  /\ 0 \in Games /\ Undefined \in Games /\ ErrorBody \in Games /\ Games \subseteq Int
  /\ 1 .. MaxEdition \subseteq Games
  /\ Absent \in Entry
  /\ Shops # {} => Unused \in Slot
<1>1. /\ MaxEdition \in Nat /\ MaxEdition >= 1 /\ MaxChoices \in Nat
      /\ MaxTroubles \in Nat
  BY GameCacheAssumption
<1>2. /\ 0 \in Games /\ Undefined \in Games /\ ErrorBody \in Games /\ Games \subseteq Int
      /\ 1 .. MaxEdition \subseteq Games
  BY <1>1 DEF Games, Undefined, ErrorBody
<1>3. Absent \in Entry
  BY <1>2 DEF Absent, Entry
<1>4. ASSUME Shops # {} PROVE Unused \in Slot
  <2>1. (CHOOSE p \in Shops : TRUE) \in Shops
    BY <1>4
  <2> QED BY <1>2, <2>1 DEF Unused, Slot
<1> QED BY <1>1, <1>2, <1>3, <1>4

LEMMA KeptFacts ==
  ASSUME NEW g \in Games
  PROVE  Kept(g) \in Games /\ g <= Kept(g) /\ (Kept(g) = g \/ Kept(g) = 0)
  BY GameFacts DEF Kept, Undefined

LEMMA FreshStart ==
  ASSUME edition \in [Shops -> 1 .. MaxEdition], provider' \in Shops,
         entries' = [p \in Shops |-> Absent], view' = entries', dirty' = TRUE,
         page' = [shop |-> provider', games |-> 0],
         fetched' = [r \in Requests |-> Unused], overlapped' = {}, UNCHANGED edition,
         choices' \in 0 .. MaxChoices, troubles' \in 0 .. MaxTroubles
  PROVE  GameInv'
<1>0. Unused \in Slot /\ Unused.step = "free" /\ Absent \in Entry /\ Absent.games = 0
  BY GameFacts DEF Unused, Absent
<1>1. \A r \in Requests : fetched'[r].step = "free"
  BY <1>0
<1>2. GameTypeOK'
  BY <1>0, GameFacts DEF GameTypeOK, Slot
<1>3. NoneAhead'
  <2>1. \A p \in Shops : entries'[p].games = 0 /\ view'[p].games = 0 /\ 0 <= edition[p]
    BY <1>0, GameFacts
  <2> QED BY <1>1, <2>1 DEF NoneAhead
<1>4. OneFinds'
  BY <1>1 DEF OneFinds, Busy
<1> QED BY <1>2, <1>3, <1>4 DEF GameInv

LEMMA InitGameInv == GameInit => GameInv
<1> SUFFICES ASSUME GameInit PROVE GameInv
  OBVIOUS
<1>0. Unused \in Slot /\ Unused.step = "free" /\ Absent \in Entry /\ Absent.games = 0
  BY GameFacts DEF Unused, Absent, GameInit
<1>1. \A r \in Requests : fetched[r].step = "free"
  BY <1>0 DEF GameInit
<1>2. GameTypeOK
  BY <1>0, GameFacts DEF GameTypeOK, Slot, GameInit
<1>3. NoneAhead
  <2>1. \A p \in Shops : entries[p].games = 0 /\ view[p].games = 0 /\ 0 <= edition[p]
    BY <1>0, GameFacts DEF GameInit
  <2> QED BY <1>1, <2>1 DEF NoneAhead
<1>4. OneFinds
  BY <1>1 DEF OneFinds, Busy
<1> QED BY <1>2, <1>3, <1>4 DEF GameInv

LEMMA ReloadPageKeeps == ASSUME GameInv, ReloadPage PROVE GameInv'
  BY FreshStart DEF ReloadPage, GameInv, GameTypeOK

\* What a call of fetchGames does that sends a request.
Sends(v, p, r) ==
  /\ fetched' \in [Requests -> Slot] /\ entries' \in [Shops -> Entry]
  /\ fetched[r].step = "free" /\ fetched'[r].step = "sent" /\ fetched'[r].shop = p
  /\ \A q \in Requests \ {r} : fetched'[q] = fetched[q]
  /\ entries'[p].games = Kept(v[p].games)
  /\ \A s \in Shops \ {p} : entries'[s] = entries[s]
  /\ overlapped' = IF UnderWay(p) = {} THEN overlapped \ {r}
                   ELSE overlapped \cup UnderWay(p) \cup {r}

LEMMA FetchListSends ==
  ASSUME GameInv, NEW v \in [Shops -> Entry], NEW p \in Shops, NEW b \in BOOLEAN,
         FetchList(v, p, b), ~AnswersAtOnce(v, p)
  PROVE  UNCHANGED page /\ \E r \in Requests : Sends(v, p, r)
<1> PICK r : r = CHOOSE q \in Requests : fetched[q] = Unused
  OBVIOUS
<1> PICK f : f = [shop |-> p, byPage |-> b, answer |-> 0, step |-> "sent"]
  OBVIOUS
<1> PICK x : x = [games |-> Kept(v[p].games), fresh |-> FALSE, loading |-> TRUE]
  OBVIOUS
<1>1. /\ \E q \in Requests : fetched[q] = Unused
      /\ fetched' = [fetched EXCEPT ![r] = f]
      /\ entries' = [entries EXCEPT ![p] = x]
      /\ overlapped' = IF UnderWay(p) = {} THEN overlapped \ {r}
                          ELSE overlapped \cup UnderWay(p) \cup {r}
      /\ UNCHANGED page
  BY DEF FetchList
<1>2. r \in Requests /\ fetched[r] = Unused
  BY <1>1
<1>3. fetched \in [Requests -> Slot] /\ entries \in [Shops -> Entry]
  BY DEF GameInv, GameTypeOK, Slot
<1>4. f \in Slot /\ f.step = "sent" /\ f.shop = p
  BY GameFacts DEF Slot
<1>5. v[p].games \in Games
  BY DEF Entry
<1>6. x \in Entry /\ x.games = Kept(v[p].games)
  BY <1>5, KeptFacts DEF Entry
<1>7. /\ fetched' \in [Requests -> Slot] /\ fetched'[r] = f
      /\ \A q \in Requests \ {r} : fetched'[q] = fetched[q]
  BY <1>1, <1>2, <1>3, <1>4
<1>8. /\ entries' \in [Shops -> Entry] /\ entries'[p] = x
      /\ \A s \in Shops \ {p} : entries'[s] = entries[s]
  BY <1>1, <1>3, <1>6
<1>9. fetched[r].step = "free"
  BY <1>2 DEF Unused
<1> QED BY <1>1, <1>2, <1>4, <1>6, <1>7, <1>8, <1>9 DEF Sends

\* The games and the slots after such a call.
LEMMA SendsKeeps ==
  ASSUME GameInv, NEW v, NEW p \in Shops, NEW r \in Requests,
         v[p].games \in Games, v[p].games <= edition[p], Sends(v, p, r),
         UNCHANGED edition, \A s \in Shops : view'[s].games <= edition[s]
  PROVE  (NoneAhead /\ OneFinds)' /\ overlapped' \subseteq Requests
<1>0. Kept(v[p].games) <= edition[p]
  <2>1. edition[p] \in 1 .. MaxEdition
    BY DEF GameInv, GameTypeOK
  <2>2. Kept(v[p].games) = v[p].games \/ Kept(v[p].games) = 0
    BY KeptFacts
  <2> QED BY <2>1, <2>2, GameFacts
<1>1. NoneAhead'
  <2>1. \A s \in Shops : entries'[s].games <= edition[s]
    BY <1>0 DEF Sends, GameInv, NoneAhead
  <2> QED BY <2>1 DEF Sends, GameInv, NoneAhead
<1>2. OneFinds'
  <2> SUFFICES ASSUME NEW q \in Requests, q \notin overlapped', Busy(q)'
               PROVE  /\ fetched'[q].step = "answered" =>
                           entries'[fetched'[q].shop].games <= fetched'[q].answer
                      /\ \A t \in Requests :
                           Busy(t)' /\ fetched'[t].shop = fetched'[q].shop => t = q
    BY DEF OneFinds
  <2>1. CASE q = r
    <3>1. UnderWay(p) = {}
      BY <2>1 DEF Sends
    <3>2. ASSUME NEW t \in Requests, Busy(t)', fetched'[t].shop = p PROVE t = r
      BY <3>1, <3>2 DEF Sends, Busy, UnderWay
    <3> QED BY <2>1, <3>2 DEF Sends
  <2>2. CASE q # r
    <3>1. Busy(q) /\ q \notin overlapped
      BY <2>2 DEF Sends, Busy
    <3>2. fetched[q].shop # p
      BY <2>2, <3>1 DEF Sends, UnderWay, Busy
    <3>3. fetched[q].shop \in Shops
      BY DEF GameInv, GameTypeOK
    <3>4. fetched'[q].step = "answered" =>
            entries'[fetched'[q].shop].games <= fetched'[q].answer
      BY <2>2, <3>1, <3>2, <3>3 DEF Sends, GameInv, OneFinds
    <3>5. ASSUME NEW t \in Requests, Busy(t)', fetched'[t].shop = fetched'[q].shop
          PROVE  t = q
      BY <2>2, <3>1, <3>2, <3>5 DEF Sends, GameInv, OneFinds, Busy
    <3> QED BY <3>4, <3>5
  <2> QED BY <2>1, <2>2
<1>3. overlapped' \subseteq Requests
  BY DEF Sends, UnderWay, GameInv, GameTypeOK
<1> QED BY <1>1, <1>2, <1>3

\* A call that sends nothing shows at most the games of the cache it knows.
LEMMA FetchListStays ==
  ASSUME NEW v \in [Shops -> Entry], NEW p \in Shops, NEW b \in BOOLEAN,
         FetchList(v, p, b), AnswersAtOnce(v, p), GameInv
  PROVE  /\ UNCHANGED <<entries, fetched, overlapped>>
         /\ page' \in [shop: Shops, games: Games]
<1>1. page' = IF b THEN [shop |-> p, games |-> v[p].games] ELSE page
  BY DEF FetchList
<1>2. v[p].games \in Games
  BY DEF Entry
<1> QED BY <1>1, <1>2 DEF FetchList, GameInv, GameTypeOK

\* A call of fetchGames, with a cache that the page or the browser has.
LEMMA FetchListKeeps ==
  ASSUME GameInv, NEW v \in [Shops -> Entry], NEW p \in Shops, NEW b \in BOOLEAN,
         v[p].games <= edition[p], FetchList(v, p, b),
         UNCHANGED <<edition, provider, troubles>>, dirty' \in BOOLEAN,
         choices' \in 0 .. MaxChoices, view' \in [Shops -> Entry],
         \A s \in Shops : view'[s].games <= edition[s]
  PROVE  GameInv'
<1>1. CASE AnswersAtOnce(v, p)
  <2>1. /\ UNCHANGED <<entries, fetched, overlapped>>
        /\ page' \in [shop: Shops, games: Games]
    BY <1>1, FetchListStays
  <2>2. GameTypeOK'
    BY <2>1 DEF GameInv, GameTypeOK
  <2>3. NoneAhead'
    BY <2>1 DEF GameInv, NoneAhead
  <2>4. OneFinds'
    BY <2>1 DEF GameInv, OneFinds, Busy
  <2> QED BY <2>2, <2>3, <2>4 DEF GameInv
<1>2. CASE ~AnswersAtOnce(v, p)
  <2>1. PICK r \in Requests : Sends(v, p, r)
    BY <1>2, FetchListSends
  <2>2. v[p].games \in Games
    BY DEF Entry
  <2>3. (NoneAhead /\ OneFinds)' /\ overlapped' \subseteq Requests
    BY <2>1, <2>2, SendsKeeps
  <2>4. page' = page
    BY <1>2, FetchListSends
  <2>5. fetched' \in [Requests -> Slot] /\ entries' \in [Shops -> Entry]
    BY <2>1 DEF Sends
  <2>6. GameTypeOK'
    BY <2>3, <2>4, <2>5 DEF GameInv, GameTypeOK, Slot
  <2> QED BY <2>3, <2>6 DEF GameInv
<1> QED BY <1>1, <1>2

LEMMA RenderKeeps == ASSUME GameInv, Render PROVE GameInv'
<1>1. PICK v \in [Shops -> Entry] : v = entries
  BY DEF GameInv, GameTypeOK
<1>2. PICK p \in Shops : p = provider
  BY DEF GameInv, GameTypeOK
<1>3. FetchList(v, p, TRUE) /\ UNCHANGED <<edition, provider, troubles, choices>>
  BY <1>1, <1>2 DEF Render
<1>4. dirty' \in BOOLEAN
  BY DEF Render
<1>5. view' \in [Shops -> Entry] /\ \A s \in Shops : view'[s].games <= edition[s]
  BY DEF Render, GameInv, GameTypeOK, NoneAhead
<1>6. v[p].games <= edition[p] /\ choices' \in 0 .. MaxChoices
  BY <1>1, <1>3 DEF GameInv, NoneAhead, GameTypeOK
<1> QED BY <1>3, <1>4, <1>5, <1>6, FetchListKeeps

LEMMA SearchKeeps == ASSUME GameInv, NEW p \in Shops, Search(p) PROVE GameInv'
<1>1. PICK v \in [Shops -> Entry] : v = view
  BY DEF GameInv, GameTypeOK
<1>2. FetchList(v, p, FALSE) /\ UNCHANGED <<edition, view, provider, troubles>>
  BY <1>1 DEF Search
<1>3. dirty' \in BOOLEAN
  BY DEF Search
<1>4. choices' \in 0 .. MaxChoices
  BY GameFacts DEF Search, GameInv, GameTypeOK
<1>5. view' \in [Shops -> Entry] /\ \A s \in Shops : view'[s].games <= edition[s]
  BY <1>2 DEF GameInv, GameTypeOK, NoneAhead
<1>6. v[p].games <= edition[p]
  BY <1>1 DEF GameInv, NoneAhead
<1> QED BY <1>2, <1>3, <1>4, <1>5, <1>6, FetchListKeeps

LEMMA ChooseProviderKeeps ==
  ASSUME GameInv, NEW p \in Shops, ChooseProvider(p) PROVE GameInv'
<1> USE DEF GameInv, ChooseProvider
<1>1. choices' \in 0 .. MaxChoices
  BY GameFacts DEF GameTypeOK
<1>2. GameTypeOK'
  BY <1>1 DEF GameTypeOK
<1>3. (NoneAhead /\ OneFinds)'
  BY DEF NoneAhead, OneFinds, Busy
<1> QED BY <1>2, <1>3

LEMMA ServerSendsKeeps ==
  ASSUME GameInv, NEW r \in Requests, ServerSends(r) PROVE GameInv'
<1> PICK f : f = [fetched[r] EXCEPT !.answer = edition[fetched[r].shop],
                                    !.step = "answered"]
  OBVIOUS
<1>1. /\ fetched' = [fetched EXCEPT ![r] = f] /\ fetched[r].step = "sent"
      /\ UNCHANGED <<edition, entries, dirty, view, provider, page, choices,
                     troubles, overlapped>>
  BY DEF ServerSends
<1>2. fetched \in [Requests -> Slot] /\ fetched[r] \in Slot
      /\ edition[fetched[r].shop] \in 1 .. MaxEdition /\ fetched[r].shop \in Shops
  BY DEF GameInv, GameTypeOK, Slot
<1>3. /\ f \in Slot /\ f.shop = fetched[r].shop
      /\ f.step = "answered" /\ f.answer = edition[fetched[r].shop]
  <2>1. edition[fetched[r].shop] \in Games
    BY <1>2, GameFacts
  <2> QED BY <1>2, <2>1 DEF Slot
<1>4. /\ fetched' \in [Requests -> Slot] /\ fetched'[r] = f
      /\ \A q \in Requests \ {r} : fetched'[q] = fetched[q]
  BY <1>1, <1>2, <1>3
<1>5. GameTypeOK'
  BY <1>1, <1>4 DEF GameInv, GameTypeOK, Slot
<1>6. NoneAhead'
  BY <1>1, <1>2, <1>3, <1>4 DEF GameInv, NoneAhead
<1>7. entries[fetched[r].shop].games <= f.answer
  BY <1>2, <1>3 DEF GameInv, NoneAhead
<1>8. \A q \in Requests :
        (Busy(q)' <=> Busy(q)) /\ fetched'[q].shop = fetched[q].shop
  BY <1>1, <1>3, <1>4 DEF Busy
<1>9. OneFinds'
  <2> SUFFICES ASSUME NEW q \in Requests \ overlapped, Busy(q)
               PROVE  /\ fetched'[q].step = "answered" =>
                           entries[fetched[q].shop].games <= fetched'[q].answer
                      /\ \A t \in Requests :
                           Busy(t) /\ fetched[t].shop = fetched[q].shop => t = q
    BY <1>1, <1>8 DEF OneFinds
  <2>1. CASE q = r
    BY <1>4, <1>7, <2>1 DEF GameInv, OneFinds
  <2>2. CASE q # r
    BY <1>4, <2>2 DEF GameInv, OneFinds
  <2> QED BY <2>1, <2>2
<1> QED BY <1>5, <1>6, <1>9 DEF GameInv

\* A request that ends puts its answer into the cache.
LEMMA EndFetchKeeps ==
  ASSUME GameInv, NEW r \in Requests, Busy(r), NEW g \in Games, EndFetch(r, g),
         g <= edition[fetched[r].shop],
         UNCHANGED <<edition, view, provider, choices>>,
         troubles' \in 0 .. MaxTroubles
  PROVE  GameInv'
<1>1. PICK p \in Shops : p = fetched[r].shop
  BY DEF GameInv, GameTypeOK
<1> PICK x : x = [games |-> g, fresh |-> TRUE, loading |-> FALSE]
  OBVIOUS
<1>2. /\ entries' = [entries EXCEPT ![p] = x]
      /\ page' = IF fetched[r].byPage THEN [shop |-> p, games |-> g] ELSE page
      /\ fetched' = [fetched EXCEPT ![r] = Unused]
      /\ overlapped' = overlapped \ {r} /\ dirty' = TRUE
  BY <1>1 DEF EndFetch, RunsAgain
<1>3. Unused \in Slot /\ Unused.step = "free" /\ x \in Entry /\ x.games = g
  BY <1>1, GameFacts DEF Unused, Entry
<1>4. /\ fetched' \in [Requests -> Slot] /\ fetched'[r] = Unused
      /\ \A q \in Requests \ {r} : fetched'[q] = fetched[q]
  BY <1>2, <1>3 DEF GameInv, GameTypeOK, Slot
<1>5. /\ entries' \in [Shops -> Entry] /\ entries'[p] = x
      /\ \A s \in Shops \ {p} : entries'[s] = entries[s]
  BY <1>2, <1>3 DEF GameInv, GameTypeOK
<1>7. page' \in [shop: Shops, games: Games]
  BY <1>2 DEF GameInv, GameTypeOK
<1>8. GameTypeOK'
  BY <1>2, <1>4, <1>5, <1>7 DEF GameInv, GameTypeOK, Slot
<1>9. ~Busy(r)' /\ fetched'[r].step # "answered"
  <2>1. fetched'[r].step = "free"
    BY <1>3, <1>4, Zenon
  <2> QED BY <2>1 DEF Busy
<1>10. NoneAhead'
  <2>1. \A s \in Shops : entries'[s].games <= edition[s] /\ view[s].games <= edition[s]
    BY <1>1, <1>3, <1>5 DEF GameInv, NoneAhead
  <2> QED BY <1>4, <1>9, <2>1 DEF GameInv, NoneAhead
<1>11. OneFinds'
  <2> SUFFICES ASSUME NEW q \in Requests \ {r}, q \notin overlapped, Busy(q)
               PROVE  /\ fetched[q].step = "answered" =>
                           entries'[fetched[q].shop].games <= fetched[q].answer
                      /\ \A t \in Requests \ {r} :
                           Busy(t) /\ fetched[t].shop = fetched[q].shop => t = q
    BY <1>2, <1>4, <1>9 DEF OneFinds, Busy
  <2>1. fetched[q].shop # p
    BY <1>1 DEF GameInv, OneFinds
  <2> QED BY <1>5, <2>1 DEF GameInv, OneFinds, GameTypeOK
<1> QED BY <1>8, <1>10, <1>11 DEF GameInv

LEMMA ListArrivesKeeps ==
  ASSUME GameInv, NEW r \in Requests, ListArrives(r) PROVE GameInv'
<1>1. fetched[r].answer \in Games
  BY DEF GameInv, GameTypeOK
<1>2. Busy(r) /\ fetched[r].answer <= edition[fetched[r].shop]
  BY DEF ListArrives, GameInv, NoneAhead, Busy
<1>3. /\ EndFetch(r, fetched[r].answer)
      /\ UNCHANGED <<edition, view, provider, choices>> /\ troubles' \in 0 .. MaxTroubles
  BY DEF ListArrives, GameInv, GameTypeOK
<1> QED BY <1>1, <1>2, <1>3, EndFetchKeeps

LEMMA ListFailsKeeps ==
  ASSUME GameInv, NEW r \in Requests, ListFails(r) PROVE GameInv'
<1>1. PICK g \in {Undefined, ErrorBody} : EndFetch(r, g)
  BY DEF ListFails
<1>2. Busy(r) /\ g \in Games /\ g <= edition[fetched[r].shop]
  <2>1. edition[fetched[r].shop] \in 1 .. MaxEdition
    BY DEF GameInv, GameTypeOK
  <2> QED BY <2>1, GameFacts DEF ListFails, Busy, Undefined, ErrorBody
<1>3. UNCHANGED <<edition, view, provider, choices>> /\ troubles' \in 0 .. MaxTroubles
  BY GameFacts DEF ListFails, GameInv, GameTypeOK
<1> QED BY <1>1, <1>2, <1>3, EndFetchKeeps

LEMMA ExpireEntryKeeps ==
  ASSUME GameInv, NEW p \in Shops, ExpireEntry(p) PROVE GameInv'
<1>1. /\ entries' = [entries EXCEPT ![p] = [entries[p] EXCEPT !.fresh = FALSE]]
      /\ view' = [view EXCEPT ![p] = [view[p] EXCEPT !.fresh = FALSE]]
      /\ troubles < MaxTroubles /\ troubles' = troubles + 1
      /\ UNCHANGED <<edition, dirty, provider, page, fetched, choices, overlapped>>
  BY DEF ExpireEntry
<1>2. ASSUME NEW y \in Entry
      PROVE  /\ [y EXCEPT !.fresh = FALSE] \in Entry
             /\ [y EXCEPT !.fresh = FALSE].games = y.games
             /\ ~[y EXCEPT !.fresh = FALSE].fresh
  BY DEF Entry
<1>3. entries \in [Shops -> Entry] /\ view \in [Shops -> Entry]
  BY DEF GameInv, GameTypeOK
<1>4. /\ entries' \in [Shops -> Entry] /\ view' \in [Shops -> Entry]
      /\ \A s \in Shops :
           entries'[s].games = entries[s].games /\ view'[s].games = view[s].games
      /\ \A s \in Shops : entries'[s].fresh => entries[s].fresh
  BY <1>1, <1>2, <1>3
<1>5. troubles' \in 0 .. MaxTroubles
  BY <1>1, GameFacts DEF GameInv, GameTypeOK
<1>6. GameTypeOK'
  BY <1>1, <1>4, <1>5 DEF GameInv, GameTypeOK
<1>7. NoneAhead'
  BY <1>1, <1>4 DEF GameInv, NoneAhead, Busy
<1>8. OneFinds'
  BY <1>1, <1>4 DEF GameInv, GameTypeOK, OneFinds, Busy
<1> QED BY <1>6, <1>7, <1>8 DEF GameInv

LEMMA ListChangesKeeps ==
  ASSUME GameInv, NEW p \in Shops, ListChanges(p) PROVE GameInv'
<1>1. /\ edition' \in [Shops -> 1 .. MaxEdition]
      /\ \A s \in Shops : edition'[s] \in Nat /\ edition[s] <= edition'[s]
  BY GameFacts DEF ListChanges, GameInv, GameTypeOK
<1>2. UNCHANGED <<entries, dirty, view, provider, page, fetched, choices, troubles,
                  overlapped>>
  BY DEF ListChanges
<1>3. GameTypeOK'
  BY <1>1, <1>2 DEF GameInv, GameTypeOK
<1>4. OneFinds'
  BY <1>2 DEF GameInv, OneFinds, Busy
<1>5. NoneAhead'
  <2>1. \A s \in Shops : edition[s] \in Nat
    BY GameFacts DEF GameInv, GameTypeOK
  <2>2. \A s \in Shops : entries[s].games \in Int /\ view[s].games \in Int
    BY GameFacts DEF GameInv, GameTypeOK, Entry
  <2>3. \A r \in Requests : fetched[r].answer \in Int /\ fetched[r].shop \in Shops
    BY GameFacts DEF GameInv, GameTypeOK
  <2> QED BY <1>1, <1>2, <2>1, <2>2, <2>3 DEF GameInv, NoneAhead, Busy
<1> QED BY <1>3, <1>4, <1>5 DEF GameInv

LEMMA GameStep == GameInv /\ [GameNext]_gameVars => GameInv'
<1> SUFFICES ASSUME GameInv, [GameNext]_gameVars PROVE GameInv'
  OBVIOUS
<1>1. CASE UNCHANGED gameVars
  BY <1>1 DEF gameVars, GameInv, GameTypeOK, NoneAhead, OneFinds, Busy
<1> QED BY <1>1, RenderKeeps, SearchKeeps, ChooseProviderKeeps, ServerSendsKeeps,
           ListArrivesKeeps, ListFailsKeeps, ExpireEntryKeeps, ListChangesKeeps,
           ReloadPageKeeps
        DEF GameNext, Answering

LEMMA GameInvariance == GameSpec => []GameInv
  BY InitGameInv, GameStep, PTL DEF GameSpec

\* The games of a provider become older only by a step that has this reason.
OlderHere ==
  \A p \in Shops : entries'[p].games \in 0 .. entries[p].games - 1 =>
    \/ \E r \in Requests : EndsCrossed(r, p) \/ BeginsLate(r, p)
    \/ crashed

LEMMA NoneOlder ==
  ASSUME GameInv, \A s \in Shops : entries'[s].games = entries[s].games
  PROVE  OlderHere
  BY GameFacts DEF OlderHere, GameInv, GameTypeOK, Entry

LEMMA CallOlder ==
  ASSUME GameInv, NEW v \in [Shops -> Entry], NEW p \in Shops, NEW b \in BOOLEAN,
         FetchList(v, p, b), view' = v
  PROVE  OlderHere
<1>1. CASE AnswersAtOnce(v, p)
  BY <1>1, FetchListStays, NoneOlder
<1>2. CASE ~AnswersAtOnce(v, p)
  <2>1. PICK r \in Requests : Sends(v, p, r)
    BY <1>2, FetchListSends
  <2>2. \A s \in Shops : entries[s].games \in Games
    BY DEF GameInv, GameTypeOK, Entry
  <2>3. \A s \in Shops : entries[s].games \notin 0 .. entries[s].games - 1
    BY <2>2, GameFacts
  <2>4. CASE v[p] = entries[p]
    <3>1. entries'[p].games \notin 0 .. entries[p].games - 1
      <4>1. entries'[p].games = Kept(entries[p].games)
        BY <2>1, <2>4 DEF Sends
      <4>2. /\ Kept(entries[p].games) \in Games
            /\ entries[p].games <= Kept(entries[p].games)
        BY <2>2, KeptFacts
      <4>3. /\ entries[p].games \in Int /\ entries'[p].games \in Int
            /\ entries[p].games <= entries'[p].games
        BY <2>2, <4>1, <4>2, GameFacts
      <4> QED BY <4>3
    <3>2. \A s \in Shops \ {p} : entries'[s].games = entries[s].games
      BY <2>1 DEF Sends
    <3>3. \A s \in Shops : entries'[s].games \notin 0 .. entries[s].games - 1
      BY <2>3, <3>1, <3>2
    <3> QED BY <3>3 DEF OlderHere
  <2>5. CASE v[p] # entries[p]
    BY <2>1, <2>3, <2>5 DEF Sends, OlderHere, BeginsLate
  <2> QED BY <2>4, <2>5
<1> QED BY <1>1, <1>2

LEMMA StepOlder == GameInv /\ [GameNext]_gameVars => OlderHere
<1> SUFFICES ASSUME GameInv, [GameNext]_gameVars PROVE OlderHere
  OBVIOUS
<1>1. /\ entries \in [Shops -> Entry]
      /\ \A s \in Shops : entries[s].games \in Int
  BY GameFacts DEF GameInv, GameTypeOK, Entry
<1>2. CASE Render
  <2>1. PICK v \in [Shops -> Entry] : v = entries
    BY <1>1
  <2>2. PICK p \in Shops : p = provider
    BY DEF GameInv, GameTypeOK
  <2> QED BY <1>2, <2>1, <2>2, CallOlder DEF Render
<1>3. ASSUME NEW p \in Shops, Search(p) PROVE OlderHere
  <2>1. PICK v \in [Shops -> Entry] : v = view
    BY DEF GameInv, GameTypeOK
  <2> QED BY <1>3, <2>1, CallOlder DEF Search
<1>4. ASSUME NEW r \in Requests, ListArrives(r) PROVE OlderHere
  <2> SUFFICES ASSUME NEW p \in Shops, entries'[p].games \in 0 .. entries[p].games - 1
               PROVE  EndsCrossed(r, p)
    BY DEF OlderHere
  <2>1. /\ fetched[r].step = "answered" /\ fetched'[r].step = "free"
        /\ entries' = [entries EXCEPT ![fetched[r].shop] =
                         [games |-> fetched[r].answer, fresh |-> TRUE, loading |-> FALSE]]
    <3>1. Unused.step = "free"
      BY DEF Unused
    <3>2. fetched'[r] = Unused
      BY <1>4 DEF ListArrives, EndFetch, GameInv, GameTypeOK
    <3> QED BY <1>4, <3>1, <3>2 DEF ListArrives, EndFetch
  <2>2. p = fetched[r].shop /\ entries'[p].games = fetched[r].answer
    BY <1>1, <2>1
  <2>3. r \notin overlapped => entries[p].games <= fetched[r].answer
    BY <2>1, <2>2 DEF GameInv, OneFinds, Busy
  <2> QED BY <1>1, <2>1, <2>2, <2>3 DEF EndsCrossed
<1>5. ASSUME NEW r \in Requests, ListFails(r) PROVE OlderHere
  <2>1. PICK g \in {Undefined, ErrorBody} : EndFetch(r, g)
    BY <1>5 DEF ListFails
  <2>2. \A p \in Shops : entries'[p].games \in {g, entries[p].games}
    BY <1>1, <2>1 DEF EndFetch
  <2> QED BY <1>1, <2>2 DEF OlderHere, Undefined, ErrorBody
<1>6. ASSUME NEW p \in Shops, ExpireEntry(p) PROVE OlderHere
  <2>1. \A s \in Shops : entries'[s].games = entries[s].games
    BY <1>6 DEF ExpireEntry, GameInv, GameTypeOK, Entry
  <2> QED BY <2>1, NoneOlder
<1>7. ASSUME \/ UNCHANGED gameVars
             \/ \E p \in Shops : ChooseProvider(p) \/ ListChanges(p)
             \/ \E r \in Requests : ServerSends(r)
      PROVE  OlderHere
  BY <1>7, NoneOlder DEF gameVars, ChooseProvider, ListChanges, ServerSends
<1>8. CASE ReloadPage
  BY <1>8 DEF ReloadPage, OlderHere
<1> QED BY <1>2, <1>3, <1>4, <1>5, <1>6, <1>7, <1>8 DEF GameNext, Answering

\* The list of a provider goes back to an older one only when a request for it that met
\* another one ends, when a call that knows an older cache begins one, or with the page:
\* for any providers, any number of requests and any failures.
THEOREM OlderLists == GameSpec => OlderNeedsOverlap
<1>1. GameInv /\ [GameNext]_gameVars => [OlderHere]_gameVars
  BY StepOlder
<1> QED BY <1>1, GameInvariance, PTL
        DEF GameSpec, OlderNeedsOverlap, OlderHere, EndsCrossed, BeginsLate

-----------------------------------------------------------------------------
(* The five parts side by side, as they are checked                        *)

LEMMA RpcTypes == RpcInv => RpcTypeOK
<1> SUFFICES ASSUME RpcInv PROVE RpcTypeOK
  OBVIOUS
<1>1. ASSUME NEW i \in DOMAIN lists
      PROVE  /\ lists[i].rpcs \in {Chainlist, Fallback}
             /\ lists[i].index \in DOMAIN lists[i].rpcs
  <2>1. /\ lists[i] \in Entries /\ lists[i].rpcs \in Seq(Endpoints)
        /\ lists[i].index \in 1 .. Len(lists[i].rpcs)
    BY EntryFacts DEF RpcInv
  <2> QED BY <2>1 DEF Entries
<1>2. valid \in BOOLEAN
  BY DEF RpcInv, RpcLists
<1> QED BY <1>1, <1>2 DEF RpcInv, RpcCalls, RpcUrls, RpcTypeOK

AllInv == BoardInv /\ BootInv /\ RpcInv /\ PriceInv /\ GameInv

\* A step of one part is a step of it and leaves the others alone.
LEMMA PartStep ==
  ASSUME [Next]_vars
  PROVE  /\ [LeaderboardNext]_boardVars /\ [BootstrapNext]_bootVars
         /\ [RpcNext]_rpcVars /\ [PriceNext]_priceVars /\ [GameNext]_gameVars
<1>1. CASE UNCHANGED vars
  BY <1>1 DEF vars
<1>2. CASE IfBoard(LeaderboardNext) \/ IfStart(BootstrapNext)
  BY <1>2 DEF IfBoard, IfStart
<1>3. CASE IfRpc(RpcNext) \/ IfPrice(PriceNext) \/ IfGames(GameNext)
  BY <1>3 DEF IfRpc, IfPrice, IfGames
<1> QED BY <1>1, <1>2, <1>3 DEF Next

\* Every variable of the five parts keeps its type, for all values of the constants.
THEOREM TypesCorrect == Spec => []TypesOK
<1>1. Init => AllInv
  <2>1. Init => LeaderboardInit /\ BootstrapInit /\ RpcInit /\ PriceInit /\ GameInit
    BY DEF Init
  <2> QED BY <2>1, InitBoardInv, InitBootInv, InitRpcInv, InitPriceInv, InitGameInv
          DEF AllInv
<1>2. AllInv /\ [Next]_vars => AllInv'
  BY PartStep, BoardStep, BootStep, RpcStep, PriceStep, GameStep DEF AllInv
<1>3. AllInv => TypesOK
  BY RpcTypes DEF AllInv, TypesOK, BoardInv, BootInv, PriceInv, GameInv
<1> QED BY <1>1, <1>2, <1>3, PTL DEF Spec
=============================================================================
