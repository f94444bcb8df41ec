----------------------------- MODULE Bootstrap -----------------------------
(***************************************************************************)
(* onApplicationBootstrap of bootstrap.service.ts: a start waits for the   *)
(* rebuild of the leaderboards or for five seconds; if there is no file of *)
(* providers it fetches them and the game list of each, trying every       *)
(* request four times (retryWithBackoff of api/api.service.ts).  Only then *)
(* does the server listen.                                                 *)
(***************************************************************************)
EXTENDS Integers, SequencesExt

CONSTANTS Providers,  \* in the order of the aggregator's answer
          WithGames,  \* those that have games
          MaxRetries, \* of one request
          MaxCuts     \* bound on crashes

ASSUME BootstrapAssumption ==
  /\ Providers \in Seq(ToSet(Providers)) /\ WithGames \subseteq ToSet(Providers)
  /\ MaxRetries \in Nat /\ MaxCuts \in Nat

VARIABLES boot,     \* where the start is
          rebuild,  \* whether the rebuild of this start goes on
          file,     \* whether provider.json exists
          gameLists,    \* the providers whose game list exists
          fetching, \* the index of the provider whose list is fetched
          attempt,  \* failed attempts of the present request
          cuts,     \* crashes so far
          unfinished \* a start wrote provider.json and ended before it had
                     \* asked for every list (history)

bootVars == <<boot, rebuild, file, gameLists, fetching, attempt, cuts, unfinished>>

BootstrapTypeOK ==
  /\ boot \in {"down", "race", "check", "providers", "games", "up"}
  /\ rebuild \in BOOLEAN /\ file \in BOOLEAN /\ unfinished \in BOOLEAN
  /\ gameLists \subseteq WithGames /\ fetching \in 1 .. Len(Providers) + 1
  /\ attempt \in 0 .. MaxRetries /\ cuts \in 0 .. MaxCuts

BootstrapInit ==
  /\ boot = "down" /\ rebuild = FALSE /\ file = FALSE /\ gameLists = {}
  /\ fetching = 1 /\ attempt = 0 /\ cuts = 0 /\ unfinished = FALSE

-----------------------------------------------------------------------------
StartUp ==
  /\ boot = "down"
  /\ boot' = "race" /\ rebuild' = TRUE
  /\ UNCHANGED <<file, gameLists, fetching, attempt, cuts, unfinished>>

RebuildEnds ==
  /\ rebuild
  /\ rebuild' = FALSE
  /\ UNCHANGED <<boot, file, gameLists, fetching, attempt, cuts, unfinished>>

\* Promise.race: the rebuild is over, or the five seconds are.
EndRace ==
  /\ boot = "race"
  /\ boot' = "check"
  /\ UNCHANGED <<rebuild, file, gameLists, fetching, attempt, cuts, unfinished>>

CheckFile ==
  /\ boot = "check"
  /\ boot' = IF file THEN "up" ELSE "providers"
  /\ UNCHANGED <<rebuild, file, gameLists, fetching, attempt, cuts, unfinished>>

FetchProviders ==
  /\ boot = "providers"
  /\ file' = TRUE /\ attempt' = 0
  /\ boot' = IF Providers = << >> THEN "up" ELSE "games"
  /\ UNCHANGED <<rebuild, gameLists, fetching, cuts, unfinished>>

\* Mutant: a provider without games ends the loop.
GoesOnWithGames(p) == fetching < Len(Providers) /\ p \in WithGames

GoesOn(p) == fetching < Len(Providers)

\* A provider without games gets no file.
FetchGames ==
  /\ boot = "games"
  /\ LET p == Providers[fetching] IN
       /\ gameLists' = IF p \in WithGames THEN gameLists \cup {p} ELSE gameLists
       /\ IF GoesOn(p) THEN fetching' = fetching + 1 /\ UNCHANGED boot
          ELSE boot' = "up" /\ fetching' = 1
  /\ attempt' = 0
  /\ UNCHANGED <<rebuild, file, cuts, unfinished>>

MayRetry == attempt < MaxRetries

\* After the last attempt the error leaves initialize, and the server goes on
\* without the rest.
FetchFails ==
  /\ boot \in {"providers", "games"}
  /\ IF MayRetry
     THEN attempt' = attempt + 1 /\ UNCHANGED <<boot, fetching, unfinished>>
     ELSE /\ attempt' = 0 /\ fetching' = 1 /\ boot' = "up"
          /\ unfinished' = (unfinished \/ boot = "games")
  /\ UNCHANGED <<rebuild, file, gameLists, cuts>>

Crash ==
  /\ boot # "down" /\ cuts < MaxCuts
  /\ cuts' = cuts + 1
  /\ boot' = "down" /\ rebuild' = FALSE /\ fetching' = 1 /\ attempt' = 0
  /\ unfinished' = (unfinished \/ boot = "games")
  /\ UNCHANGED <<file, gameLists>>

Startup == StartUp \/ EndRace \/ CheckFile \/ FetchProviders \/ FetchGames \/ FetchFails

BootstrapNext == Startup \/ RebuildEnds \/ Crash

\* Every request is answered or times out and every timer fires; the rebuild
\* need not come to an end.
BootstrapFairness == WF_bootVars(Startup)

BootstrapSpec == BootstrapInit /\ [][BootstrapNext]_bootVars /\ BootstrapFairness

-----------------------------------------------------------------------------
\* A server that listens and has the file of providers has the list of every
\* provider with games, unless a start stopped between the two.
ListsComplete ==
  boot = "up" /\ file => gameLists = WithGames \/ unfinished

\* The server listens in the end, even if the rebuild never ends.
EventuallyUp == <>[](boot = "up")
=============================================================================
