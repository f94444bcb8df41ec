------------------------------ MODULE MCUpkeep ------------------------------
(***************************************************************************)
(* What is kept beside the money: the boards, the files of a start, the    *)
(* endpoints of a chain, a price, and the game lists of a browser.  They   *)
(* share nothing, so a behaviour runs one of the five.                     *)
(***************************************************************************)
EXTENDS Leaderboard, Bootstrap, RpcManager, PriceCache, GameCache

VARIABLE part \* the one that runs

vars == <<part, boardVars, bootVars, rpcVars, priceVars, gameVars>>

MCPeriods   == <<"daily", "all">>
MCProviders == <<1, 2, 3>>
MCChainlist == <<"a", "b">>
MCFallback  == <<"b", "c", "d">>

Init == /\ part \in {"board", "start", "rpc", "price", "games"}
        /\ LeaderboardInit /\ BootstrapInit /\ PriceInit
        /\ IF part = "rpc" THEN RpcInit ELSE RpcInit /\ alive = {}
        /\ IF part = "games" THEN GameInit
           ELSE GameInit /\ provider = CHOOSE p \in Shops : TRUE

IfBoard(A) == /\ part = "board" /\ A
              /\ UNCHANGED <<part, bootVars, rpcVars, priceVars, gameVars>>
IfStart(A) == /\ part = "start" /\ A
              /\ UNCHANGED <<part, boardVars, rpcVars, priceVars, gameVars>>
IfRpc(A)   == /\ part = "rpc" /\ A
              /\ UNCHANGED <<part, boardVars, bootVars, priceVars, gameVars>>
IfPrice(A) == /\ part = "price" /\ A
              /\ UNCHANGED <<part, boardVars, bootVars, rpcVars, gameVars>>
IfGames(A) == /\ part = "games" /\ A
              /\ UNCHANGED <<part, boardVars, bootVars, rpcVars, priceVars>>

Next == \/ IfBoard(LeaderboardNext) \/ IfStart(BootstrapNext) \/ IfRpc(RpcNext)
        \/ IfPrice(PriceNext) \/ IfGames(GameNext)

\* The fairness of each part, on the variables of all of them.
Fairness ==
  /\ WF_vars(IfBoard(BeginRun("hourly")))
  /\ \A r \in Runs : WF_vars(IfBoard(RunStep(r)))
  /\ WF_vars(IfStart(Startup))
  /\ WF_vars(IfGames(Render))
  /\ \A r \in Requests : WF_vars(IfGames(Answering(r)))

Spec == Init /\ [][Next]_vars /\ Fairness

-----------------------------------------------------------------------------
\* Where the boards run: whatever met or failed, a later hourly run puts each
\* period right, and in the end no player is listed twice.
BoardsHeal == part = "board" => BoardHeals

\* Where a server starts: it listens in the end, even if the rebuild of the boards
\* never ends.
ComesUp == part = "start" => EventuallyUp

\* Where a browser shows games: the page ends up with the games of the provider
\* that is chosen, in whatever order the answers come.
PagesSettle == part = "games" => PageSettles

\* What is kept up comes to rest in good order, whichever part runs; a page that a
\* failed request has crashed may stay so.
AllSettle == BoardsHeal /\ ComesUp /\ PagesSettle

\* The types of the variables of the five parts.
TypesOK == /\ LeaderboardTypeOK /\ BootstrapTypeOK /\ RpcTypeOK
           /\ PriceTypeOK /\ GameTypeOK
=============================================================================
