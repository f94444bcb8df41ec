---------------------------- MODULE Leaderboard ----------------------------
(***************************************************************************)
(* updateLeaderboard of leaderboard/leaderboard.service.ts: the rows of a  *)
(* period are deleted and written anew, without a transaction, by the      *)
(* rebuild at start-up, by the hourly one, and whenever somebody asks.     *)
(* The rebuild at start-up goes on when its five seconds are over.         *)
(***************************************************************************)
EXTENDS Integers, SequencesExt

CONSTANTS Periods,   \* the periods, in the order they are rebuilt
          Manuals,   \* rebuilds of one period that somebody asks for
          MaxBets,   \* bound on the bets
          MaxErrors  \* bound on database errors and on crashes

ASSUME LeaderboardAssumption ==
  /\ Periods \in Seq(ToSet(Periods)) /\ Periods # << >>
  /\ MaxBets \in Nat /\ MaxErrors \in Nat
  /\ Manuals \cap {"startup", "hourly"} = {}

Runs == {"startup", "hourly"} \cup Manuals

VARIABLES bets,  \* the bets placed so far
          board, \* board[p]: what each run's rows of period p count
          step,  \* the next step of each run
          turn,  \* the index of the period a run works on
          seen,  \* the bets a run has counted
          errors,  \* database errors and crashes so far
          met,   \* periods a run cleared between the two writes of another
                 \* (history)
          dropped  \* periods not yet filled, or cleared by a run that failed to
                   \* fill them (history)

boardVars == <<bets, board, step, turn, seen, errors, met, dropped>>

None == -1

LeaderboardTypeOK ==
  /\ bets \in 0 .. MaxBets /\ errors \in 0 .. MaxErrors
  /\ board \in [DOMAIN Periods -> [Runs -> None .. MaxBets]]
  /\ step \in [Runs -> {"idle", "count", "delete", "insert", "over"}]
  /\ turn \in [Runs -> DOMAIN Periods] /\ seen \in [Runs -> 0 .. MaxBets]
  /\ met \subseteq DOMAIN Periods /\ dropped \subseteq DOMAIN Periods

LeaderboardInit ==
  /\ bets = 0 /\ errors = 0 /\ met = {} /\ dropped = DOMAIN Periods
  /\ board = [p \in DOMAIN Periods |-> [r \in Runs |-> None]]
  /\ step = [r \in Runs |-> "idle"]
  /\ turn = [r \in Runs |-> 1] /\ seen = [r \in Runs |-> 0]

-----------------------------------------------------------------------------
PlaceBet ==
  /\ bets < MaxBets
  /\ bets' = bets + 1
  /\ UNCHANGED <<board, step, turn, seen, errors, met, dropped>>

\* updateAllLeaderboards begins with the first period, GET /leaderboard/update
\* rebuilds the one it names.
BeginRun(r) ==
  /\ step[r] = "idle"
  /\ step' = [step EXCEPT ![r] = "count"]
  /\ \E p \in DOMAIN Periods :
       /\ r \notin Manuals => p = 1
       /\ turn' = [turn EXCEPT ![r] = p]
  /\ UNCHANGED <<bets, board, seen, errors, met, dropped>>

CountBets(r) ==
  /\ step[r] = "count"
  /\ seen' = [seen EXCEPT ![r] = bets]
  /\ step' = [step EXCEPT ![r] = "delete"]
  /\ UNCHANGED <<bets, board, turn, errors, met, dropped>>

Nothing == [q \in Runs |-> None]

\* Mutant: a run deletes only its own rows.
ClearedOwn(r) == [board EXCEPT ![turn[r]][r] = None]

Cleared(r) == [board EXCEPT ![turn[r]] = Nothing]

Filling(p) == {r \in Runs : step[r] = "insert" /\ turn[r] = p}

DeleteRows(r) ==
  /\ step[r] = "delete"
  /\ board' = Cleared(r)
  /\ met' = IF Filling(turn[r]) # {} THEN met \cup {turn[r]}
                ELSE met \ {turn[r]}
  /\ step' = [step EXCEPT ![r] = "insert"]
  /\ UNCHANGED <<bets, turn, seen, errors, dropped>>

\* Mutant: the index of the period runs past the last one.
NextPeriodPast(r) ==
  /\ turn' = [turn EXCEPT ![r] = @ + 1]
  /\ step' = [step EXCEPT ![r] = "count"]

\* The run goes to its next period, or is over; the hourly one will come again.
NextPeriod(r) ==
  IF r \notin Manuals /\ turn[r] < Len(Periods)
  THEN /\ turn' = [turn EXCEPT ![r] = @ + 1]
       /\ step' = [step EXCEPT ![r] = "count"]
  ELSE /\ turn' = [turn EXCEPT ![r] = 1]
       /\ step' = [step EXCEPT ![r] = IF r = "hourly" THEN "idle" ELSE "over"]

InsertRows(r) ==
  /\ step[r] = "insert"
  /\ board' = [board EXCEPT ![turn[r]][r] = seen[r]]
  /\ dropped' = dropped \ {turn[r]}
  /\ seen' = [seen EXCEPT ![r] = 0]
  /\ NextPeriod(r)
  /\ UNCHANGED <<bets, errors, met>>

Lost(R) == {turn[r] : r \in {q \in R : step[q] = "insert"}}

\* updateLeaderboard logs an error; the other periods follow.
RunFails(r) ==
  /\ step[r] \in {"count", "delete", "insert"} /\ errors < MaxErrors
  /\ errors' = errors + 1
  /\ dropped' = dropped \cup Lost({r})
  /\ seen' = [seen EXCEPT ![r] = 0]
  /\ NextPeriod(r)
  /\ UNCHANGED <<bets, board, met>>

\* The process stops and starts again.
RestartRuns ==
  /\ errors < MaxErrors
  /\ errors' = errors + 1
  /\ dropped' = dropped \cup Lost(Runs)
  /\ step' = [r \in Runs |-> IF r \in Manuals /\ step[r] # "idle" THEN "over"
                             ELSE "idle"]
  /\ turn' = [r \in Runs |-> 1] /\ seen' = [r \in Runs |-> 0]
  /\ UNCHANGED <<bets, board, met>>

RunStep(r) == CountBets(r) \/ DeleteRows(r) \/ InsertRows(r)

LeaderboardNext ==
  \/ PlaceBet \/ RestartRuns
  \/ \E r \in Runs : BeginRun(r) \/ RunStep(r) \/ RunFails(r)

\* The hour comes, and the database answers: that the hourly rebuild does not
\* meet itself takes for granted that it needs less than an hour.
LeaderboardFairness ==
  /\ WF_boardVars(BeginRun("hourly"))
  /\ \A r \in Runs : WF_boardVars(RunStep(r))

LeaderboardSpec ==
  LeaderboardInit /\ [][LeaderboardNext]_boardVars /\ LeaderboardFairness

-----------------------------------------------------------------------------
Shown(p) == {r \in Runs : board[p][r] # None}

\* A player is listed twice in a period only if a run cleared it while another
\* had cleared and not yet filled it.
DoubledNeedsCrossing ==
  \A p \in DOMAIN Periods : \A q, r \in Shown(p) : q # r => p \in met

\* Once filled, a period is empty only between the two writes of a run, or until
\* the next one if that run failed.
EmptyIsBeingFilled ==
  \A p \in DOMAIN Periods : Shown(p) # {} \/ Filling(p) # {} \/ p \in dropped

\* A board that lists a player twice, or nobody, has one of these reasons.
BoardsExplained == DoubledNeedsCrossing /\ EmptyIsBeingFilled

Complete(p) == \E r \in Runs : Shown(p) = {r} /\ board[p][r] = bets

\* Whatever met or failed, a later hourly run puts it right: again and again
\* each period counts every bet once, and in the end no player is listed twice.
BoardHeals ==
  /\ \A p \in DOMAIN Periods : []<>Complete(p)
  /\ <>[](\A p \in DOMAIN Periods : \A q, r \in Shown(p) : q = r)
=============================================================================
