----------------------------- MODULE EvmScanner -----------------------------
(***************************************************************************)
(* deposit/evm-scanner.service.ts for one chain: the loop that follows the *)
(* chain's blocks, looks for transfers to deposit addresses and puts them  *)
(* in the deposits queue.  Two of its inputs may be old when they are      *)
(* used: the number of the latest block, which comes from whatever         *)
(* endpoint answers, and the copy of the address set, which is read from   *)
(* Redis at most once a minute.                                            *)
(***************************************************************************)
EXTENDS Integers, FiniteSets

CONSTANTS Transfers,     \* the transfers of a behaviour
          Token, To,     \* the token and the recipient of each
          Confirmations, \* blocks on top of one that is scanned
          BaseBatch, MaxBatch, \* blocks scanned at once
          Lags,          \* the lags from which a batch is larger
          MaxErrors,     \* errors in a row before new endpoints are sought
          Lag,           \* how far behind the chain an endpoint may be
          MaxBlock, MaxFaults \* bounds on the chain and on what fails

Tokens == {"USDT", "USDC", "ETH"}

ASSUME EvmAssumption ==
  /\ Token \in [Transfers -> Tokens] /\ DOMAIN To = Transfers
  /\ Confirmations \in Nat /\ Lags \in [1 .. 3 -> Nat]
  /\ BaseBatch \in Nat \ {0} /\ MaxBatch \in Nat \ {0}
  /\ MaxErrors \in Nat \ {0} /\ Lag \in Nat /\ MaxBlock \in Nat
  /\ MaxFaults \in Nat

Addresses == {To[t] : t \in Transfers}

VARIABLES tip,      \* the chain's latest block
          block,    \* block[t]: the block that holds t, 0 before there is one
          users,    \* the addresses of the registered users
          listed,   \* Redis: deposit_addresses_set
          cursor,   \* the table chain_state: lastProcessedBlock
          jobs,     \* transfers put in the deposits queue
          loop,     \* where pollChain is
          cache,    \* depositAddressesCache
          fresh,    \* the cache is less than a minute old
          from, upto, reach, \* last, maxBlockToProcess and the block number
                    \* they follow from
          todo,     \* log queries and blocks not processed yet
          errors,   \* consecutiveErrors
          alive,    \* the endpoints of the provider in use answer
          faults,   \* how much has failed (bounded)
          cachedAt, \* the latest block when the cache was read (history)
          known,    \* transfers to an address listed by then (history)
          excused,  \* transfers whose scan failed or that a start jumped
                    \* over (history)
          hidden,   \* transfers passed over for want of their address in
                    \* the cache (history)
          soon      \* those of them that were when no more blocks than
                    \* Confirmations had come since it was read (history)

chainVars == <<tip, block, users>>
scan == <<from, upto, reach, todo>>
past == <<cachedAt, known, excused, hidden, soon>>
evmVars == <<tip, block, users, listed, cursor, jobs, loop, cache, fresh, from,
             upto, reach, todo, errors, alive, faults, cachedAt, known,
             excused, hidden, soon>>

Loop == {"down", "off", "refresh", "plan", "tokens", "blocks", "save"}
Tasks == Tokens \X (0 .. MaxBlock)

EvmTypeOK ==
  /\ tip \in 0 .. MaxBlock /\ block \in [Transfers -> 0 .. MaxBlock]
  /\ users \subseteq Addresses /\ listed \subseteq Addresses
  /\ cursor \in 0 .. MaxBlock /\ jobs \subseteq Transfers
  /\ loop \in Loop /\ cache \subseteq Addresses /\ fresh \in BOOLEAN
  /\ {from, upto, reach, cachedAt} \subseteq 0 .. MaxBlock
  /\ todo \subseteq Tasks /\ errors \in 0 .. MaxErrors
  /\ alive \in BOOLEAN /\ faults \in 0 .. MaxFaults
  /\ known \subseteq Transfers /\ excused \subseteq Transfers
  /\ soon \subseteq hidden /\ hidden \subseteq Transfers

EvmInit ==
  /\ tip = 0 /\ block = [t \in Transfers |-> 0]
  /\ users = {} /\ listed = {} /\ cursor = 0 /\ jobs = {}
  /\ loop = "down" /\ cache = {} /\ fresh = FALSE
  /\ from = 0 /\ upto = 0 /\ reach = 0 /\ todo = {}
  /\ errors = 0 /\ alive = TRUE /\ faults = 0
  /\ cachedAt = 0 /\ known = {} /\ excused = {}
  /\ hidden = {} /\ soon = {}

-----------------------------------------------------------------------------
Fault == faults < MaxFaults /\ faults' = faults + 1

\* A registration saves the user before it lists the address; listing may fail.
Register(a) ==
  /\ a \notin users
  /\ users' = users \cup {a}
  /\ \/ listed' = listed \cup {a} /\ UNCHANGED faults
     \/ Fault /\ UNCHANGED listed
  /\ UNCHANGED <<tip, block, cursor, jobs, loop, cache, fresh, scan, errors,
                 alive, past>>

\* A block with transfers to addresses their senders can know.
Mine(S) ==
  /\ tip < MaxBlock
  /\ tip' = tip + 1
  /\ block' = [t \in Transfers |-> IF t \in S THEN tip + 1 ELSE block[t]]
  /\ known' = known \cup {t \in S : To[t] \in listed}
  /\ UNCHANGED <<users, listed, cursor, jobs, loop, cache, fresh, scan, errors,
                 alive, faults, cachedAt, excused, hidden, soon>>

Minable == {t \in Transfers : block[t] = 0 /\ To[t] \in users}

MinutePasses ==
  /\ fresh
  /\ fresh' = FALSE
  /\ UNCHANGED <<chainVars, listed, cursor, jobs, loop, cache, scan, errors,
                 alive, faults, past>>

EndpointsDie ==
  /\ alive /\ Fault
  /\ alive' = FALSE
  /\ UNCHANGED <<chainVars, listed, cursor, jobs, loop, cache, fresh, scan,
                 errors, past>>

\* The number of the latest block, from an endpoint that may be behind.
Reported == {n \in 0 .. tip : n + Lag >= tip}

In(lo, hi) == {t \in Transfers : block[t] > lo /\ block[t] <= hi}

-----------------------------------------------------------------------------
\* "Always start from the latest block when service initializes".
ResumeFrom(n) == n

\* onModuleInit: the users' addresses are listed again, working endpoints are
\* found, and the cursor is set to the latest block.
Start ==
  /\ loop = "down"
  /\ \/ listed' = listed \cup users /\ UNCHANGED faults
     \/ Fault /\ UNCHANGED listed
  /\ \E n \in Reported :
       /\ cursor' = ResumeFrom(n)
       /\ excused' = excused \cup In(cursor, n)
  /\ loop' = "refresh" /\ alive' = TRUE
  /\ UNCHANGED <<chainVars, jobs, cache, fresh, scan, errors, cachedAt, known,
                 hidden, soon>>

\* No endpoint works: the chain is not polled until the next start.
StartFails ==
  /\ loop = "down" /\ Fault
  /\ loop' = "off"
  /\ UNCHANGED <<chainVars, listed, cursor, jobs, cache, fresh, scan, errors,
                 alive, past>>

NoScan == from' = 0 /\ upto' = 0 /\ reach' = 0 /\ todo' = {}

Stop ==
  /\ loop # "down" /\ Fault
  /\ loop' = "down" /\ cache' = {} /\ fresh' = FALSE /\ cachedAt' = 0
  /\ NoScan /\ errors' = 0
  /\ UNCHANGED <<chainVars, listed, cursor, jobs, alive, known, excused, hidden, soon>>

\* refreshAddressCache: a failure is logged and the old copy serves on.
RefreshAddressCache ==
  /\ loop = "refresh"
  /\ loop' = "plan"
  /\ \/ fresh /\ UNCHANGED <<cache, fresh, cachedAt, faults>>
     \/ /\ ~fresh
        /\ cache' = listed /\ fresh' = TRUE /\ cachedAt' = tip
        /\ UNCHANGED faults
     \/ ~fresh /\ Fault /\ UNCHANGED <<cache, fresh, cachedAt>>
  /\ UNCHANGED <<chainVars, listed, cursor, jobs, scan, errors, alive, known,
                 excused, hidden, soon>>

\* A scanner that is behind takes larger batches.
calculateBatchSize(lag) ==
  BaseBatch * (IF lag < Lags[1] THEN 1 ELSE IF lag < Lags[2] THEN 2
               ELSE IF lag < Lags[3] THEN 5 ELSE 10)

Smaller(m, n) == IF m < n THEN m ELSE n

SafeBlock(n) == n - Confirmations

\* Math.max(last, Math.min(safeBlock, last + batch)).
MaxBlockToProcess(last, safe) ==
  IF safe <= last THEN last
  ELSE Smaller(safe, last + Smaller(calculateBatchSize(safe - last), MaxBatch))

\* There is nothing to do, or the token logs of the batch are asked for.
Plan ==
  /\ loop = "plan" /\ alive
  /\ errors' = 0
  /\ \E n \in Reported :
       LET m == MaxBlockToProcess(cursor, SafeBlock(n)) IN
       IF m = cursor
       THEN loop' = "refresh" /\ UNCHANGED scan
       ELSE /\ loop' = "tokens"
            /\ from' = cursor /\ upto' = m /\ reach' = n
            /\ todo' = {"USDT", "USDC"} \X {0}
  /\ UNCHANGED <<chainVars, listed, cursor, jobs, cache, fresh, alive, faults,
                 past>>

\* Mutant: the endpoints are never replaced.
CaughtOnly(fails) ==
  /\ loop' = "refresh"
  /\ errors' = IF errors < MaxErrors THEN errors + 1 ELSE errors
  /\ UNCHANGED alive

\* The loop's catch: after MaxErrors errors in a row other endpoints are
\* taken, if some answer, and the count starts again.
Caught(fails) ==
  /\ loop' = "refresh"
  /\ IF errors + 1 >= MaxErrors
     THEN \/ errors' = 0 /\ alive' = TRUE
          \/ fails /\ errors' = MaxErrors /\ UNCHANGED alive
     ELSE errors' = errors + 1 /\ UNCHANGED alive

PlanFails ==
  /\ loop = "plan"
  /\ \/ ~alive /\ Caught(FALSE) /\ UNCHANGED faults
     \/ Fault /\ Caught(TRUE)
  /\ UNCHANGED <<chainVars, listed, cursor, jobs, cache, fresh, scan, past>>

-----------------------------------------------------------------------------
\* Mutant: fromBlock is last + 2.
ShownLate(task) ==
  {t \in In(from + 1, upto) : /\ Token[t] = task[1]
                              /\ task[2] \in {0, block[t]}}

\* What a log query or a block shows of the batch.
Shown(task) ==
  {t \in In(from, upto) : /\ Token[t] = task[1]
                          /\ task[2] \in {0, block[t]}}

\* The first Promise.all waits for the token logs, the others for the blocks.
Done(rest) ==
  IF rest # {} THEN todo' = rest /\ UNCHANGED loop
  ELSE IF loop = "tokens" /\ from < upto
  THEN todo' = {"ETH"} \X (from + 1 .. upto) /\ loop' = "blocks"
  ELSE todo' = {} /\ loop' = "save"

\* Every transfer to a cached address is enqueued; that one add fails is
\* logged, and a job that exists is no error.
Process(task) ==
  /\ loop \in {"tokens", "blocks"} /\ task \in todo /\ alive
  /\ LET found  == {t \in Shown(task) : To[t] \in cache}
         missed == Shown(task) \ found
     IN /\ \/ jobs' = jobs \cup found /\ UNCHANGED <<excused, faults>>
           \/ /\ Fault
              /\ \E t \in found : /\ jobs' = jobs \cup (found \ {t})
                                  /\ excused' = excused \cup {t}
        /\ hidden' = hidden \cup missed
        /\ soon' = IF reach - cachedAt > Confirmations THEN soon
                   ELSE soon \cup missed
  /\ Done(todo \ {task})
  /\ UNCHANGED <<chainVars, listed, cursor, cache, fresh, from, upto, reach,
                 errors, alive, cachedAt, known>>

\* The query failed: it is logged, and the batch goes on without it.
ProcessFails(task) ==
  /\ loop \in {"tokens", "blocks"} /\ task \in todo
  /\ IF alive THEN Fault ELSE UNCHANGED faults
  /\ excused' = excused \cup Shown(task)
  /\ Done(todo \ {task})
  /\ UNCHANGED <<chainVars, listed, cursor, jobs, cache, fresh, from, upto,
                 reach, errors, alive, cachedAt, known,
                 hidden, soon>>

\* The cursor is saved, or the batch is done again.
SaveCursor ==
  /\ loop = "save"
  /\ NoScan
  /\ \/ /\ cursor' = upto /\ loop' = "refresh"
        /\ UNCHANGED <<errors, alive, faults>>
     \/ Fault /\ Caught(TRUE) /\ UNCHANGED cursor
  /\ UNCHANGED <<chainVars, listed, jobs, cache, fresh, past>>

-----------------------------------------------------------------------------
Scanner ==
  \/ Start \/ RefreshAddressCache \/ Plan \/ PlanFails \/ SaveCursor
  \/ \E task \in todo : Process(task) \/ ProcessFails(task)

EvmNext ==
  \/ \E a \in Addresses : Register(a)
  \/ \E S \in SUBSET Minable : Mine(S)
  \/ MinutePasses \/ EndpointsDie \/ StartFails \/ Stop \/ Scanner

\* The event loop goes on with Scanner, which starts a stopped process too.
EvmSpec == EvmInit /\ [][EvmNext]_evmVars /\ WF_evmVars(Scanner)

-----------------------------------------------------------------------------
\* A transfer below the cursor is in the queue unless its query or its add
\* failed, a start jumped over its block, or its address was not in the cache:
\* the batches leave no hole between them.
NoHoles ==
  \A t \in Transfers :
    block[t] \in 1 .. cursor => t \in jobs \cup excused \cup hidden

\* An address that was listed before its transfer is missing from the cache
\* only if more blocks came between the reading of the cache and that of the
\* block number than the chain asks confirmations: where a minute is shorter
\* than that, only a slow or failed refresh can hide a transfer.
StaleNeedsDelay == known \cap soon = {}

\* No transfer is enqueued before its block has the chain's confirmations.
OnlyConfirmed ==
  \A t \in jobs : block[t] > 0 /\ block[t] + Confirmations <= tip

\* What the scanner of one EVM chain owes: its cursor passes over a transfer only for
\* a reason that is named, the cache misses an address only by a delay, and what is
\* enqueued is confirmed.
EvmSafe == EvmTypeOK /\ NoHoles /\ StaleNeedsDelay /\ OnlyConfirmed

\* A scanner that runs catches up with a chain that stands still, also when
\* its endpoints died.
CatchesUp ==
  (tip = MaxBlock) ~> (cursor + Confirmations + Lag >= MaxBlock \/ loop = "off")
=============================================================================
