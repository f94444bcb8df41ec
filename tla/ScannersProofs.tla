--------------------------- MODULE ScannersProofs ---------------------------
(***************************************************************************)
(* What the cursor of each scanner passes over and what is enqueued: for   *)
(* an EVM chain with any transfers, confirmations, batch sizes, lags and   *)
(* numbers of faults, for Solana and Bitcoin with any number of polls that *)
(* overlap on one address.                                                 *)
(***************************************************************************)
EXTENDS MCScanners, SequenceTheorems, TLAPS

-----------------------------------------------------------------------------
(* An EVM chain.  The loop is one, so what matters is that a batch begins  *)
(* where the last one ended and that every task of it is done before.      *)

\* The types of EvmTypeOK, in two parts.
Booleans == fresh \in BOOLEAN /\ alive \in BOOLEAN

Typed ==
  /\ tip \in 0 .. MaxBlock /\ block \in [Transfers -> 0 .. MaxBlock]
  /\ users \subseteq Addresses /\ listed \subseteq Addresses
  /\ cursor \in 0 .. MaxBlock /\ jobs \subseteq Transfers
  /\ loop \in Loop /\ cache \subseteq Addresses
  /\ {from, upto, reach, cachedAt} \subseteq 0 .. MaxBlock
  /\ todo \subseteq Tasks /\ errors \in 0 .. MaxErrors
  /\ faults \in 0 .. MaxFaults
  /\ known \subseteq Transfers /\ excused \subseteq Transfers
  /\ soon \subseteq hidden /\ hidden \subseteq Transfers

Scanning == loop \in {"tokens", "blocks", "save"}

\* What is mined is on the chain, what is known or was passed over is mined.
OnChain ==
  /\ \A t \in Transfers : block[t] <= tip
  /\ cursor <= tip /\ cachedAt <= tip
  /\ \A t \in known : To[t] \in listed
  /\ \A t \in hidden : block[t] > 0

\* A batch lies above the cursor and below what has its confirmations.
BatchIsSafe ==
  /\ Scanning => /\ from = cursor /\ cursor < upto
                 /\ upto + Confirmations <= reach /\ reach <= tip
  /\ ~Scanning => from = 0 /\ upto = 0 /\ reach = 0 /\ todo = {}
  /\ loop = "save" => todo = {}
  /\ loop = "tokens" => todo \subseteq {"USDT", "USDC"} \X {0}
  /\ loop = "blocks" => todo \subseteq {"ETH"} \X (from + 1 .. upto)

\* A transfer of the batch has been dealt with, or the task that shows it is
\* still to come.
ToCome(t) ==
  IF Token[t] = "ETH"
  THEN loop = "tokens" \/ (loop = "blocks" /\ <<"ETH", block[t]>> \in todo)
  ELSE loop = "tokens" /\ <<Token[t], 0>> \in todo

BatchIsShown ==
  Scanning => \A t \in In(from, upto) :
                t \in jobs \cup excused \cup hidden \/ ToCome(t)

\* The cache has every address that was listed before it was read.
CacheKnows ==
  \A t \in known : block[t] \in 1 .. cachedAt => To[t] \in cache

EvmInv == /\ Typed /\ OnChain /\ BatchIsSafe /\ BatchIsShown /\ CacheKnows
          /\ NoHoles /\ OnlyConfirmed /\ StaleNeedsDelay

-----------------------------------------------------------------------------
LEMMA Bounds == /\ MaxBlock \in Nat /\ MaxFaults \in Nat
                /\ MaxErrors \in Nat /\ MaxErrors > 0
  BY EvmAssumption

LEMMA InitEvmInv == EvmInit => EvmInv
<1> SUFFICES ASSUME EvmInit PROVE EvmInv
  OBVIOUS
<1>1. Typed
  BY Bounds DEF EvmInit, Typed, Loop
<1>2. OnChain /\ BatchIsSafe /\ BatchIsShown /\ CacheKnows
  BY DEF EvmInit, OnChain, BatchIsSafe, BatchIsShown, CacheKnows, Scanning
<1>3. NoHoles /\ OnlyConfirmed /\ StaleNeedsDelay
  BY DEF EvmInit, NoHoles, OnlyConfirmed, StaleNeedsDelay
<1> QED BY <1>1, <1>2, <1>3 DEF EvmInv

LEMMA RegisterKeeps ==
  ASSUME EvmInv, NEW a \in Addresses, Register(a)
  PROVE  EvmInv'
  BY EvmAssumption
  DEF Register, EvmInv, Typed, OnChain, BatchIsSafe, BatchIsShown, CacheKnows,
      NoHoles, OnlyConfirmed, StaleNeedsDelay, Scanning, In, ToCome, Fault, scan,
      past

LEMMA MineKeeps ==
  ASSUME EvmInv, NEW S \in SUBSET Minable, Mine(S)
  PROVE  EvmInv'
<1>1. /\ S \subseteq Transfers /\ \A t \in S : block[t] = 0
      /\ tip \in 0 .. MaxBlock /\ tip + 1 \in 0 .. MaxBlock
      /\ block' \in [Transfers -> 0 .. MaxBlock]
      /\ \A t \in S : block'[t] = tip + 1
      /\ \A t \in Transfers \ S : block'[t] = block[t]
  BY EvmAssumption DEF Mine, Minable, EvmInv, Typed
<1>2. Typed'
  BY <1>1 DEF Mine, EvmInv, Typed, scan
<1>3. OnChain'
  BY <1>1 DEF Mine, EvmInv, Typed, OnChain
<1>4. BatchIsSafe'
  BY <1>1 DEF Mine, EvmInv, Typed, BatchIsSafe, Scanning, scan
<1>5. CacheKnows' /\ StaleNeedsDelay'
  BY <1>1 DEF Mine, EvmInv, Typed, OnChain, CacheKnows, StaleNeedsDelay
<1>6. NoHoles' /\ OnlyConfirmed'
  BY <1>1, EvmAssumption
  DEF Mine, EvmInv, Typed, OnChain, NoHoles, OnlyConfirmed
<1>7. BatchIsShown'
  <2>1. Scanning => upto <= tip
    BY EvmAssumption DEF EvmInv, BatchIsSafe, Typed
  <2>2. Scanning => In(from, upto)' = In(from, upto)
    BY <1>1, <2>1 DEF In, Mine, scan, EvmInv, Typed
  <2>3. \A t \in In(from, upto) : block'[t] = block[t]
    BY <1>1 DEF In, EvmInv, Typed
  <2> QED BY <2>2, <2>3
          DEF Mine, EvmInv, BatchIsShown, Scanning, ToCome, scan
<1> QED BY <1>2, <1>3, <1>4, <1>5, <1>6, <1>7 DEF EvmInv

\* Time, faults and the end of a process take nothing back.
LEMMA OutsideKeeps ==
  ASSUME EvmInv,
         MinutePasses \/ EndpointsDie \/ StartFails \/ UNCHANGED evmVars
  PROVE  EvmInv'
<1>1. Typed'
  BY Bounds
  DEF MinutePasses, EndpointsDie, StartFails, evmVars, chainVars, scan, past,
      EvmInv, Typed, Fault, Loop
<1>2. /\ UNCHANGED <<chainVars, listed, cursor, jobs, cache, scan, past>>
      /\ loop' = loop \/ (loop = "down" /\ loop' = "off")
  BY DEF MinutePasses, EndpointsDie, StartFails, evmVars, chainVars, scan, past
<1>3. OnChain' /\ CacheKnows' /\ NoHoles' /\ OnlyConfirmed' /\ StaleNeedsDelay'
  BY <1>2 DEF EvmInv, OnChain, CacheKnows, NoHoles, OnlyConfirmed,
              StaleNeedsDelay, chainVars, past
<1>4. BatchIsSafe' /\ BatchIsShown'
  BY <1>2 DEF EvmInv, BatchIsSafe, BatchIsShown, Scanning, In, ToCome, chainVars,
              scan, past
<1> QED BY <1>1, <1>3, <1>4 DEF EvmInv

LEMMA StopKeeps ==
  ASSUME EvmInv, Stop PROVE EvmInv'
<1>1. Typed'
  BY Bounds
  DEF Stop, NoScan, chainVars, EvmInv, Typed, Fault, Loop
<1>2. OnChain' /\ CacheKnows'
  BY EvmAssumption
  DEF Stop, chainVars, EvmInv, Typed, OnChain, CacheKnows
<1>3. NoHoles' /\ OnlyConfirmed' /\ StaleNeedsDelay'
  BY DEF Stop, chainVars, EvmInv, NoHoles, OnlyConfirmed, StaleNeedsDelay
<1>4. BatchIsSafe' /\ BatchIsShown'
  BY DEF Stop, NoScan, BatchIsSafe, BatchIsShown, Scanning
<1> QED BY <1>1, <1>2, <1>3, <1>4 DEF EvmInv

LEMMA StartKeeps ==
  ASSUME EvmInv, Start PROVE EvmInv'
<1>1. PICK n \in Reported : /\ cursor' = n
                            /\ excused' = excused \cup In(cursor, n)
  BY DEF Start, ResumeFrom
<1>2. n \in 0 .. MaxBlock /\ n <= tip
  BY EvmAssumption DEF Reported, EvmInv, Typed
<1>3. Typed' /\ OnChain' /\ BatchIsSafe' /\ BatchIsShown' /\ CacheKnows'
  BY <1>1, <1>2, EvmAssumption
  DEF Start, EvmInv, Typed, OnChain, BatchIsSafe, BatchIsShown, CacheKnows,
      Scanning, Fault, chainVars, scan, Loop, In, Addresses
<1>4. NoHoles' /\ OnlyConfirmed' /\ StaleNeedsDelay'
  BY <1>1, <1>2, EvmAssumption
  DEF Start, EvmInv, Typed, NoHoles, OnlyConfirmed, StaleNeedsDelay,
      chainVars, In
<1> QED BY <1>3, <1>4 DEF EvmInv

LEMMA RefreshKeeps ==
  ASSUME EvmInv, RefreshAddressCache PROVE EvmInv'
<1>1. Typed'
  BY Bounds
  DEF RefreshAddressCache, chainVars, scan, EvmInv, Typed, Fault, Loop
<1>2. OnChain' /\ CacheKnows'
  BY DEF RefreshAddressCache, chainVars, EvmInv, Typed, OnChain, CacheKnows
<1>3. NoHoles' /\ OnlyConfirmed' /\ StaleNeedsDelay'
  BY DEF RefreshAddressCache, chainVars, EvmInv, NoHoles, OnlyConfirmed,
         StaleNeedsDelay
<1>4. BatchIsSafe' /\ BatchIsShown'
  BY DEF RefreshAddressCache, chainVars, scan, EvmInv, BatchIsSafe, BatchIsShown,
         Scanning
<1> QED BY <1>1, <1>2, <1>3, <1>4 DEF EvmInv

-----------------------------------------------------------------------------
LEMMA BatchAboveCursor ==
  ASSUME NEW last \in Nat, NEW safe \in Int
  PROVE  /\ MaxBlockToProcess(last, safe) \in Nat
         /\ MaxBlockToProcess(last, safe) >= last
         /\ MaxBlockToProcess(last, safe) > last =>
              MaxBlockToProcess(last, safe) <= safe
<1>1. \A lag \in Int : calculateBatchSize(lag) \in Nat \ {0}
  BY EvmAssumption DEF calculateBatchSize
<1> HIDE DEF calculateBatchSize
<1> QED BY <1>1, EvmAssumption DEF MaxBlockToProcess, Smaller

LEMMA PlanKeeps ==
  ASSUME EvmInv, Plan PROVE EvmInv'
<1>1. PICK n \in Reported :
        LET m == MaxBlockToProcess(cursor, SafeBlock(n)) IN
        IF m = cursor
        THEN loop' = "refresh" /\ UNCHANGED scan
        ELSE /\ loop' = "tokens"
             /\ from' = cursor /\ upto' = m /\ reach' = n
             /\ todo' = {"USDT", "USDC"} \X {0}
  BY DEF Plan
<1> DEFINE m == MaxBlockToProcess(cursor, SafeBlock(n))
<1>2. /\ n \in Nat /\ n <= tip /\ tip <= MaxBlock /\ tip \in Nat
      /\ cursor \in Nat /\ cursor <= tip
      /\ Confirmations \in Nat /\ MaxBlock \in Nat
  BY EvmAssumption DEF Reported, EvmInv, Typed, OnChain
<1>3. /\ m \in Nat /\ m >= cursor
      /\ m # cursor => cursor < m /\ m + Confirmations <= n
  <2>1. SafeBlock(n) \in Int /\ SafeBlock(n) = n - Confirmations
    BY <1>2 DEF SafeBlock
  <2>2. /\ m \in Nat /\ m >= cursor
        /\ m > cursor => m <= n - Confirmations
    BY <1>2, <2>1, BatchAboveCursor
  <2> HIDE DEF m
  <2> QED BY <1>2, <2>2
<1>4. m \in 0 .. MaxBlock
  BY <1>2, <1>3
<1>5. CASE m = cursor
  <2>1. loop' = "refresh" /\ UNCHANGED scan
    BY <1>1, <1>5
  <2> HIDE DEF m
  <2>2. Typed'
    BY <2>1, Bounds DEF Plan, chainVars, scan, past, EvmInv, Typed, Loop
  <2>3. OnChain' /\ CacheKnows' /\ NoHoles' /\ OnlyConfirmed' /\ StaleNeedsDelay'
    BY DEF Plan, chainVars, past, EvmInv, OnChain, CacheKnows, NoHoles,
           OnlyConfirmed, StaleNeedsDelay
  <2>4. BatchIsSafe' /\ BatchIsShown'
    BY <2>1 DEF Plan, scan, EvmInv, BatchIsSafe, BatchIsShown, Scanning
  <2> QED BY <2>2, <2>3, <2>4 DEF EvmInv
<1>6. CASE m # cursor
  <2>1. /\ loop' = "tokens" /\ from' = cursor /\ upto' = m /\ reach' = n
        /\ todo' = {"USDT", "USDC"} \X {0}
    BY <1>1, <1>6
  <2> HIDE DEF m
  <2>2. Typed'
    BY <1>2, <1>4, <2>1, Bounds
    DEF Plan, chainVars, past, EvmInv, Typed, Tasks, Tokens, Loop
  <2>3. OnChain' /\ CacheKnows' /\ NoHoles' /\ OnlyConfirmed' /\ StaleNeedsDelay'
    BY DEF Plan, chainVars, past, EvmInv, OnChain, CacheKnows, NoHoles,
           OnlyConfirmed, StaleNeedsDelay
  <2>4. BatchIsSafe'
    BY <1>2, <1>3, <1>6, <2>1
    DEF Plan, chainVars, BatchIsSafe, Scanning
  <2>5. BatchIsShown'
    <3>1. \A t \in Transfers : Token[t] \in {"USDT", "USDC", "ETH"}
      BY EvmAssumption DEF Tokens
    <3> QED BY <2>1, <3>1 DEF BatchIsShown, ToCome, In
  <2> QED BY <2>2, <2>3, <2>4, <2>5 DEF EvmInv
<1> QED BY <1>5, <1>6

LEMMA PlanFailsKeeps ==
  ASSUME EvmInv, PlanFails PROVE EvmInv'
<1>1. Typed'
  BY Bounds
  DEF PlanFails, Caught, Fault, chainVars, scan, past, EvmInv, Typed, Loop
<1>2. loop = "plan" /\ loop' = "refresh"
  BY DEF PlanFails, Caught
<1>3. OnChain' /\ CacheKnows' /\ NoHoles' /\ OnlyConfirmed' /\ StaleNeedsDelay'
  BY DEF PlanFails, chainVars, past, EvmInv, OnChain, CacheKnows, NoHoles,
         OnlyConfirmed, StaleNeedsDelay
<1>4. BatchIsSafe' /\ BatchIsShown'
  BY <1>2 DEF PlanFails, scan, EvmInv, BatchIsSafe, BatchIsShown, Scanning
<1> QED BY <1>1, <1>3, <1>4 DEF EvmInv

\* With its last task a batch has shown every transfer.
LEMMA SaveKeeps ==
  ASSUME EvmInv, SaveCursor PROVE EvmInv'
<1>1. /\ from = cursor /\ cursor < upto /\ upto <= tip /\ upto \in 0 .. MaxBlock
      /\ \A t \in In(from, upto) : t \in jobs \cup excused \cup hidden
  BY EvmAssumption DEF SaveCursor, EvmInv, Typed, BatchIsSafe, BatchIsShown,
                       Scanning, ToCome
<1>2. Typed'
  BY <1>1, Bounds
  DEF SaveCursor, NoScan, Caught, Fault, chainVars, past, EvmInv, Typed, Loop
<1>5. OnChain' /\ BatchIsSafe' /\ BatchIsShown'
  BY <1>1
  DEF SaveCursor, NoScan, Caught, chainVars, past, EvmInv, OnChain, BatchIsSafe,
      BatchIsShown, Scanning
<1>3. CacheKnows' /\ OnlyConfirmed' /\ StaleNeedsDelay'
  BY DEF SaveCursor, chainVars, past, EvmInv, CacheKnows, OnlyConfirmed,
         StaleNeedsDelay
<1>4. NoHoles'
  <2>1. cursor \in Nat /\ \A t \in Transfers : block[t] \in Nat
    BY EvmAssumption DEF EvmInv, Typed
  <2>2. cursor' \in {cursor, upto}
    BY DEF SaveCursor
  <2>3. \A t \in Transfers : block[t] \in 1 .. upto =>
          t \in jobs \cup excused \cup hidden
    BY <1>1, <2>1 DEF EvmInv, NoHoles, In
  <2> QED BY <2>2, <2>3 DEF SaveCursor, chainVars, past, EvmInv, NoHoles
<1> QED BY <1>2, <1>3, <1>4, <1>5 DEF EvmInv

\* What a task shows is of the batch, and a transfer of the batch that is still to
\* come after it is not shown by it.
LEMMA DoneGoesOn ==
  ASSUME EvmInv, NEW task \in todo, loop \in {"tokens", "blocks"},
         Done(todo \ {task}), UNCHANGED <<chainVars, cursor, from, upto, reach>>,
         jobs \subseteq jobs', excused \subseteq excused', hidden \subseteq hidden',
         Shown(task) \subseteq jobs' \cup excused' \cup hidden'
  PROVE  /\ loop' \in {"tokens", "blocks", "save"}
         /\ todo' \subseteq Tasks
         /\ BatchIsSafe' /\ BatchIsShown'
<1>1. /\ from \in Nat /\ upto \in 0 .. MaxBlock /\ from < upto /\ MaxBlock \in Nat
      /\ Scanning /\ from' = from /\ upto' = upto /\ reach' = reach /\ block' = block
      /\ \A t \in Transfers : block[t] \in Nat /\ Token[t] \in {"USDT", "USDC", "ETH"}
      /\ todo \subseteq Tasks
  BY EvmAssumption
  DEF EvmInv, Typed, BatchIsSafe, Scanning, Tokens, chainVars
<1>2. \/ todo \ {task} # {} /\ todo' = todo \ {task} /\ loop' = loop
      \/ /\ todo = {task} /\ loop = "tokens" /\ loop' = "blocks"
         /\ todo' = {"ETH"} \X (from + 1 .. upto)
      \/ todo = {task} /\ loop = "blocks" /\ todo' = {} /\ loop' = "save"
  BY <1>1 DEF Done
<1>3. /\ loop = "tokens" => todo \subseteq {"USDT", "USDC"} \X {0}
      /\ loop = "blocks" => todo \subseteq {"ETH"} \X (from + 1 .. upto)
  BY DEF EvmInv, BatchIsSafe
<1>4. loop' \in {"tokens", "blocks", "save"} /\ todo' \subseteq Tasks
  BY <1>1, <1>2 DEF Tasks, Tokens
<1>5. BatchIsSafe'
  <2>1. /\ from = cursor /\ cursor < upto
        /\ upto + Confirmations <= reach /\ reach <= tip
    BY <1>1 DEF EvmInv, BatchIsSafe
  <2>2. from' = cursor /\ tip' = tip
    BY <2>1, <1>1 DEF chainVars
  <2>3. loop' = "save" => todo' = {}
    BY <1>2
  <2>4. loop' = "tokens" => todo' \subseteq {"USDT", "USDC"} \X {0}
    BY <1>2, <1>3
  <2>5. loop' = "blocks" => todo' \subseteq {"ETH"} \X (from + 1 .. upto)
    BY <1>2, <1>3
  <2>6. /\ from' = cursor' /\ cursor' < upto'
        /\ upto' + Confirmations <= reach' /\ reach' <= tip'
    BY <1>1, <2>1, <2>2
  <2> QED BY <1>1, <1>4, <2>3, <2>4, <2>5, <2>6 DEF BatchIsSafe, Scanning
<1>6. BatchIsShown'
  <2> SUFFICES ASSUME NEW t \in In(from, upto),
                      t \notin jobs' \cup excused' \cup hidden'
               PROVE  ToCome(t)'
    BY <1>1, <1>2 DEF BatchIsShown, In, Scanning
  <2>1. /\ t \in Transfers /\ from < block[t] /\ block[t] <= upto
        /\ t \notin Shown(task) /\ ToCome(t)
    BY <1>1 DEF In, EvmInv, BatchIsShown
  <2>2. CASE Token[t] = "ETH"
    <3>1. CASE loop = "tokens"
      BY <1>1, <1>2, <2>1, <2>2, <3>1 DEF ToCome
    <3>2. CASE loop = "blocks"
      <4>1. <<"ETH", block[t]>> \in todo
        BY <2>1, <2>2, <3>2 DEF ToCome
      <4>2. task # <<"ETH", block[t]>>
        BY <1>1, <2>1, <2>2 DEF Shown, In
      <4> QED BY <1>1, <1>2, <2>2, <3>2, <4>1, <4>2 DEF ToCome
    <3> QED BY <3>1, <3>2
  <2>3. CASE Token[t] # "ETH"
    <3>1. loop = "tokens" /\ <<Token[t], 0>> \in todo
      BY <2>1, <2>3 DEF ToCome
    <3>2. task # <<Token[t], 0>>
      BY <1>1, <2>1 DEF Shown, In
    <3> QED BY <1>1, <1>2, <2>3, <3>1, <3>2 DEF ToCome
  <2> QED BY <2>2, <2>3
<1> QED BY <1>4, <1>5, <1>6

LEMMA ProcessKeeps ==
  ASSUME EvmInv, NEW task \in todo, Process(task) PROVE EvmInv'
<1> DEFINE missed == {t \in Shown(task) : To[t] \notin cache}
<1>1. /\ jobs \subseteq jobs' /\ excused \subseteq excused'
      /\ jobs' \subseteq jobs \cup Shown(task) /\ excused' \subseteq Transfers
      /\ hidden' = hidden \cup missed
      /\ soon' = IF reach - cachedAt > Confirmations THEN soon ELSE soon \cup missed
      /\ Shown(task) \subseteq jobs' \cup excused' \cup hidden'
      /\ faults' \in 0 .. MaxFaults
  <2>1. Shown(task) \subseteq Transfers
    BY DEF Shown, In
  <2>2. faults' \in 0 .. MaxFaults
    BY EvmAssumption DEF Process, Fault, EvmInv, Typed
  <2>3. /\ hidden' = hidden \cup missed
        /\ soon' = IF reach - cachedAt > Confirmations THEN soon ELSE soon \cup missed
    BY DEF Process
  <2>4. \/ /\ jobs' = jobs \cup {t \in Shown(task) : To[t] \in cache}
           /\ excused' = excused
        \/ \E t \in {s \in Shown(task) : To[s] \in cache} :
             /\ jobs' = jobs \cup ({s \in Shown(task) : To[s] \in cache} \ {t})
             /\ excused' = excused \cup {t}
    BY DEF Process
  <2> HIDE DEF missed
  <2>5. excused \subseteq Transfers
    BY DEF EvmInv, Typed
  <2>6. Shown(task) = missed \cup {t \in Shown(task) : To[t] \in cache}
    BY DEF missed
  <2> QED BY <2>1, <2>2, <2>3, <2>4, <2>5, <2>6
<1>2. /\ loop' \in {"tokens", "blocks", "save"} /\ todo' \subseteq Tasks
      /\ BatchIsSafe' /\ BatchIsShown'
  BY <1>1, DoneGoesOn DEF Process
<1>3. /\ from = cursor /\ cursor \in Nat /\ upto + Confirmations <= reach
      /\ reach <= tip /\ {upto, reach, tip, cachedAt} \subseteq Nat
      /\ Confirmations \in Nat
  BY EvmAssumption DEF Process, EvmInv, Typed, BatchIsSafe, Scanning
<1>4. \A t \in Shown(task) : /\ t \in Transfers /\ block[t] \in Nat
                             /\ block[t] > 0 /\ block[t] <= upto
  BY <1>3 DEF Shown, In, EvmInv, Typed
<1>5. Typed'
  BY <1>1, <1>2, <1>4 DEF Process, EvmInv, Typed, chainVars, Loop
<1>6. OnChain' /\ CacheKnows'
  BY <1>1, <1>4 DEF Process, EvmInv, OnChain, CacheKnows, chainVars
<1>7. NoHoles'
  BY <1>1 DEF Process, EvmInv, NoHoles, chainVars
<1>8. OnlyConfirmed'
  BY <1>1, <1>3, <1>4 DEF Process, EvmInv, OnlyConfirmed, chainVars
<1>9. StaleNeedsDelay'
  <2>1. ASSUME NEW t \in known, t \in missed, ~(reach - cachedAt > Confirmations)
        PROVE  FALSE
    <3>1. block[t] \in 1 .. cachedAt
      BY <1>3, <1>4, <2>1
    <3> QED BY <2>1, <3>1 DEF EvmInv, CacheKnows
  <2> QED BY <1>1, <2>1 DEF Process, EvmInv, StaleNeedsDelay
<1> QED BY <1>2, <1>5, <1>6, <1>7, <1>8, <1>9 DEF EvmInv

LEMMA ProcessFailsKeeps ==
  ASSUME EvmInv, NEW task \in todo, ProcessFails(task) PROVE EvmInv'
<1>1. excused' = excused \cup Shown(task) /\ Shown(task) \subseteq Transfers
  BY DEF ProcessFails, Shown, In
<1>2. /\ loop' \in {"tokens", "blocks", "save"} /\ todo' \subseteq Tasks
      /\ BatchIsSafe' /\ BatchIsShown'
  BY <1>1, DoneGoesOn DEF ProcessFails
<1>3. Typed'
  BY <1>1, <1>2, Bounds
  DEF ProcessFails, Fault, EvmInv, Typed, chainVars, Loop
<1>4. /\ OnChain' /\ CacheKnows' /\ NoHoles' /\ OnlyConfirmed'
      /\ StaleNeedsDelay'
  BY <1>1 DEF ProcessFails, EvmInv, OnChain, CacheKnows, NoHoles, OnlyConfirmed,
              StaleNeedsDelay, chainVars
<1> QED BY <1>2, <1>3, <1>4 DEF EvmInv

-----------------------------------------------------------------------------
LEMMA BooleansKept == EvmInit /\ [][EvmNext]_evmVars => []Booleans
<1>1. EvmInit => Booleans
  BY DEF EvmInit, Booleans
<1>2. Booleans /\ [EvmNext]_evmVars => Booleans'
  <2> SUFFICES ASSUME Booleans, [EvmNext]_evmVars PROVE Booleans'
    OBVIOUS
  <2>1. ASSUME NEW a \in Addresses, Register(a) PROVE Booleans'
    BY <2>1, Zenon DEF Register, Booleans
  <2>2. ASSUME NEW S \in SUBSET Minable, Mine(S) PROVE Booleans'
    BY <2>2, Zenon DEF Mine, Booleans
  <2>3. CASE MinutePasses \/ EndpointsDie \/ StartFails \/ Stop \/ UNCHANGED evmVars
    BY <2>3, Zenon DEF MinutePasses, EndpointsDie, StartFails, Stop, evmVars, Booleans
  <2>4. CASE Start \/ RefreshAddressCache \/ Plan \/ PlanFails \/ SaveCursor
    BY <2>4, Zenon
    DEF Start, RefreshAddressCache, Plan, PlanFails, SaveCursor, Caught, Booleans
  <2>5. ASSUME NEW task \in todo, Process(task) \/ ProcessFails(task)
        PROVE  Booleans'
    BY <2>5, Zenon DEF Process, ProcessFails, Booleans
  <2> QED BY <2>1, <2>2, <2>3, <2>4, <2>5 DEF EvmNext, Scanner
<1> QED BY <1>1, <1>2, PTL

LEMMA EvmInvariant == EvmInit /\ [][EvmNext]_evmVars => []EvmInv
<1>1. EvmInv /\ [EvmNext]_evmVars => EvmInv'
  <2> SUFFICES ASSUME EvmInv, [EvmNext]_evmVars PROVE EvmInv'
    OBVIOUS
  <2>1. CASE \E a \in Addresses : Register(a)
    BY <2>1, RegisterKeeps
  <2>2. CASE \E S \in SUBSET Minable : Mine(S)
    BY <2>2, MineKeeps
  <2>3. CASE MinutePasses \/ EndpointsDie \/ StartFails \/ Stop \/ UNCHANGED evmVars
    BY <2>3, OutsideKeeps, StopKeeps
  <2>4. CASE Start \/ RefreshAddressCache \/ Plan \/ PlanFails \/ SaveCursor
    BY <2>4, StartKeeps, RefreshKeeps, PlanKeeps, PlanFailsKeeps, SaveKeeps
  <2>5. CASE \E task \in todo : Process(task) \/ ProcessFails(task)
    BY <2>5, ProcessKeeps, ProcessFailsKeeps
  <2> QED BY <2>1, <2>2, <2>3, <2>4, <2>5 DEF EvmNext, Scanner
<1> QED BY InitEvmInv, <1>1, PTL

-----------------------------------------------------------------------------
\* Every variable keeps its type: no batch leaves the chain, no count its bound.
THEOREM TypeCorrect == EvmSpec => []EvmTypeOK
<1>1. EvmInv /\ Booleans => EvmTypeOK
  BY Zenon DEF EvmInv, Typed, Booleans, EvmTypeOK
<1> QED BY <1>1, EvmInvariant, BooleansKept, PTL DEF EvmSpec

\* The cursor passes over a transfer only if its query or its add failed, a start
\* jumped over it, or its address was not in the cache, for any sizes of batches.
THEOREM BatchesLeaveNoHole == EvmSpec => []NoHoles
<1>1. EvmInv => NoHoles
  BY DEF EvmInv
<1> QED BY <1>1, EvmInvariant, PTL DEF EvmSpec

\* Nothing is enqueued before it has its confirmations, however far behind the
\* endpoint is that answers.
THEOREM ConfirmedOnly == EvmSpec => []OnlyConfirmed
<1>1. EvmInv => OnlyConfirmed
  BY DEF EvmInv
<1> QED BY <1>1, EvmInvariant, PTL DEF EvmSpec

\* A copy of the addresses hides a listed one only if more blocks came since it was
\* read than the chain asks confirmations.
THEOREM StaleOnlyIfDelayed == EvmSpec => []StaleNeedsDelay
<1>1. EvmInv => StaleNeedsDelay
  BY DEF EvmInv
<1> QED BY <1>1, EvmInvariant, PTL DEF EvmSpec

\* All that the scanner of a chain owes, in any number of faults and restarts.
THEOREM ScansSafe == EvmSpec => []EvmSafe
<1> QED BY TypeCorrect, BatchesLeaveNoHole, StaleOnlyIfDelayed, ConfirmedOnly, PTL
        DEF EvmSafe

-----------------------------------------------------------------------------
(* The Solana scanner.  A poll that is at a signature has dealt with every *)
(* one before it, and so has whichever poll moved a cursor.                *)

PollRecords(n) == [at: {"idle", "asked", "handle", "persist"},
                   next: 0 .. n + 1, last: 0 .. n]

SolTyped ==
  /\ newest \in 0 .. Sigs /\ lastProcessed \in 0 .. newest
  /\ stored \in 0 .. newest
  /\ poll \in [Polls -> PollRecords(newest)]
  /\ added \subseteq (1 .. newest) \X {"SOL", "SPL"}
  /\ solFaults \in 0 .. SolFaults
  /\ unparsed \subseteq 1 .. newest /\ outrun \subseteq 1 .. newest

\* A signature is dealt with: it is enqueued, or there is a reason that it is
\* not, and one that holds up the address has such a reason.
Settled(s) == /\ Enqueued(s) \/ s \in unparsed \cup outrun
              /\ s \in Plain => s \in unparsed \cup outrun

SettledTo(n) == \A s \in 1 .. n : Settled(s)

Follows(x) ==
  /\ x.at = "handle" => /\ x.next \in 1 .. x.last
                        /\ SettledTo(x.next - 1)
  /\ x.at = "persist" => x.next \in 1 .. x.last /\ SettledTo(x.next)

PollsFollow == \A p \in Polls : Follows(poll[p])

\* The job that took the id of a signature is that of its first transfer.
FirstTakesId == \A e \in added : <<e[1], First(Moves[e[1]])>> \in added

SolInv == /\ SolTyped /\ SettledTo(lastProcessed) /\ SettledTo(stored)
          /\ PollsFollow /\ PlainHoldsUp /\ FirstTakesId

LEMMA SolBounds == /\ Sigs \in Nat /\ SolFaults \in Nat /\ Limit \in Nat
                   /\ Limit > 0 /\ Moves \in [1 .. Sigs -> SUBSET {"SOL", "SPL"}]
                   /\ Plain \subseteq 1 .. Sigs
  BY SolAssumption

LEMMA InitSolInv == SolInit => SolInv
<1> SUFFICES ASSUME SolInit PROVE SolInv
  OBVIOUS
<1>1. SolTyped
  BY SolBounds DEF SolInit, SolTyped, PollRecords, Idle
<1>2. /\ SettledTo(lastProcessed) /\ SettledTo(stored) /\ PlainHoldsUp
      /\ FirstTakesId
  BY DEF SolInit, SettledTo, PlainHoldsUp, FirstTakesId
<1>3. PollsFollow
  BY DEF SolInit, PollsFollow, Follows, Idle
<1> QED BY <1>1, <1>2, <1>3 DEF SolInv

\* What is dealt with stays so: nothing leaves the queue, no reason is lost.
LEMMA SettledStays ==
  ASSUME added \subseteq added', unparsed \subseteq unparsed',
         outrun \subseteq outrun', NEW n \in Int, SettledTo(n)
  PROVE  SettledTo(n)'
<1> SUFFICES ASSUME NEW s \in 1 .. n PROVE Settled(s)'
  BY DEF SettledTo
<1>1. Settled(s)
  BY DEF SettledTo
<1> QED BY <1>1 DEF Settled, Enqueued

\* What a step that moves one poll, or none, does to what all of them follow.
LEMMA OnePollMoves ==
  ASSUME SolInv, added \subseteq added', unparsed \subseteq unparsed',
         outrun \subseteq outrun', newest' = newest, NEW p \in Polls,
         NEW x \in PollRecords(newest), poll' = [poll EXCEPT ![p] = x],
         Follows(x)'
  PROVE  poll' \in [Polls -> PollRecords(newest')] /\ PollsFollow'
<1>1. poll \in [Polls -> PollRecords(newest)]
  BY DEF SolInv, SolTyped
<1>2. poll' \in [Polls -> PollRecords(newest')]
  BY <1>1
<1>3. ASSUME NEW q \in Polls PROVE Follows(poll[q])'
  <2>1. CASE q = p
    <3>1. poll'[q] = x
      BY <2>1, <1>1
    <3> QED BY <3>1 DEF Follows
  <2>2. CASE q # p
    <3> PICK y \in PollRecords(newest) : y = poll[q]
      BY <1>1
    <3>1. Follows(y) /\ poll'[q] = y
      BY <1>1, <2>2 DEF SolInv, PollsFollow
    <3>2. y.next \in Int /\ y.next - 1 \in Int
      BY DEF PollRecords, SolInv, SolTyped
    <3>3. SettledTo(y.next) => SettledTo(y.next)'
      BY <3>2, SettledStays
    <3>4. SettledTo(y.next - 1) => SettledTo(y.next - 1)'
      BY <3>2, SettledStays
    <3>5. Follows(y)'
      BY <3>1, <3>3, <3>4 DEF Follows
    <3> QED BY <3>1, <3>5 DEF Follows
  <2> QED BY <2>1, <2>2
<1> QED BY <1>2, <1>3 DEF PollsFollow

LEMMA AppearKeeps == ASSUME SolInv, Appear PROVE SolInv'
<1>1. /\ newest' = newest + 1 /\ newest' \in 0 .. Sigs /\ newest \in Nat
      /\ UNCHANGED <<lastProcessed, stored, poll, added, solFaults, unparsed,
                     outrun>>
  BY SolBounds DEF Appear, SolInv, SolTyped
<1>2. PollRecords(newest) \subseteq PollRecords(newest')
  BY <1>1 DEF PollRecords
<1>3. SolTyped'
  BY <1>1, <1>2 DEF SolInv, SolTyped
<1>4. /\ SettledTo(lastProcessed)' /\ SettledTo(stored)' /\ PlainHoldsUp'
      /\ PollsFollow' /\ FirstTakesId'
  BY <1>1 DEF SolInv, SettledTo, Settled, Enqueued, PlainHoldsUp, PollsFollow,
              Follows, FirstTakesId
<1> QED BY <1>3, <1>4 DEF SolInv

LEMMA AskKeeps == ASSUME SolInv, NEW p \in Polls, Ask(p) PROVE SolInv'
<1> DEFINE x == [at |-> "asked", next |-> 0, last |-> newest]
<1>1. x \in PollRecords(newest) /\ Follows(x)'
  BY DEF PollRecords, Follows, SolInv, SolTyped
<1>2. /\ poll' = [poll EXCEPT ![p] = x]
      /\ UNCHANGED <<newest, lastProcessed, stored, added, solFaults, unparsed,
                     outrun>>
  BY DEF Ask
<1>3. PollsFollow' /\ poll' \in [Polls -> PollRecords(newest')]
  BY <1>1, <1>2, OnePollMoves
<1>4. /\ SettledTo(lastProcessed)' /\ SettledTo(stored)' /\ PlainHoldsUp'
      /\ FirstTakesId'
  BY <1>2 DEF SolInv, SettledTo, Settled, Enqueued, PlainHoldsUp, FirstTakesId
<1>5. SolTyped'
  BY <1>2, <1>3 DEF SolInv, SolTyped
<1> QED BY <1>3, <1>4, <1>5 DEF SolInv

\* A poll that is done with a signature is at the next one or at its end.
LEMMA PollGoesOn ==
  ASSUME SolInv, added \subseteq added', unparsed \subseteq unparsed',
         outrun \subseteq outrun', newest' = newest, NEW p \in Polls,
         NEW n \in Nat \ {0}, GoOn(p, n), SettledTo(n - 1)'
  PROVE  poll' \in [Polls -> PollRecords(newest')] /\ PollsFollow'
<1>1. poll[p] \in PollRecords(newest) /\ newest \in Nat
  BY SolBounds DEF SolInv, SolTyped
<1>2. CASE n > poll[p].last
  <2>1. poll' = [poll EXCEPT ![p] = Idle]
    BY <1>2 DEF GoOn
  <2>2. Idle \in PollRecords(newest) /\ Follows(Idle)'
    BY <1>1 DEF Idle, PollRecords, Follows
  <2> QED BY <2>1, <2>2, OnePollMoves
<1>3. CASE ~(n > poll[p].last)
  <2> PICK last \in 0 .. newest : last = poll[p].last
    BY <1>1 DEF PollRecords
  <2> DEFINE x == [at |-> "handle", next |-> n, last |-> last]
  <2>1. [poll[p] EXCEPT !.at = "handle", !.next = n] = x
    <3> PICK y \in PollRecords(newest) : y = poll[p]
      BY <1>1
    <3> DEFINE Both(k) == IF k = "next" THEN n
                          ELSE IF k = "at" THEN "handle" ELSE y[k]
    <3>1. DOMAIN y = {"at", "next", "last"} /\ last = y.last
      BY DEF PollRecords
    <3>2. [y EXCEPT !.at = "handle", !.next = n] =
            [k \in {"at", "next", "last"} |-> Both(k)]
      BY <3>1
    <3>3. x = [k \in {"at", "next", "last"} |-> Both(k)]
      BY <3>1
    <3> QED BY <3>2, <3>3
  <2>2. poll' = [poll EXCEPT ![p] = [poll[p] EXCEPT !.at = "handle", !.next = n]]
    BY <1>3 DEF GoOn
  <2>5. poll' = [poll EXCEPT ![p] = x]
    BY <2>1, <2>2
  <2>3. x \in PollRecords(newest) /\ n \in 1 .. last
    BY <1>1, <1>3 DEF PollRecords
  <2>4. Follows(x)'
    BY <2>3 DEF Follows
  <2> QED BY <2>3, <2>4, <2>5, OnePollMoves
<1> QED BY <1>2, <1>3

LEMMA AnsweredKeeps == ASSUME SolInv, NEW p \in Polls, Answered(p) PROVE SolInv'
<1>1. UNCHANGED <<newest, lastProcessed, stored, added, solFaults, unparsed>>
  BY DEF Answered
<1>2. /\ newest \in Nat /\ lastProcessed \in 0 .. newest /\ stored \in 0 .. newest
      /\ poll[p].last \in 0 .. newest
  BY SolBounds DEF SolInv, SolTyped, PollRecords
<1> PICK last : last = poll[p].last
  OBVIOUS
<1> PICK old : old = OldestOf(last)
  OBVIOUS
<1> PICK n : n = FirstNew(last)
  OBVIOUS
<1>3. outrun' = outrun \cup (lastProcessed + 1 .. old - 1) /\ GoOn(p, n)
  BY DEF Answered
<1>4. old \in Nat \ {0} /\ old - 1 <= last
  BY <1>2, SolBounds DEF OldestOf
<1>5. n \in Nat \ {0} /\ (n = lastProcessed + 1 \/ n = old)
  BY <1>2, <1>4 DEF FirstNew
<1>6. outrun \subseteq outrun' /\ outrun' \subseteq 1 .. newest
  <2>1. last <= newest /\ lastProcessed + 1 \in Nat \ {0}
    BY <1>2
  <2>2. lastProcessed + 1 .. old - 1 \subseteq 1 .. newest
    BY <1>2, <1>4, <2>1
  <2> QED BY <1>3, <2>2 DEF SolInv, SolTyped
<1>7. SettledTo(lastProcessed)' /\ SettledTo(stored)'
  BY <1>1, <1>2, <1>6, SettledStays DEF SolInv
<1>8. SettledTo(n - 1)'
  <2>1. CASE n = lastProcessed + 1
    <3>1. n - 1 = lastProcessed /\ lastProcessed' = lastProcessed
      BY <1>1, <1>2, <2>1
    <3> QED BY <3>1, <1>7 DEF SettledTo, Settled, Enqueued
  <2>2. CASE n = old
    <3> SUFFICES ASSUME NEW s \in 1 .. n - 1 PROVE Settled(s)'
      BY DEF SettledTo
    <3>1. CASE s \in 1 .. lastProcessed
      BY <3>1, <1>1, <1>7 DEF SettledTo, Settled, Enqueued
    <3>2. CASE s \notin 1 .. lastProcessed
      <4>1. s \in lastProcessed + 1 .. old - 1
        BY <3>2, <2>2, <1>2, <1>4
      <4> QED BY <4>1, <1>3 DEF Settled
    <3> QED BY <3>1, <3>2
  <2> QED BY <1>5, <2>1, <2>2
<1>9. poll' \in [Polls -> PollRecords(newest')] /\ PollsFollow'
  BY <1>1, <1>3, <1>5, <1>6, <1>8, PollGoesOn
<1>10. SolTyped'
  BY <1>1, <1>6, <1>9 DEF SolInv, SolTyped
<1>11. PlainHoldsUp' /\ FirstTakesId'
  BY <1>1, <1>6 DEF SolInv, PlainHoldsUp, FirstTakesId
<1> QED BY <1>7, <1>9, <1>10, <1>11 DEF SolInv

\* Adding the first moves of a signature, or all of them, leaves it with the job of
\* its first transfer, whether or not that was there before.
LEMMA EnqueueAdds ==
  ASSUME FirstTakesId, NEW n, NEW M, Moves[n] \in SUBSET {"SOL", "SPL"},
         M \in {Moves[n], Moves[n] \cap {"SOL"}}, Enqueue(n, M)
  PROVE  /\ FirstTakesId' /\ added \subseteq added'
         /\ \E T \in SUBSET {"SOL", "SPL"} : added' = added \cup {n} \X T
         /\ M # {} => <<n, First(M)>> \in added'
<1> PICK T \in SUBSET M : /\ Jobs(n) = {} /\ M # {} => First(M) \in T
                         /\ added' = added \cup {n} \X T
  BY DEF Enqueue
<1>1. M # {} => First(M) = First(Moves[n])
  BY DEF First
<1>2. M # {} => <<n, First(M)>> \in added'
  <2>1. CASE Jobs(n) = {}
    BY <2>1
  <2>2. ASSUME NEW e \in added, e[1] = n PROVE <<n, First(Moves[n])>> \in added
    BY <2>2 DEF FirstTakesId
  <2> QED BY <1>1, <2>1, <2>2 DEF Jobs
<1>3. FirstTakesId'
  <2> SUFFICES ASSUME NEW e \in added' PROVE <<e[1], First(Moves[e[1]])>> \in added'
    BY DEF FirstTakesId, First
  <2>1. CASE e \in added
    BY <2>1 DEF FirstTakesId
  <2>2. CASE e \notin added
    <3>1. e[1] = n /\ M # {}
      BY <2>2
    <3> QED BY <1>1, <1>2, <3>1
  <2> QED BY <2>1, <2>2
<1> QED BY <1>2, <1>3

\* What a poll enqueues at a signature comes after what is dealt with.
LEMMA HeldUp ==
  ASSUME SolInv, NEW p \in Polls, poll[p].at = "handle",
         NEW T \in SUBSET {"SOL", "SPL"},
         added' = added \cup {poll[p].next} \X T,
         unparsed \subseteq unparsed', outrun \subseteq outrun'
  PROVE  PlainHoldsUp' /\ added' \subseteq (1 .. newest) \X {"SOL", "SPL"}
<1> PICK n : n = poll[p].next
  OBVIOUS
<1>1. n \in 1 .. newest /\ SettledTo(n - 1)
  BY SolBounds DEF SolInv, SolTyped, PollsFollow, Follows, PollRecords
<1>2. SUFFICES ASSUME NEW q \in Plain, NEW e \in added', e[1] > q
               PROVE  q \in unparsed \cup outrun
  BY <1>1 DEF PlainHoldsUp, SolInv, SolTyped
<1>3. CASE e \in added
  BY <1>2, <1>3 DEF SolInv, PlainHoldsUp
<1>4. CASE e \notin added
  <2>1. e[1] = n
    BY <1>4
  <2>2. q \in 1 .. n - 1
    BY <1>1, <1>2, <2>1, SolBounds DEF SolInv, SolTyped
  <2> QED BY <1>1, <2>2 DEF SettledTo, Settled
<1> QED BY <1>3, <1>4

LEMMA GiveUpKeeps == ASSUME SolInv, NEW p \in Polls, GiveUp(p) PROVE SolInv'
<1>1. /\ poll' = [poll EXCEPT ![p] = Idle]
      /\ UNCHANGED <<newest, lastProcessed, stored, unparsed, outrun>>
  BY DEF GiveUp
<1>2. Idle \in PollRecords(newest) /\ Follows(Idle)'
  BY SolBounds DEF Idle, PollRecords, Follows, SolInv, SolTyped
<1>3. \/ added' = added
      \/ poll[p].at = "handle" /\ Enqueue(poll[p].next, Moves[poll[p].next] \cap {"SOL"})
  BY DEF GiveUp
<1>5. /\ PlainHoldsUp' /\ added' \subseteq (1 .. newest) \X {"SOL", "SPL"}
      /\ added \subseteq added' /\ FirstTakesId'
  <2>1. CASE poll[p].at = "handle"
             /\ Enqueue(poll[p].next, Moves[poll[p].next] \cap {"SOL"})
    <3> PICK n : n = poll[p].next
      OBVIOUS
    <3>1. n \in 1 .. newest
      BY <2>1, SolBounds DEF SolInv, SolTyped, PollsFollow, Follows, PollRecords
    <3>2. Moves[n] \in SUBSET {"SOL", "SPL"}
      BY <3>1, SolBounds DEF SolInv, SolTyped
    <3>3. /\ FirstTakesId' /\ added \subseteq added'
          /\ \E T \in SUBSET {"SOL", "SPL"} : added' = added \cup {n} \X T
      BY <2>1, <3>2, EnqueueAdds DEF SolInv
    <3> QED BY <1>1, <2>1, <3>3, HeldUp
  <2>2. CASE added' = added
    BY <2>2, <1>1 DEF PlainHoldsUp, FirstTakesId, SolInv, SolTyped
  <2> QED BY <1>3, <2>1, <2>2
<1>4. added \subseteq added'
  BY <1>5
<1>6. poll' \in [Polls -> PollRecords(newest')] /\ PollsFollow'
  BY <1>1, <1>2, <1>4, OnePollMoves
<1>7. solFaults' \in 0 .. SolFaults
  BY SolBounds DEF GiveUp, SolFault, SolInv, SolTyped
<1>8. SettledTo(lastProcessed)' /\ SettledTo(stored)'
  BY <1>1, <1>4, SettledStays DEF SolInv, SolTyped
<1>9. SolTyped'
  BY <1>1, <1>5, <1>6, <1>7 DEF SolInv, SolTyped
<1> QED BY <1>5, <1>6, <1>8, <1>9 DEF SolInv

LEMMA NotParsedKeeps ==
  ASSUME SolInv, NEW p \in Polls, NotParsed(p) PROVE SolInv'
<1> PICK n : n = poll[p].next
  OBVIOUS
<1>1. n \in 1 .. newest /\ SettledTo(n - 1) /\ newest \in Nat
  BY SolBounds DEF NotParsed, SolInv, SolTyped, PollsFollow, Follows, PollRecords
<1>2. /\ unparsed' = unparsed \cup {n} /\ GoOn(p, n + 1)
      /\ UNCHANGED <<newest, lastProcessed, stored, added, outrun>>
  BY DEF NotParsed
<1>3. SettledTo((n + 1) - 1)'
  <2> SUFFICES ASSUME NEW s \in 1 .. (n + 1) - 1 PROVE Settled(s)'
    BY DEF SettledTo
  <2>1. CASE s = n
    BY <2>1, <1>2 DEF Settled
  <2>2. CASE s # n
    <3>1. s \in 1 .. n - 1
      BY <2>2, <1>1
    <3> QED BY <3>1, <1>1, <1>2 DEF SettledTo, Settled, Enqueued
  <2> QED BY <2>1, <2>2
<1>4. n + 1 \in Nat \ {0} /\ unparsed \subseteq unparsed'
  BY <1>1, <1>2
<1>5. poll' \in [Polls -> PollRecords(newest')] /\ PollsFollow'
  BY <1>2, <1>3, <1>4, PollGoesOn
<1>6. solFaults' \in 0 .. SolFaults
  BY SolBounds DEF NotParsed, SolFault, SolInv, SolTyped
<1>7. SettledTo(lastProcessed)' /\ SettledTo(stored)'
  BY <1>2, <1>4, SettledStays DEF SolInv, SolTyped
<1>8. PlainHoldsUp' /\ FirstTakesId'
  BY <1>2 DEF SolInv, PlainHoldsUp, FirstTakesId
<1>9. SolTyped'
  BY <1>1, <1>2, <1>5, <1>6 DEF SolInv, SolTyped
<1> QED BY <1>5, <1>7, <1>8, <1>9 DEF SolInv

LEMMA HandleKeeps == ASSUME SolInv, NEW p \in Polls, Handle(p) PROVE SolInv'
<1> PICK n : n = poll[p].next
  OBVIOUS
<1>1. /\ n \in 1 .. poll[p].last /\ n \in 1 .. newest /\ SettledTo(n - 1)
      /\ newest \in Nat /\ poll[p].at = "handle" /\ poll[p] \in PollRecords(newest)
      /\ n \in Int
  BY SolBounds DEF Handle, SolInv, SolTyped, PollsFollow, Follows, PollRecords
<1>2. UNCHANGED <<newest, stored, solFaults, unparsed, outrun>>
  BY DEF Handle
<1>3. n <= Sigs /\ Moves[n] \in SUBSET {"SOL", "SPL"}
  BY <1>1, SolBounds DEF SolInv, SolTyped
<1>4. CASE n \in Plain
  <2>1. /\ Enqueue(n, Moves[n] \cap {"SOL"})
        /\ poll' = [poll EXCEPT ![p] = Idle] /\ UNCHANGED lastProcessed
    BY <1>4 DEF Handle
  <2>2. Idle \in PollRecords(newest) /\ Follows(Idle)'
    BY <1>1 DEF Idle, PollRecords, Follows
  <2>3. /\ FirstTakesId' /\ added \subseteq added'
        /\ \E T \in SUBSET {"SOL", "SPL"} : added' = added \cup {n} \X T
    BY <1>3, <2>1, EnqueueAdds DEF SolInv
  <2>4. poll' \in [Polls -> PollRecords(newest')] /\ PollsFollow'
    BY <1>2, <2>1, <2>2, <2>3, OnePollMoves
  <2>6. PlainHoldsUp' /\ added' \subseteq (1 .. newest) \X {"SOL", "SPL"}
    BY <1>1, <1>2, <2>3, HeldUp
  <2>7. SettledTo(lastProcessed)' /\ SettledTo(stored)'
    BY <1>2, <2>1, <2>3, SettledStays DEF SolInv, SolTyped
  <2>8. SolTyped'
    BY <1>2, <2>1, <2>4, <2>6 DEF SolInv, SolTyped
  <2> QED BY <2>3, <2>4, <2>6, <2>7, <2>8 DEF SolInv
<1>5. CASE n \notin Plain
  <2>1. /\ Enqueue(n, Moves[n])
        /\ poll' = [poll EXCEPT ![p].at = "persist"] /\ lastProcessed' = n
    BY <1>5 DEF Handle
  <2>2. /\ FirstTakesId' /\ added \subseteq added'
        /\ \E T \in SUBSET {"SOL", "SPL"} : added' = added \cup {n} \X T
        /\ Moves[n] # {} => <<n, First(Moves[n])>> \in added'
    BY <1>3, <2>1, EnqueueAdds DEF SolInv
  <2>3. SettledTo(n)'
    <3> SUFFICES ASSUME NEW s \in 1 .. n PROVE Settled(s)'
      BY DEF SettledTo
    <3>1. CASE s = n
      BY <3>1, <1>5, <2>2 DEF Settled, Enqueued, First
    <3>2. CASE s # n
      <4>1. s \in 1 .. n - 1
        BY <3>2, <1>1
      <4>2. Settled(s)
        BY <4>1, <1>1 DEF SettledTo
      <4> QED BY <4>2, <1>2, <2>2 DEF Settled, Enqueued
    <3> QED BY <3>1, <3>2
  <2> PICK y \in PollRecords(newest) : y = poll[p]
    BY <1>1
  <2> DEFINE x == [at |-> "persist", next |-> n, last |-> y.last]
  <2>4. [y EXCEPT !.at = "persist"] = x
    BY DEF PollRecords
  <2>5. poll' = [poll EXCEPT ![p] = [y EXCEPT !.at = "persist"]]
    BY <2>1
  <2>6. poll' = [poll EXCEPT ![p] = x]
    BY <2>4, <2>5
  <2>7. x \in PollRecords(newest)
    BY <1>1 DEF PollRecords
  <2>8. Follows(x)'
    BY <1>1, <2>3 DEF Follows
  <2>9. poll' \in [Polls -> PollRecords(newest')] /\ PollsFollow'
    BY <1>2, <2>2, <2>6, <2>7, <2>8, OnePollMoves
  <2>10. PlainHoldsUp' /\ added' \subseteq (1 .. newest) \X {"SOL", "SPL"}
    BY <1>1, <1>2, <2>2, HeldUp
  <2>11. SettledTo(lastProcessed)' /\ SettledTo(stored)'
    <3>1. SettledTo(stored)'
      BY <1>2, <2>2, SettledStays DEF SolInv, SolTyped
    <3>2. SettledTo(lastProcessed)'
      BY <2>1, <2>3 DEF SettledTo, Settled, Enqueued
    <3> QED BY <3>1, <3>2
  <2>12. SolTyped'
    BY <1>1, <1>2, <2>1, <2>9, <2>10 DEF SolInv, SolTyped
  <2> QED BY <2>2, <2>9, <2>10, <2>11, <2>12 DEF SolInv
<1> QED BY <1>4, <1>5

LEMMA PersistKeeps == ASSUME SolInv, NEW p \in Polls, Persist(p) PROVE SolInv'
<1> PICK n : n = poll[p].next
  OBVIOUS
<1>1. n \in 1 .. newest /\ SettledTo(n) /\ newest \in Nat
  BY SolBounds DEF Persist, SolInv, SolTyped, PollsFollow, Follows, PollRecords
<1>2. /\ stored' = n /\ GoOn(p, n + 1)
      /\ UNCHANGED <<newest, lastProcessed, added, solFaults, unparsed, outrun>>
  BY DEF Persist
<1>3. SettledTo(n)' /\ n + 1 \in Nat \ {0} /\ (n + 1) - 1 = n
  BY <1>1, <1>2, SettledStays
<1>4. poll' \in [Polls -> PollRecords(newest')] /\ PollsFollow'
  BY <1>2, <1>3, PollGoesOn
<1>5. SettledTo(lastProcessed)' /\ SettledTo(stored)'
  <2>1. SettledTo(lastProcessed)'
    BY <1>2, SettledStays DEF SolInv, SolTyped
  <2>2. SettledTo(stored)'
    BY <1>2, <1>3 DEF SettledTo, Settled, Enqueued
  <2> QED BY <2>1, <2>2
<1>6. PlainHoldsUp' /\ FirstTakesId'
  BY <1>2 DEF SolInv, PlainHoldsUp, FirstTakesId
<1>7. SolTyped'
  BY <1>1, <1>2, <1>4 DEF SolInv, SolTyped
<1> QED BY <1>4, <1>5, <1>6, <1>7 DEF SolInv

\* The process ends with the cursor that was stored, or the last one; it starts
\* with the stored one, or with none.
LEMMA EndKeeps == ASSUME SolInv, End \/ Load PROVE SolInv'
<1>1. UNCHANGED <<newest, added, unparsed, outrun>>
  BY DEF End, Load
<1>2. /\ lastProcessed' \in {0, stored, lastProcessed}
      /\ stored' \in {stored, lastProcessed}
  BY DEF End, Load
<1>3. newest \in Nat /\ lastProcessed \in 0 .. newest /\ stored \in 0 .. newest
  BY SolBounds DEF SolInv, SolTyped
<1>4. SettledTo(0) /\ SettledTo(stored) /\ SettledTo(lastProcessed)
  BY DEF SolInv, SettledTo
<1>5. SettledTo(lastProcessed)' /\ SettledTo(stored)'
  BY <1>1, <1>2, <1>4 DEF SettledTo, Settled, Enqueued
<1>6. poll' \in [Polls -> PollRecords(newest)] /\ PollsFollow'
  <2>1. CASE poll' = [p \in Polls |-> Idle]
    BY <2>1, <1>3 DEF PollRecords, Idle, PollsFollow, Follows
  <2>2. CASE poll' = poll
    BY <2>2, <1>1 DEF SolInv, SolTyped, PollsFollow, Follows, SettledTo, Settled,
                      Enqueued
  <2> QED BY <2>1, <2>2 DEF End, Load
<1>7. solFaults' \in 0 .. SolFaults
  BY SolBounds DEF End, Load, SolFault, SolInv, SolTyped
<1>8. PlainHoldsUp' /\ FirstTakesId'
  BY <1>1 DEF SolInv, PlainHoldsUp, FirstTakesId
<1>9. SolTyped'
  BY <1>1, <1>2, <1>3, <1>6, <1>7 DEF SolInv, SolTyped
<1> QED BY <1>5, <1>6, <1>8, <1>9 DEF SolInv

LEMMA SolStutters == ASSUME SolInv, UNCHANGED solVars PROVE SolInv'
<1>1. UNCHANGED <<newest, lastProcessed, stored, poll, added, solFaults,
                  unparsed, outrun>>
  BY DEF solVars
<1> QED BY <1>1
  DEF SolInv, SolTyped, SettledTo, Settled, Enqueued, PollsFollow, Follows,
      PlainHoldsUp, FirstTakesId

LEMMA SolInvariant == SolInit /\ [][SolNext]_solVars => []SolInv
<1>1. SolInv /\ [SolNext]_solVars => SolInv'
  <2> SUFFICES ASSUME SolInv, [SolNext]_solVars PROVE SolInv'
    OBVIOUS
  <2>1. CASE Appear \/ End \/ Load \/ UNCHANGED solVars
    BY <2>1, AppearKeeps, EndKeeps, SolStutters
  <2>2. ASSUME NEW p \in Polls, PollStep(p) \/ GiveUp(p) \/ NotParsed(p)
        PROVE  SolInv'
    BY <2>2, AskKeeps, AnsweredKeeps, HandleKeeps, PersistKeeps, GiveUpKeeps,
       NotParsedKeeps DEF PollStep
  <2> QED BY <2>1, <2>2 DEF SolNext
<1> QED BY InitSolInv, <1>1, PTL

RunOrNot == running \in BOOLEAN

LEMMA RunningKept == SolInit /\ [][SolNext]_solVars => []RunOrNot
<1>1. SolInit => RunOrNot
  BY DEF SolInit, RunOrNot
<1>2. RunOrNot /\ [SolNext]_solVars => RunOrNot'
  <2> SUFFICES ASSUME RunOrNot, [SolNext]_solVars
               PROVE  RunOrNot'
    OBVIOUS
  <2>1. CASE Appear \/ End \/ Load \/ UNCHANGED solVars
    BY <2>1, Zenon DEF Appear, End, Load, solVars, RunOrNot
  <2>2. ASSUME NEW p \in Polls, PollStep(p) \/ GiveUp(p) \/ NotParsed(p)
        PROVE  RunOrNot'
    BY <2>2, Zenon
    DEF PollStep, Ask, Answered, Handle, Persist, GiveUp, NotParsed, RunOrNot
  <2> QED BY <2>1, <2>2 DEF SolNext
<1> QED BY <1>1, <1>2, PTL

-----------------------------------------------------------------------------
(* The Bitcoin scanner.  What a poll takes is what is listed above the     *)
(* cursor, so the listing is put back in the order of confirmation first.  *)

LEMMA PlaceThere ==
  ASSUME NEW list, NEW t, t \in ToSet(list)
  PROVE  PlaceIn(list, t) \in DOMAIN list /\ list[PlaceIn(list, t)] = t
<1>1. \E i \in DOMAIN list : list[i] = t
  BY DEF ToSet
<1> QED BY <1>1 DEF PlaceIn

LEMMA InSeq ==
  ASSUME NEW S, NEW s \in Seq(S)
  PROVE  /\ DOMAIN s = 1 .. Len(s) /\ Len(s) \in Nat
         /\ \A i \in 1 .. Len(s) : s[i] \in S
         /\ ToSet(s) \subseteq S
         /\ \A t : Contains(s, t) <=> t \in ToSet(s)
         /\ s # <<>> => Len(s) > 0 /\ Head(s) \in ToSet(s)
<1>1. DOMAIN s = 1 .. Len(s) /\ Len(s) \in Nat /\ \A i \in 1 .. Len(s) : s[i] \in S
  BY LenProperties
<1>2. \A t : Contains(s, t) <=> t \in ToSet(s)
  BY <1>1 DEF Contains, ToSet
<1>3. s # <<>> => Len(s) > 0
  BY EmptySeq
<1>4. s # <<>> => Head(s) \in ToSet(s)
  BY <1>1, <1>3 DEF ToSet
<1>5. ToSet(s) \subseteq S
  BY <1>1 DEF ToSet
<1> QED BY <1>1, <1>2, <1>3, <1>4, <1>5

LEMMA Appended ==
  ASSUME NEW S, NEW s \in Seq(S), NEW t \in S
  PROVE  /\ Append(s, t) \in Seq(S) /\ Len(Append(s, t)) = Len(s) + 1
         /\ \A i \in 1 .. Len(s) : Append(s, t)[i] = s[i]
         /\ Append(s, t)[Len(s) + 1] = t
         /\ ToSet(Append(s, t)) = ToSet(s) \cup {t}
         /\ IsInjective(s) /\ t \notin ToSet(s) => IsInjective(Append(s, t))
<1>1. Len(s) \in Nat /\ DOMAIN s = 1 .. Len(s)
  BY InSeq
<1>2. /\ Append(s, t) \in Seq(S) /\ Len(Append(s, t)) = Len(s) + 1
      /\ \A i \in 1 .. Len(s) : Append(s, t)[i] = s[i]
      /\ Append(s, t)[Len(s) + 1] = t
  BY <1>1
<1>3. DOMAIN Append(s, t) = 1 .. Len(s) + 1
  BY <1>2, LenProperties
<1>4. ToSet(Append(s, t)) = ToSet(s) \cup {t}
  BY <1>1, <1>2, <1>3 DEF ToSet
<1>5. IsInjective(s) /\ t \notin ToSet(s) => IsInjective(Append(s, t))
  BY <1>1, <1>2, <1>3 DEF ToSet, IsInjective
<1> QED BY <1>2, <1>4, <1>5

LEMMA Cut ==
  ASSUME NEW S, NEW s \in Seq(S), NEW m \in Nat \ {0}, NEW n \in Nat,
         n <= Len(s), m <= n + 1
  PROVE  /\ SubSeq(s, m, n) \in Seq(S) /\ Len(SubSeq(s, m, n)) = (n - m) + 1
         /\ \A i \in 1 .. (n - m) + 1 : SubSeq(s, m, n)[i] = s[(m + i) - 1]
  BY SMT

\* A transaction leaves the unconfirmed ones: the others stay as they were.
LEMMA Removed ==
  ASSUME NEW S, NEW s \in Seq(S), IsInjective(s), NEW t \in ToSet(s)
  PROVE  /\ RemoveAt(s, PlaceIn(s, t)) \in Seq(S)
         /\ IsInjective(RemoveAt(s, PlaceIn(s, t)))
         /\ ToSet(RemoveAt(s, PlaceIn(s, t))) = ToSet(s) \ {t}
<1> PICK k : k = PlaceIn(s, t)
  OBVIOUS
<1>1. /\ Len(s) \in Nat /\ DOMAIN s = 1 .. Len(s)
      /\ \A i \in 1 .. Len(s) : s[i] \in S
  BY InSeq
<1>2. k \in 1 .. Len(s) /\ s[k] = t
  BY <1>1, PlaceThere
<1> DEFINE a == SubSeq(s, 1, k - 1)
           b == SubSeq(s, k + 1, Len(s))
<1>3. /\ a \in Seq(S) /\ Len(a) = k - 1
      /\ \A i \in 1 .. k - 1 : a[i] = s[i]
  <2>1. /\ 1 \in Nat \ {0} /\ k - 1 \in Nat /\ k - 1 <= Len(s)
        /\ 1 <= (k - 1) + 1 /\ ((k - 1) - 1) + 1 = k - 1
    BY <1>1, <1>2
  <2>2. /\ a \in Seq(S) /\ Len(a) = ((k - 1) - 1) + 1
        /\ \A i \in 1 .. ((k - 1) - 1) + 1 : a[i] = s[(1 + i) - 1]
    BY <2>1, Cut
  <2>3. \A i \in 1 .. k - 1 : (1 + i) - 1 = i
    OBVIOUS
  <2> QED BY <2>1, <2>2, <2>3
<1>4. /\ b \in Seq(S) /\ Len(b) = Len(s) - k
      /\ \A i \in 1 .. Len(s) - k : b[i] = s[k + i]
  <2>1. /\ k + 1 \in Nat \ {0} /\ Len(s) \in Nat /\ Len(s) <= Len(s)
        /\ k + 1 <= Len(s) + 1 /\ (Len(s) - (k + 1)) + 1 = Len(s) - k
    BY <1>1, <1>2
  <2>2. /\ b \in Seq(S) /\ Len(b) = (Len(s) - (k + 1)) + 1
        /\ \A i \in 1 .. (Len(s) - (k + 1)) + 1 : b[i] = s[((k + 1) + i) - 1]
    BY <2>1, Cut
  <2>3. \A i \in 1 .. Len(s) - k : ((k + 1) + i) - 1 = k + i
    BY <1>1, <1>2
  <2> QED BY <2>1, <2>2, <2>3
<1> HIDE DEF a, b
<1>5. /\ a \o b \in Seq(S) /\ Len(a \o b) = Len(a) + Len(b)
      /\ \A i \in 1 .. Len(a) + Len(b) :
           (a \o b)[i] = IF i <= Len(a) THEN a[i] ELSE b[i - Len(a)]
  BY <1>3, <1>4, ConcatProperties, Zenon
<1> PICK r : r = a \o b
  OBVIOUS
<1>6. RemoveAt(s, PlaceIn(s, t)) = r
  BY DEF RemoveAt, a, b
<1>7. r \in Seq(S) /\ Len(r) = Len(s) - 1 /\ DOMAIN r = 1 .. Len(s) - 1
  <2>1. Len(r) = Len(s) - 1
    BY <1>1, <1>2, <1>3, <1>4, <1>5
  <2> QED BY <1>5, <2>1, InSeq
<1>8. \A i \in 1 .. Len(s) - 1 : r[i] = IF i <= k - 1 THEN s[i] ELSE s[i + 1]
  <2> SUFFICES ASSUME NEW i \in 1 .. Len(s) - 1
               PROVE  r[i] = IF i <= k - 1 THEN s[i] ELSE s[i + 1]
    OBVIOUS
  <2>1. r[i] = IF i <= k - 1 THEN a[i] ELSE b[i - (k - 1)]
    <3>1. i \in 1 .. Len(a) + Len(b)
      BY <1>1, <1>2, <1>3, <1>4
    <3> QED BY <3>1, <1>3, <1>5
  <2>2. CASE i <= k - 1
    BY <2>1, <2>2, <1>3, <1>1, <1>2
  <2>3. CASE ~(i <= k - 1)
    <3>1. i - (k - 1) \in 1 .. Len(s) - k /\ k + (i - (k - 1)) = i + 1
      BY <2>3, <1>1, <1>2
    <3> QED BY <2>1, <2>3, <3>1, <1>4
  <2> QED BY <2>2, <2>3
<1>9. IsInjective(r)
  <2> SUFFICES ASSUME NEW i \in 1 .. Len(s) - 1, NEW j \in 1 .. Len(s) - 1,
                      r[i] = r[j]
               PROVE  i = j
    BY <1>7 DEF IsInjective
  <2> DEFINE up(n) == IF n <= k - 1 THEN n ELSE n + 1
  <2>1. /\ up(i) \in 1 .. Len(s) /\ up(j) \in 1 .. Len(s)
        /\ up(i) = up(j) => i = j
    BY <1>1, <1>2
  <2>2. s[up(i)] = s[up(j)]
    BY <1>8
  <2> QED BY <2>1, <2>2, <1>1 DEF IsInjective
<1>10. ToSet(r) = ToSet(s) \ {t}
  <2>1. ASSUME NEW x \in ToSet(r) PROVE x \in ToSet(s) \ {t}
    <3>1. PICK i \in 1 .. Len(s) - 1 : x = r[i]
      BY <1>7 DEF ToSet
    <3> PICK j : j = IF i <= k - 1 THEN i ELSE i + 1
      OBVIOUS
    <3>2. j \in 1 .. Len(s) /\ j # k
      BY <1>1, <1>2
    <3>3. x = s[j]
      BY <3>1, <1>8
    <3> QED BY <3>2, <3>3, <1>1, <1>2 DEF ToSet, IsInjective
  <2>2. ASSUME NEW x \in ToSet(s), x # t PROVE x \in ToSet(r)
    <3>1. PICK j \in 1 .. Len(s) : x = s[j]
      BY <1>1 DEF ToSet
    <3>2. j # k
      BY <2>2, <3>1, <1>2
    <3> PICK i : i = IF j < k THEN j ELSE j - 1
      OBVIOUS
    <3>3. i \in 1 .. Len(s) - 1 /\ j = IF i <= k - 1 THEN i ELSE i + 1
      BY <3>2, <1>1, <1>2
    <3>4. r[i] = s[j]
      BY <3>3, <1>8
    <3> QED BY <3>1, <3>3, <3>4, <1>7 DEF ToSet
  <2> QED BY <2>1, <2>2
<1> QED BY <1>6, <1>7, <1>9, <1>10

\* The listing shows what there is; what is confirmed and not above a listed
\* transaction was confirmed no later than that one.
LEMMA Listed ==
  ASSUME NEW S, NEW c \in Seq(S), NEW m \in Seq(S)
  PROVE  /\ Reverse(c \o m) \in Seq(S)
         /\ ToSet(Reverse(c \o m)) = ToSet(c) \cup ToSet(m)
<1> PICK b : b = c \o m
  OBVIOUS
<1>1. /\ Len(c) \in Nat /\ DOMAIN c = 1 .. Len(c)
      /\ Len(m) \in Nat /\ DOMAIN m = 1 .. Len(m)
  BY InSeq
<1>2. /\ b \in Seq(S) /\ Len(b) = Len(c) + Len(m)
      /\ \A i \in 1 .. Len(c) + Len(m) :
           b[i] = IF i <= Len(c) THEN c[i] ELSE m[i - Len(c)]
  BY ConcatProperties, Zenon
<1>3. \A i \in 1 .. Len(b) : b[i] \in S
  BY <1>2, InSeq
<1>4. /\ Reverse(b) \in Seq(S) /\ DOMAIN Reverse(b) = 1 .. Len(b)
      /\ \A i \in 1 .. Len(b) : Reverse(b)[i] = b[(Len(b) - i) + 1]
  BY <1>1, <1>2, <1>3, SeqDef DEF Reverse
<1>5. ASSUME NEW x \in ToSet(Reverse(b)) PROVE x \in ToSet(c) \cup ToSet(m)
  <2>1. PICK i \in 1 .. Len(b) : x = Reverse(b)[i]
    BY <1>4 DEF ToSet
  <2> PICK j : j = (Len(b) - i) + 1
    OBVIOUS
  <2>2. x = b[j] /\ j \in 1 .. Len(c) + Len(m)
    BY <2>1, <1>1, <1>2, <1>4
  <2>3. CASE j <= Len(c)
    BY <2>2, <2>3, <1>1, <1>2 DEF ToSet
  <2>4. CASE ~(j <= Len(c))
    <3>1. j - Len(c) \in 1 .. Len(m) /\ x = m[j - Len(c)]
      BY <2>2, <2>4, <1>1, <1>2
    <3> QED BY <3>1, <1>1 DEF ToSet
  <2> QED BY <2>3, <2>4
<1>6. ASSUME NEW x \in ToSet(c) \cup ToSet(m) PROVE x \in ToSet(Reverse(b))
  <2>1. PICK j \in 1 .. Len(b) : x = b[j]
    <3>1. CASE x \in ToSet(c)
      <4>1. PICK i \in 1 .. Len(c) : x = c[i]
        BY <3>1, <1>1 DEF ToSet
      <4>2. i \in 1 .. Len(b) /\ b[i] = x
        BY <4>1, <1>1, <1>2
      <4> QED BY <4>2
    <3>2. CASE x \in ToSet(m)
      <4>1. PICK i \in 1 .. Len(m) : x = m[i]
        BY <3>2, <1>1 DEF ToSet
      <4>2. /\ Len(c) + i \in 1 .. Len(b) /\ ~(Len(c) + i <= Len(c))
            /\ (Len(c) + i) - Len(c) = i
        BY <1>1, <1>2
      <4>3. b[Len(c) + i] = x
        BY <4>1, <4>2, <1>2
      <4> QED BY <4>2, <4>3
    <3> QED BY <3>1, <3>2
  <2>2. (Len(b) - j) + 1 \in 1 .. Len(b) /\ (Len(b) - ((Len(b) - j) + 1)) + 1 = j
    BY <1>1, <1>2
  <2>3. Reverse(b)[(Len(b) - j) + 1] = x
    BY <2>1, <2>2, <1>4
  <2> QED BY <2>2, <2>3, <1>4 DEF ToSet
<1> QED BY <1>4, <1>5, <1>6

\* t was confirmed no later than c, or c is not confirmed.
Below(c, t) == \/ c \in ToSet(mempool)
               \/ \E i, j \in DOMAIN chain : i <= j /\ chain[i] = t /\ chain[j] = c

\* Of what is listed, what is above another transaction is above it for good.
LEMMA ListedBelow ==
  ASSUME chain \in Seq(Txs), mempool \in Seq(Txs),
         ToSet(mempool) \cap ToSet(chain) = {},
         NEW i \in DOMAIN Listing, NEW j \in DOMAIN Listing, i <= j,
         Listing[j] \in ToSet(chain)
  PROVE  Below(Listing[i], Listing[j])
<1> PICK b : b = chain \o mempool
  OBVIOUS
<1> PICK list : list = Reverse(b)
  OBVIOUS
<1>1. /\ Len(chain) \in Nat /\ DOMAIN chain = 1 .. Len(chain)
      /\ Len(mempool) \in Nat /\ DOMAIN mempool = 1 .. Len(mempool)
  BY InSeq
<1>2. /\ b \in Seq(Txs) /\ Len(b) = Len(chain) + Len(mempool)
      /\ \A k \in 1 .. Len(chain) + Len(mempool) :
           b[k] = IF k <= Len(chain) THEN chain[k] ELSE mempool[k - Len(chain)]
  BY ConcatProperties, Zenon
<1>3. list = Listing
  BY DEF Listing
<1>4. /\ DOMAIN list = 1 .. Len(b)
      /\ \A k \in 1 .. Len(b) : list[k] = b[(Len(b) - k) + 1]
  BY DEF Reverse
<1> PICK m : m = (Len(b) - i) + 1
  OBVIOUS
<1> PICK n : n = (Len(b) - j) + 1
  OBVIOUS
<1>5. /\ m \in 1 .. Len(chain) + Len(mempool) /\ n \in 1 .. Len(chain) + Len(mempool)
      /\ n <= m /\ list[i] = b[m] /\ list[j] = b[n]
  <2>1. i \in 1 .. Len(b) /\ j \in 1 .. Len(b)
    BY <1>3, <1>4
  <2>2. list[i] = b[m] /\ list[j] = b[n]
    BY <2>1, <1>4
  <2> QED BY <2>1, <2>2, <1>1, <1>2
<1>6. n \in 1 .. Len(chain) /\ list[j] = chain[n]
  <2>1. CASE n <= Len(chain)
    BY <2>1, <1>1, <1>2, <1>5
  <2>2. CASE ~(n <= Len(chain))
    <3>1. n - Len(chain) \in 1 .. Len(mempool) /\ list[j] = mempool[n - Len(chain)]
      BY <2>2, <1>1, <1>2, <1>5
    <3>2. list[j] \in ToSet(mempool)
      BY <3>1, <1>1 DEF ToSet
    <3> QED BY <3>2, <1>3
  <2> QED BY <2>1, <2>2
<1>7. CASE m <= Len(chain)
  <2>1. m \in 1 .. Len(chain) /\ list[i] = chain[m]
    BY <1>7, <1>1, <1>2, <1>5
  <2> QED BY <2>1, <1>1, <1>3, <1>5, <1>6 DEF Below
<1>8. CASE ~(m <= Len(chain))
  <2>1. m - Len(chain) \in 1 .. Len(mempool) /\ list[i] = mempool[m - Len(chain)]
    BY <1>8, <1>1, <1>2, <1>5
  <2>2. list[i] \in ToSet(mempool)
    BY <2>1, <1>1 DEF ToSet
  <2> QED BY <2>2, <1>3 DEF Below
<1> QED BY <1>7, <1>8

\* What the cut at the cursor keeps is the front of the list, and what it leaves
\* out is the cursor or below it.
LEMMA CutAtCursor ==
  ASSUME NEW list \in Seq(Txs)
  PROVE  /\ AboveCursor(list) \in Seq(Txs)
         /\ ToSet(AboveCursor(list)) \subseteq ToSet(list)
         /\ AboveCursor(list) # <<>>
              => list # <<>> /\ Head(AboveCursor(list)) = Head(list)
         /\ \A t \in ToSet(list) \ ToSet(AboveCursor(list)) :
              \E i, j \in DOMAIN list :
                i <= j /\ list[i] = lastProcessedTx /\ list[j] = t
<1> PICK took : took = AboveCursor(list)
  OBVIOUS
<1>1. /\ Len(list) \in Nat /\ DOMAIN list = 1 .. Len(list)
      /\ \A t : Contains(list, t) <=> t \in ToSet(list)
  BY InSeq
<1>2. CASE Contains(list, lastProcessedTx)
  <2> PICK k : k = PlaceIn(list, lastProcessedTx)
    OBVIOUS
  <2>1. k \in 1 .. Len(list) /\ list[k] = lastProcessedTx
    BY <1>1, <1>2, PlaceThere
  <2>2. /\ 1 \in Nat \ {0} /\ k - 1 \in Nat /\ k - 1 <= Len(list)
        /\ 1 <= (k - 1) + 1 /\ ((k - 1) - 1) + 1 = k - 1
    BY <1>1, <2>1
  <2>3. took = SubSeq(list, 1, k - 1)
    BY <1>2 DEF AboveCursor
  <2>4. /\ took \in Seq(Txs) /\ Len(took) = ((k - 1) - 1) + 1
        /\ \A i \in 1 .. ((k - 1) - 1) + 1 : took[i] = list[(1 + i) - 1]
    BY <2>2, <2>3, Cut
  <2>5. /\ Len(took) = k - 1 /\ DOMAIN took = 1 .. k - 1
        /\ \A i \in 1 .. k - 1 : took[i] = list[i] /\ i \in 1 .. Len(list)
    BY <2>2, <2>4, <1>1, InSeq
  <2>6. ToSet(took) \subseteq ToSet(list)
    BY <2>5, <1>1 DEF ToSet
  <2>7. took # <<>> => list # <<>> /\ Head(took) = Head(list)
    <3> SUFFICES ASSUME took # <<>> PROVE list # <<>> /\ Head(took) = Head(list)
      OBVIOUS
    <3>1. 1 \in 1 .. k - 1
      BY <2>1, <2>4, <2>5, EmptySeq
    <3>2. took[1] = list[1] /\ list # <<>>
      BY <3>1, <2>5, <1>1
    <3> QED BY <3>2, <2>4
  <2>8. ASSUME NEW t \in ToSet(list) \ ToSet(took)
        PROVE  \E i, j \in DOMAIN list :
                 i <= j /\ list[i] = lastProcessedTx /\ list[j] = t
    <3>1. PICK j \in 1 .. Len(list) : list[j] = t
      BY <1>1 DEF ToSet
    <3>2. j \notin 1 .. k - 1
      BY <2>5, <2>8, <3>1 DEF ToSet
    <3>3. k <= j
      BY <2>1, <3>1, <3>2
    <3> QED BY <2>1, <3>1, <3>3, <1>1
  <2> QED BY <2>4, <2>6, <2>7, <2>8
<1>3. CASE ~Contains(list, lastProcessedTx)
  BY <1>3 DEF AboveCursor
<1> QED BY <1>2, <1>3

\* What is confirmed and left out by a cut of the list of this moment.
LEMMA NotAbove ==
  ASSUME chain \in Seq(Txs), mempool \in Seq(Txs),
         ToSet(mempool) \cap ToSet(chain) = {}, NEW t \in ToSet(chain),
         t \notin ToSet(AboveCursor(Listing))
  PROVE  Below(lastProcessedTx, t)
<1>1. Listing \in Seq(Txs) /\ t \in ToSet(Listing)
  BY Listed DEF Listing
<1>2. PICK i, j \in DOMAIN Listing :
        i <= j /\ Listing[i] = lastProcessedTx /\ Listing[j] = t
  BY <1>1, CutAtCursor
<1>3. Below(Listing[i], Listing[j])
  BY <1>2, ListedBelow
<1> QED BY <1>2, <1>3

-----------------------------------------------------------------------------
PollBooks == [at: {"idle", "answered", "took"}, txs: Seq(Txs),
              confirmed: SUBSET Txs]

BtcTyped ==
  /\ mempool \in Seq(Txs) /\ chain \in Seq(Txs)
  /\ IsInjective(mempool) /\ IsInjective(chain)
  /\ ToSet(mempool) \cap ToSet(chain) = {}
  /\ polls \in [BtcPolls -> PollBooks]
  /\ queued \subseteq ToSet(chain) /\ btcFaults \in 0 .. BtcFaults
  /\ early \subseteq Txs /\ dropped \subseteq Txs /\ overtook \subseteq Txs

Excused == queued \cup early \cup dropped \cup overtook

OnTheList == ToSet(chain) \cup ToSet(mempool)

\* The cursor was on the list when it was taken, and was dealt with then.
CursorIsDone ==
  /\ lastProcessedTx \in OnTheList \cup {NoTx}
  /\ lastProcessedTx \in Txs => lastProcessedTx \in Excused
  /\ \A t \in ToSet(chain) : Below(lastProcessedTx, t) => t \in Excused

\* What is below the cursor a poll may set is dealt with, or it was confirmed
\* when the poll was answered, or the poll took it and deals with it.
PollIsDone(b) ==
  /\ ToSet(b.txs) \subseteq OnTheList
  /\ b.confirmed \subseteq ToSet(b.txs) \cap ToSet(chain)
  /\ b.at = "answered" /\ b.txs # <<>> =>
       \A t \in ToSet(chain) :
         Below(Head(b.txs), t) => t \in Excused \cup b.confirmed \cup {Head(b.txs)}
  /\ b.at = "took" =>
       /\ b.txs # <<>>
       /\ \A t \in ToSet(chain) :
            Below(Head(b.txs), t) => t \in Excused \cup ToSet(b.txs)

\* An answer that is on its way shows confirmed transactions in their order.
AnswerInOrder(b) ==
  b.at = "answered" =>
    \A i, j \in DOMAIN b.txs :
      i <= j /\ b.txs[j] \in b.confirmed => Below(b.txs[i], b.txs[j])

PollKept(b) == PollIsDone(b) /\ AnswerInOrder(b)

BtcInv == /\ BtcTyped /\ CursorIsDone
          /\ \A p \in BtcPolls : PollKept(polls[p])

LEMMA InitBtcInv == BtcInit => BtcInv
<1> SUFFICES ASSUME BtcInit PROVE BtcInv
  OBVIOUS
<1>1. /\ mempool = <<>> /\ chain = <<>> /\ queued = {} /\ early = {}
      /\ dropped = {} /\ overtook = {} /\ lastProcessedTx = NoTx
      /\ polls = [p \in BtcPolls |-> NoPoll] /\ btcFaults = 0
  BY DEF BtcInit
<1>2. /\ <<>> \in Seq(Txs) /\ DOMAIN (<<>>) = {} /\ ToSet(<<>>) = {}
      /\ IsInjective(<<>>)
  BY DEF ToSet, IsInjective
<1>3. BtcTyped
  BY <1>1, <1>2, BtcAssumption DEF BtcTyped, NoPoll, PollBooks
<1>4. CursorIsDone
  BY <1>1, <1>2, BtcAssumption DEF CursorIsDone
<1>5. \A p \in BtcPolls : PollKept(polls[p])
  BY <1>1, <1>2 DEF PollKept, AnswerInOrder, PollIsDone, NoPoll
<1> QED BY <1>3, <1>4, <1>5 DEF BtcInv

LEMMA BroadcastKeeps == ASSUME BtcInv, NEW t \in Txs, Broadcast(t) PROVE BtcInv'
<1>1. /\ mempool' = Append(mempool, t)
      /\ UNCHANGED <<chain, lastProcessedTx, polls, queued, btcFaults, early,
                     dropped, overtook>>
  BY DEF Broadcast
<1>2. t \notin OnTheList
  BY Listed DEF Broadcast, Listing, OnTheList, BtcInv, BtcTyped
<1>3. /\ mempool' \in Seq(Txs) /\ IsInjective(mempool')
      /\ ToSet(mempool') = ToSet(mempool) \cup {t}
  BY <1>1, <1>2, Appended DEF BtcInv, BtcTyped, OnTheList
<1>4. BtcTyped'
  BY <1>1, <1>2, <1>3 DEF BtcInv, BtcTyped, OnTheList
<1>5. ASSUME NEW c, c # t, NEW u, Below(c, u)' PROVE Below(c, u)
  BY <1>1, <1>3, <1>5 DEF Below
<1>6. lastProcessedTx # t
  BY <1>2, BtcAssumption DEF BtcInv, CursorIsDone
<1>7. CursorIsDone'
  <2>1. ASSUME NEW u \in ToSet(chain), Below(lastProcessedTx, u)'
        PROVE  u \in Excused
    <3>1. Below(lastProcessedTx, u)
      BY <2>1, <1>1, <1>3, <1>6 DEF Below
    <3> QED BY <3>1 DEF BtcInv, CursorIsDone
  <2> QED BY <2>1, <1>1, <1>3 DEF BtcInv, CursorIsDone, OnTheList, Excused
<1>8. ASSUME NEW p \in BtcPolls PROVE PollKept(polls[p])'
  <2> PICK b : b = polls[p]
    OBVIOUS
  <2>1. PollIsDone(b) /\ AnswerInOrder(b) /\ b \in PollBooks
    BY DEF BtcInv, BtcTyped, PollKept
  <2>2. b.txs # <<>> => Head(b.txs) # t
    <3> SUFFICES ASSUME b.txs # <<>> PROVE Head(b.txs) # t
      OBVIOUS
    <3>1. Head(b.txs) \in ToSet(b.txs)
      BY <2>1, InSeq DEF PollBooks
    <3> QED BY <3>1, <1>2, <2>1 DEF PollIsDone
  <2>3. PollIsDone(b)'
    <3>1. b.at = "answered" /\ b.txs # <<>> => \A u \in ToSet(chain) :
            Below(Head(b.txs), u)'
              => u \in Excused \cup b.confirmed \cup {Head(b.txs)}
      BY <1>5, <2>1, <2>2 DEF PollIsDone
    <3>2. b.at = "took" => \A u \in ToSet(chain) :
            Below(Head(b.txs), u)' => u \in Excused \cup ToSet(b.txs)
      BY <1>5, <2>1, <2>2 DEF PollIsDone
    <3> QED BY <3>1, <3>2, <1>1, <1>3, <2>1 DEF PollIsDone, OnTheList, Excused
  <2>4. AnswerInOrder(b)'
    <3>1. \A c, u : Below(c, u) => Below(c, u)'
      BY <1>1, <1>3 DEF Below
    <3> QED BY <3>1, <2>1 DEF AnswerInOrder
  <2> QED BY <1>1, <2>3, <2>4 DEF PollKept, PollIsDone, AnswerInOrder
<1> QED BY <1>4, <1>7, <1>8 DEF BtcInv

LEMMA ConfirmKeeps == ASSUME BtcInv, NEW t \in Txs, Confirm(t) PROVE BtcInv'
<1>1. /\ t \in ToSet(mempool)
      /\ mempool' = RemoveAt(mempool, PlaceIn(mempool, t))
      /\ chain' = Append(chain, t)
      /\ UNCHANGED <<lastProcessedTx, polls, queued, btcFaults, early, dropped>>
      /\ overtook \subseteq overtook' /\ overtook' \subseteq overtook \cup {t}
      /\ Cursors \cap (ToSet(mempool) \ {t}) # {} => t \in overtook'
  BY DEF Confirm
<1>2. /\ mempool' \in Seq(Txs) /\ IsInjective(mempool')
      /\ ToSet(mempool') = ToSet(mempool) \ {t}
  BY <1>1, Removed DEF BtcInv, BtcTyped
<1>3. t \notin ToSet(chain)
  BY <1>1 DEF BtcInv, BtcTyped
<1>4. /\ chain' \in Seq(Txs) /\ IsInjective(chain')
      /\ ToSet(chain') = ToSet(chain) \cup {t}
      /\ DOMAIN chain' = 1 .. Len(chain) + 1 /\ DOMAIN chain = 1 .. Len(chain)
      /\ Len(chain) \in Nat /\ chain'[Len(chain) + 1] = t
      /\ \A i \in 1 .. Len(chain) : chain'[i] = chain[i]
  <2>1. chain \in Seq(Txs) /\ IsInjective(chain)
    BY DEF BtcInv, BtcTyped
  <2>2. /\ chain' \in Seq(Txs) /\ IsInjective(chain')
        /\ ToSet(chain') = ToSet(chain) \cup {t}
        /\ Len(chain') = Len(chain) + 1 /\ chain'[Len(chain) + 1] = t
        /\ \A i \in 1 .. Len(chain) : chain'[i] = chain[i]
    BY <2>1, <1>1, <1>3, Appended
  <2> QED BY <2>1, <2>2, LenProperties
<1>5. BtcTyped'
  BY <1>1, <1>2, <1>4 DEF BtcInv, BtcTyped
<1>6. OnTheList' = OnTheList /\ Excused \subseteq Excused'
  BY <1>1, <1>2, <1>4 DEF OnTheList, Excused
<1>7. ASSUME NEW c, NEW u \in ToSet(chain'), Below(c, u)'
      PROVE  \/ u \in ToSet(chain) /\ Below(c, u)
             \/ u = t /\ c = t
             \/ u = t /\ c \in ToSet(mempool) \ {t}
  <2>1. CASE c \in ToSet(mempool')
    BY <2>1, <1>2, <1>4 DEF Below
  <2>2. CASE c \notin ToSet(mempool')
    <3>1. PICK i, j \in 1 .. Len(chain) + 1 :
            i <= j /\ chain'[i] = u /\ chain'[j] = c
      BY <1>4, <1>7, <2>2 DEF Below
    <3>2. CASE j = Len(chain) + 1
      <4>1. c = t
        BY <3>1, <3>2, <1>4
      <4> QED BY <4>1, <1>1, <1>4 DEF Below
    <3>3. CASE j # Len(chain) + 1
      <4>1. i \in 1 .. Len(chain) /\ j \in 1 .. Len(chain)
        BY <3>1, <3>3, <1>4
      <4>2. chain[i] = u /\ chain[j] = c
        BY <3>1, <4>1, <1>4
      <4> QED BY <3>1, <4>1, <4>2, <1>4 DEF Below, ToSet
    <3> QED BY <3>2, <3>3
  <2> QED BY <2>1, <2>2
<1>8. CursorIsDone'
  <2>1. ASSUME NEW u \in ToSet(chain'), Below(lastProcessedTx, u)'
        PROVE  u \in Excused'
    <3> PICK c : c = lastProcessedTx
      OBVIOUS
    <3>1. Below(c, u)'
      BY <2>1, <1>1 DEF Below
    <3>2. CASE u \in ToSet(chain) /\ Below(c, u)
      BY <3>2, <1>6 DEF BtcInv, CursorIsDone
    <3>3. CASE u = t /\ c = t
      BY <3>3, <1>6 DEF BtcInv, CursorIsDone
    <3>4. CASE u = t /\ c \in ToSet(mempool) \ {t}
      <4>1. c \in Cursors
        BY DEF Cursors
      <4> QED BY <4>1, <3>4, <1>1 DEF Excused
    <3> QED BY <3>1, <3>2, <3>3, <3>4, <1>7
  <2> QED BY <2>1, <1>1, <1>6 DEF BtcInv, CursorIsDone
<1>9. ASSUME NEW p \in BtcPolls PROVE PollKept(polls[p])'
  <2> PICK b : b = polls[p]
    OBVIOUS
  <2>1. PollIsDone(b) /\ AnswerInOrder(b) /\ b \in PollBooks
    BY DEF BtcInv, BtcTyped, PollKept
  <2>2. ASSUME b.txs # <<>>, NEW u \in ToSet(chain'), Below(Head(b.txs), u)',
               ~(u \in ToSet(chain) /\ Below(Head(b.txs), u))
        PROVE  u \in overtook' \cup {Head(b.txs)}
    <3> PICK c : c = Head(b.txs)
      OBVIOUS
    <3>1. CASE u = t /\ c \in ToSet(mempool) \ {t}
      <4>1. c \in Cursors
        BY <2>2 DEF Cursors
      <4> QED BY <4>1, <3>1, <1>1
    <3> QED BY <2>2, <3>1, <1>7
  <2>3. PollIsDone(b)'
    <3>1. ToSet(chain) \subseteq ToSet(chain')
      BY <1>4
    <3>2. ASSUME b.at = "answered", b.txs # <<>>, NEW u \in ToSet(chain'),
                 Below(Head(b.txs), u)'
          PROVE  u \in Excused' \cup b.confirmed \cup {Head(b.txs)}
      BY <2>1, <2>2, <3>2, <1>6 DEF PollIsDone, Excused
    <3>3. ASSUME b.at = "took", NEW u \in ToSet(chain'), Below(Head(b.txs), u)'
          PROVE  u \in Excused' \cup ToSet(b.txs)
      <4>1. b.txs # <<>> /\ Head(b.txs) \in ToSet(b.txs)
        BY <2>1, <3>3, InSeq DEF PollIsDone, PollBooks
      <4> QED BY <4>1, <2>1, <2>2, <3>3, <1>6 DEF PollIsDone, Excused
    <3> QED BY <2>1, <3>1, <3>2, <3>3, <1>6 DEF PollIsDone
  <2>4. AnswerInOrder(b)'
    <3>1. ASSUME NEW c, NEW u \in ToSet(chain), Below(c, u) PROVE Below(c, u)'
      <4>1. PICK i \in 1 .. Len(chain) : chain[i] = u
        BY <1>4 DEF ToSet
      <4>2. CASE c \in ToSet(mempool) \ {t}
        BY <4>2, <1>2 DEF Below
      <4>3. CASE c = t
        <5>1. i <= Len(chain) + 1 /\ chain'[i] = u /\ chain'[Len(chain) + 1] = c
          BY <4>1, <4>3, <1>4
        <5> QED BY <5>1, <4>1, <1>4 DEF Below
      <4>4. CASE c \notin ToSet(mempool)
        <5>1. PICK k, j \in 1 .. Len(chain) : k <= j /\ chain[k] = u /\ chain[j] = c
          BY <3>1, <4>4, <1>4 DEF Below
        <5>2. chain'[k] = u /\ chain'[j] = c /\ k \in DOMAIN chain' /\ j \in DOMAIN chain'
          BY <5>1, <1>4
        <5> QED BY <5>1, <5>2 DEF Below
      <4> QED BY <4>2, <4>3, <4>4
    <3>2. b.confirmed \subseteq ToSet(chain)
      BY <2>1 DEF PollIsDone
    <3> QED BY <3>1, <3>2, <2>1 DEF AnswerInOrder
  <2> QED BY <1>1, <2>3, <2>4 DEF PollKept, PollIsDone, AnswerInOrder
<1> QED BY <1>5, <1>8, <1>9 DEF BtcInv

\* An answer shows everything that is confirmed, in its order.
LEMMA PollKeeps == ASSUME BtcInv, NEW p \in BtcPolls, PollBtc(p) PROVE BtcInv'
<1> DEFINE x == [at |-> "answered", txs |-> Listing, confirmed |-> ToSet(chain)]
<1>1. /\ polls' = [polls EXCEPT ![p] = x]
      /\ UNCHANGED <<mempool, chain, lastProcessedTx, queued, btcFaults, early,
                     dropped, overtook>>
  BY DEF PollBtc
<1>2. /\ chain \in Seq(Txs) /\ mempool \in Seq(Txs)
      /\ ToSet(mempool) \cap ToSet(chain) = {}
      /\ polls \in [BtcPolls -> PollBooks]
  BY DEF BtcInv, BtcTyped
<1>3. Listing \in Seq(Txs) /\ ToSet(Listing) = OnTheList
  BY <1>2, Listed DEF Listing, OnTheList
<1>4. x \in PollBooks
  BY <1>2, <1>3, InSeq DEF PollBooks
<1>5. BtcTyped'
  BY <1>1, <1>2, <1>4 DEF BtcInv, BtcTyped
<1>6. CursorIsDone'
  BY <1>1 DEF BtcInv, CursorIsDone, OnTheList, Below, Excused
<1>7. PollKept(x)
  <2>1. PollIsDone(x)
    BY <1>3 DEF PollIsDone, OnTheList
  <2>2. AnswerInOrder(x)
    BY <1>2, ListedBelow DEF AnswerInOrder
  <2> QED BY <2>1, <2>2 DEF PollKept
<1>8. ASSUME NEW q \in BtcPolls PROVE PollKept(polls[q])'
  <2>1. PollKept(polls'[q])
    BY <1>1, <1>2, <1>7 DEF BtcInv
  <2> QED BY <2>1, <1>1 DEF PollKept, AnswerInOrder, PollIsDone, OnTheList, Below,
                           Excused
<1> QED BY <1>5, <1>6, <1>8 DEF BtcInv

\* What the cut of an answer leaves out was below the cursor of this moment
\* already when the answer was made, and so is dealt with.
LEMMA TakeKeeps == ASSUME BtcInv, NEW p \in BtcPolls, Take(p) PROVE BtcInv'
<1> PICK b : b = polls[p]
  OBVIOUS
<1> PICK took : took = AboveCursor(b.txs)
  OBVIOUS
<1> DEFINE x == [at |-> "took", txs |-> took,
                 confirmed |-> b.confirmed \cap ToSet(took)]
<1>1. /\ b.at = "answered"
      /\ polls' = [polls EXCEPT ![p] = IF took = <<>> THEN NoPoll ELSE x]
      /\ UNCHANGED <<mempool, chain, lastProcessedTx, queued, btcFaults, early,
                     dropped, overtook>>
  BY DEF Take
<1>2. /\ polls \in [BtcPolls -> PollBooks] /\ b \in PollBooks
      /\ PollIsDone(b) /\ AnswerInOrder(b)
  BY DEF BtcInv, BtcTyped, PollKept
<1>3. /\ b.txs \in Seq(Txs) /\ took \in Seq(Txs) /\ ToSet(took) \subseteq ToSet(b.txs)
      /\ took # <<>> => b.txs # <<>> /\ Head(took) = Head(b.txs)
  BY <1>2, CutAtCursor DEF PollBooks
<1>4. ASSUME took # <<>> PROVE PollKept(x)
  <2>1. ASSUME NEW t \in ToSet(chain), Below(Head(took), t), t \notin ToSet(took)
        PROVE  t \in Excused
    <3>1. t # Head(b.txs)
      BY <2>1, <1>3, <1>4, InSeq
    <3>2. t \in Excused \/ t \in b.confirmed
      BY <2>1, <3>1, <1>1, <1>2, <1>3, <1>4 DEF PollIsDone
    <3>3. CASE t \in b.confirmed
      <4>1. t \in ToSet(b.txs) \ ToSet(took)
        BY <2>1, <3>3, <1>2 DEF PollIsDone
      <4>2. PICK i, j \in DOMAIN b.txs :
              i <= j /\ b.txs[i] = lastProcessedTx /\ b.txs[j] = t
        BY <4>1, <1>3, CutAtCursor
      <4>3. Below(lastProcessedTx, t)
        BY <4>2, <3>3, <1>1, <1>2 DEF AnswerInOrder
      <4> QED BY <4>3, <2>1 DEF BtcInv, CursorIsDone
    <3> QED BY <3>2, <3>3
  <2>2. ToSet(took) \subseteq OnTheList /\ b.confirmed \subseteq ToSet(chain)
    BY <1>2, <1>3 DEF PollIsDone
  <2> QED BY <2>1, <2>2, <1>4 DEF PollKept, PollIsDone, AnswerInOrder
<1>5. /\ NoPoll \in PollBooks /\ PollKept(NoPoll)
  BY DEF NoPoll, PollBooks, PollKept, PollIsDone, AnswerInOrder, ToSet
<1>6. x \in PollBooks
  BY <1>2, <1>3, InSeq DEF PollBooks
<1>7. BtcTyped'
  BY <1>1, <1>2, <1>5, <1>6 DEF BtcInv, BtcTyped
<1>8. CursorIsDone'
  BY <1>1 DEF BtcInv, CursorIsDone, OnTheList, Below, Excused
<1>9. ASSUME NEW q \in BtcPolls PROVE PollKept(polls[q])'
  <2>1. PollKept(polls'[q])
    BY <1>1, <1>2, <1>4, <1>5 DEF BtcInv
  <2> QED BY <2>1, <1>1 DEF PollKept, AnswerInOrder, PollIsDone, OnTheList, Below,
                           Excused
<1> QED BY <1>7, <1>8, <1>9 DEF BtcInv

LEMMA EndPollKeeps == ASSUME BtcInv, NEW p \in BtcPolls, EndPoll(p) PROVE BtcInv'
<1> PICK b : b = polls[p]
  OBVIOUS
<1>1. /\ b.at = "took" /\ polls' = [polls EXCEPT ![p] = NoPoll]
      /\ early' = early \cup (ToSet(b.txs) \ b.confirmed)
      /\ lastProcessedTx' = Head(b.txs)
      /\ UNCHANGED <<mempool, chain, overtook>>
  BY DEF EndPoll
<1>2. /\ PollIsDone(b) /\ b \in PollBooks /\ polls \in [BtcPolls -> PollBooks]
      /\ b.txs \in Seq(Txs) /\ b.confirmed \subseteq ToSet(chain)
      /\ b.confirmed \subseteq Txs /\ ToSet(b.txs) \subseteq Txs
      /\ Head(b.txs) \in ToSet(b.txs)
  <2>1. PollIsDone(b) /\ b \in PollBooks /\ polls \in [BtcPolls -> PollBooks]
    BY DEF BtcInv, BtcTyped, PollKept
  <2> QED BY <2>1, <1>1, InSeq DEF PollIsDone, PollBooks
<1>3. /\ queued \subseteq queued' /\ dropped \subseteq dropped'
      /\ queued' \subseteq queued \cup b.confirmed
      /\ dropped' \subseteq dropped \cup b.confirmed
      /\ b.confirmed \subseteq queued' \cup dropped'
      /\ btcFaults' \in 0 .. BtcFaults
  BY BtcAssumption DEF EndPoll, BtcFault, BtcInv, BtcTyped
<1>4. Excused \cup ToSet(b.txs) \subseteq Excused'
  BY <1>1, <1>3 DEF Excused
<1>5. /\ NoPoll \in PollBooks /\ ToSet(NoPoll.txs) = {} /\ NoPoll.confirmed = {}
      /\ NoPoll.at = "idle"
  BY DEF NoPoll, PollBooks, ToSet
<1>6. BtcTyped'
  BY <1>1, <1>2, <1>3, <1>5 DEF BtcInv, BtcTyped
<1>7. CursorIsDone'
  <2>1. lastProcessedTx' \in OnTheList' /\ lastProcessedTx' \in Excused'
    BY <1>1, <1>2, <1>4 DEF PollIsDone, OnTheList
  <2>2. ASSUME NEW t \in ToSet(chain), Below(lastProcessedTx, t)'
        PROVE  t \in Excused'
    <3>1. Below(Head(b.txs), t)
      BY <2>2, <1>1 DEF Below
    <3> QED BY <3>1, <1>1, <1>2, <1>4 DEF PollIsDone
  <2> QED BY <2>1, <2>2, <1>1 DEF CursorIsDone
<1>8. ASSUME NEW q \in BtcPolls PROVE PollKept(polls[q])'
  <2>1. CASE q = p
    <3>1. polls'[q] = NoPoll
      BY <2>1, <1>1, <1>2
    <3> QED BY <3>1, <1>5 DEF PollKept, PollIsDone, AnswerInOrder
  <2>2. CASE q # p
    <3>1. polls'[q] = polls[q] /\ PollKept(polls[q])
      BY <2>2, <1>1, <1>2 DEF BtcInv
    <3> QED BY <3>1, <1>1, <1>4 DEF PollKept, PollIsDone, AnswerInOrder, OnTheList,
                                   Below
  <2> QED BY <2>1, <2>2
<1> QED BY <1>6, <1>7, <1>8 DEF BtcInv

LEMMA RestartKeeps == ASSUME BtcInv, RestartBtc PROVE BtcInv'
<1>1. /\ lastProcessedTx' = NoTx /\ polls' = [p \in BtcPolls |-> NoPoll]
      /\ early' = {} /\ dropped' = {} /\ overtook' = {}
      /\ UNCHANGED <<mempool, chain, queued>>
      /\ btcFaults' \in 0 .. BtcFaults
  BY BtcAssumption DEF RestartBtc, BtcFault, BtcInv, BtcTyped
<1>2. /\ NoPoll \in PollBooks /\ ToSet(NoPoll.txs) = {} /\ NoPoll.confirmed = {}
      /\ NoPoll.at = "idle"
  BY DEF NoPoll, PollBooks, ToSet
<1>3. BtcTyped'
  BY <1>1, <1>2 DEF BtcInv, BtcTyped
<1>4. ASSUME NEW t, Below(NoTx, t)' PROVE FALSE
  <2>1. ToSet(mempool) \subseteq Txs /\ ToSet(chain) \subseteq Txs
    BY InSeq DEF BtcInv, BtcTyped
  <2>2. NoTx \in ToSet(mempool) \cup ToSet(chain)
    BY <1>1, <1>4 DEF Below, ToSet
  <2> QED BY <2>1, <2>2, BtcAssumption
<1>5. CursorIsDone'
  BY <1>1, <1>4, BtcAssumption DEF CursorIsDone, Below
<1>6. ASSUME NEW p \in BtcPolls PROVE PollKept(polls[p])'
  <2>1. polls'[p] = NoPoll
    BY <1>1
  <2> QED BY <2>1, <1>2 DEF PollKept, PollIsDone, AnswerInOrder
<1> QED BY <1>3, <1>5, <1>6 DEF BtcInv

LEMMA BtcInvariant == BtcInit /\ [][BtcNext]_btcVars => []BtcInv
<1>1. BtcInv /\ [BtcNext]_btcVars => BtcInv'
  <2> SUFFICES ASSUME BtcInv, [BtcNext]_btcVars PROVE BtcInv'
    OBVIOUS
  <2>1. ASSUME NEW t \in Txs, Broadcast(t) \/ Confirm(t) PROVE BtcInv'
    BY <2>1, BroadcastKeeps, ConfirmKeeps
  <2>2. ASSUME NEW p \in BtcPolls, BtcStep(p) PROVE BtcInv'
    BY <2>2, PollKeeps, TakeKeeps, EndPollKeeps DEF BtcStep
  <2>3. CASE UNCHANGED btcVars
    <3>1. UNCHANGED <<mempool, chain, lastProcessedTx, polls, queued, btcFaults,
                      early, dropped, overtook>>
      BY <2>3 DEF btcVars
    <3> QED BY <3>1 DEF BtcInv, BtcTyped, CursorIsDone, PollKept, PollIsDone,
                        AnswerInOrder, OnTheList, Below, Excused
  <2> QED BY <2>1, <2>2, <2>3, RestartKeeps DEF BtcNext
<1> QED BY InitBtcInv, <1>1, PTL

LEMMA BtcInvGives == BtcInv => BtcTypeOK /\ BtcNoHoles
<1> SUFFICES ASSUME BtcInv PROVE BtcTypeOK /\ BtcNoHoles
  OBVIOUS
<1>1. /\ chain \in Seq(Txs) /\ mempool \in Seq(Txs)
      /\ ToSet(chain) \subseteq Txs /\ ToSet(mempool) \subseteq Txs
  BY InSeq DEF BtcInv, BtcTyped
<1>2. lastProcessedTx \in Txs \cup {NoTx}
  BY <1>1 DEF BtcInv, CursorIsDone, OnTheList
<1>3. \A p \in BtcPolls : /\ polls[p].at \in {"idle", "answered", "took"}
                          /\ polls[p].txs \in Seq(Txs)
                          /\ polls[p].confirmed \subseteq ToSet(polls[p].txs)
                          /\ polls[p].at = "took" => polls[p].txs # <<>>
  BY DEF BtcInv, BtcTyped, PollKept, PollIsDone, PollBooks
<1>4. BtcTypeOK
  BY <1>2, <1>3 DEF BtcInv, BtcTyped, BtcTypeOK
<1>5. ASSUME NEW t \in ToSet(chain), Contains(Listing, lastProcessedTx),
             ~Contains(AboveCursor(Listing), t)
      PROVE  t \in Excused
  <2>1. t \notin ToSet(AboveCursor(Listing))
    <3>1. AboveCursor(Listing) \in Seq(Txs)
      BY <1>1, Listed, CutAtCursor DEF Listing
    <3> QED BY <3>1, <1>5, InSeq
  <2> QED BY <2>1, <1>1, <1>5, NotAbove DEF BtcInv, BtcTyped, CursorIsDone
<1>6. BtcNoHoles
  BY <1>5 DEF BtcNoHoles, Excused
<1> QED BY <1>4, <1>6

-----------------------------------------------------------------------------
(* Whichever scanner runs, a step of all is a step of each or none.        *)

LEMMA StepsOfEach ==
  [Next]_vars => [EvmNext]_evmVars /\ [SolNext]_solVars /\ [BtcNext]_btcVars
  BY Zenon DEF Next, IfEvm, IfSol, IfBtc, vars

\* The same for the scanner of a chain that runs beside the others.
THEOREM ScansStaySafe == Spec => []EvmSafe
<1>1. EvmInv /\ Booleans => EvmSafe
  BY Zenon DEF EvmInv, Typed, Booleans, EvmTypeOK, EvmSafe
<1>2. Init => EvmInit
  BY DEF Init
<1> QED BY <1>1, <1>2, StepsOfEach, EvmInvariant, BooleansKept, PTL DEF Spec

\* Overlapping polls, for any numbers of them, of signatures and of transactions
\* and any limit of an answer: a Solana cursor, in memory or in Redis, passes over
\* a signature without its job only if its transaction was not returned or no
\* answer held it in time, nothing behind a signature without a mint is enqueued
\* before such a reason took it, and a Bitcoin cursor, wherever another poll moved
\* it while an answer was awaited, passes over nothing confirmed that no poll met
\* unconfirmed, whose add did not fail and that was not confirmed before a cursor.
THEOREM OverlapIsSafe == Spec => []PollsSafe
<1>1. SolInv /\ RunOrNot => SolTypeOK /\ SolNoHoles /\ PlainHoldsUp
  <2> SUFFICES ASSUME SolInv, RunOrNot
               PROVE  SolTypeOK /\ SolNoHoles /\ PlainHoldsUp
    OBVIOUS
  <2>1. SolTypeOK
    <3>1. /\ newest \in 0 .. Sigs /\ lastProcessed \in 0 .. newest
          /\ stored \in 0 .. newest
          /\ poll \in [Polls -> [at: {"idle", "asked", "handle", "persist"},
                                 next: 0 .. newest + 1, last: 0 .. newest]]
          /\ added \subseteq (1 .. newest) \X {"SOL", "SPL"}
          /\ solFaults \in 0 .. SolFaults
          /\ unparsed \cup outrun \subseteq 1 .. newest
      BY DEF SolInv, SolTyped, PollRecords
    <3> QED BY <3>1, Zenon DEF SolTypeOK, RunOrNot
  <2>2. SolNoHoles
    <3> SUFFICES ASSUME NEW s \in 1 .. Sigs, s <= lastProcessed \/ s <= stored
                 PROVE  Enqueued(s) \/ s \in unparsed \cup outrun
      BY DEF SolNoHoles
    <3>1. Settled(s)
      BY SolBounds DEF SolInv, SolTyped, SettledTo
    <3> QED BY <3>1 DEF Settled
  <2> QED BY <2>1, <2>2 DEF SolInv
<1>2. Init => SolInit /\ BtcInit
  BY DEF Init
<1>3. SolTypeOK /\ SolNoHoles /\ PlainHoldsUp /\ BtcTypeOK /\ BtcNoHoles
        => PollsSafe
  BY DEF PollsSafe
<1> QED BY <1>1, <1>2, <1>3, BtcInvGives, StepsOfEach, SolInvariant, RunningKept,
           BtcInvariant, PTL DEF Spec
=============================================================================
