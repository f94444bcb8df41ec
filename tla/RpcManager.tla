----------------------------- MODULE RpcManager -----------------------------
(***************************************************************************)
(* getRPC of utils/rpc-manager.ts for one chain: callers share a cached    *)
(* list of endpoints and an index that each of them moves on before it     *)
(* waits for its test.  A list that has expired is fetched again, and a    *)
(* caller goes on with the list it had.                                    *)
(***************************************************************************)
EXTENDS Integers, SequencesExt

CONSTANTS Chainlist, \* the endpoints that Chainlist names
          Fallback,  \* FALLBACK_RPCS, empty if the chain has none
          Callers,
          MaxLists,  \* bound on the lists that are fetched
          MaxCalls   \* bound on the calls

ASSUME RpcAssumption ==
  /\ {Chainlist, Fallback} \subseteq Seq(ToSet(Chainlist) \cup ToSet(Fallback))
  /\ Chainlist # << >> /\ MaxLists \in Nat \ {0} /\ MaxCalls \in Nat

Endpoints == ToSet(Chainlist) \cup ToSet(Fallback)

VARIABLES alive,   \* the endpoints that answer
          lists,   \* the cached entries so far: a list and its current index
          valid,   \* whether the last one is in the cache and has not expired
          rpc,     \* where each caller is
          mine,    \* the entry it uses
          attempts, testing, result, rpcCalls,
          helped   \* callers whose index another one moved (history)

rpcVars == <<alive, lists, valid, rpc, mine, attempts, testing, result, rpcCalls,
             helped>>

NoUrl == "none"

RpcTypeOK ==
  /\ alive \subseteq Endpoints /\ valid \in BOOLEAN
  /\ \A i \in DOMAIN lists :
       /\ lists[i].rpcs \in {Chainlist, Fallback}
       /\ lists[i].index \in DOMAIN lists[i].rpcs
  /\ rpc \in [Callers -> {"idle", "fetch", "try", "test", "returned", "thrown"}]
  /\ mine \in [Callers -> 0 .. MaxLists] /\ attempts \in [Callers -> Nat]
  /\ testing \in [Callers -> Endpoints \cup {NoUrl}]
  /\ result \in [Callers -> Endpoints \cup {NoUrl}]
  /\ rpcCalls \in 0 .. MaxCalls /\ helped \subseteq Callers

RpcInit ==
  /\ alive \in SUBSET Endpoints /\ lists = << >> /\ valid = FALSE
  /\ rpc = [c \in Callers |-> "idle"] /\ mine = [c \in Callers |-> 0]
  /\ attempts = mine /\ testing = [c \in Callers |-> NoUrl]
  /\ result = testing /\ rpcCalls = 0 /\ helped = {}

-----------------------------------------------------------------------------
\* A caller finds a list in the cache or begins to fetch one.
CallRpc(c) ==
  /\ rpc[c] = "idle" /\ rpcCalls < MaxCalls
  /\ rpcCalls' = rpcCalls + 1
  /\ rpc' = [rpc EXCEPT ![c] = IF valid THEN "try" ELSE "fetch"]
  /\ mine' = [mine EXCEPT ![c] = IF valid THEN Len(lists) ELSE 0]
  /\ attempts' = [attempts EXCEPT ![c] = 0]
  /\ helped' = helped \ {c}
  /\ UNCHANGED <<alive, lists, valid, testing, result>>

\* Chainlist answers, or the fallback list is used; without one getRPC throws.
\* Each caller that fetched puts its list into the cache, with the index 1.
LoadList(c) ==
  /\ rpc[c] = "fetch"
  /\ \E l \in {Chainlist, Fallback} :
       IF l = << >>
       THEN /\ rpc' = [rpc EXCEPT ![c] = "thrown"]
            /\ UNCHANGED <<lists, valid, mine>>
       ELSE /\ Len(lists) < MaxLists
            /\ lists' = Append(lists, [rpcs |-> l, index |-> 1])
            /\ valid' = TRUE
            /\ mine' = [mine EXCEPT ![c] = Len(lists) + 1]
            /\ rpc' = [rpc EXCEPT ![c] = "try"]
  /\ UNCHANGED <<alive, attempts, testing, result, rpcCalls, helped>>

NextIndex(e) == (e.index % Len(e.rpcs)) + 1

\* Mutant: half of the list is tried.
TriedHalf(c) == 2 * attempts[c] >= Len(lists[mine[c]].rpcs)

TriedAll(c) == attempts[c] >= Len(lists[mine[c]].rpcs)

Trying(c, i) == mine[c] = i /\ rpc[c] \in {"try", "test"}

TryNext(c) ==
  /\ rpc[c] = "try" /\ ~TriedAll(c)
  /\ LET i == mine[c] IN
       /\ testing' = [testing EXCEPT ![c] = lists[i].rpcs[lists[i].index]]
       /\ lists' = [lists EXCEPT ![i].index = NextIndex(lists[i])]
       /\ helped' = helped \cup {d \in Callers \ {c} : Trying(d, i)}
  /\ rpc' = [rpc EXCEPT ![c] = "test"]
  /\ UNCHANGED <<alive, valid, mine, attempts, result, rpcCalls>>

TestEnds(c) ==
  /\ rpc[c] = "test"
  /\ IF testing[c] \in alive
     THEN /\ rpc' = [rpc EXCEPT ![c] = "returned"]
          /\ result' = [result EXCEPT ![c] = testing[c]]
          /\ UNCHANGED attempts
     ELSE /\ rpc' = [rpc EXCEPT ![c] = "try"]
          /\ attempts' = [attempts EXCEPT ![c] = @ + 1]
          /\ UNCHANGED result
  /\ testing' = [testing EXCEPT ![c] = NoUrl]
  /\ UNCHANGED <<alive, lists, valid, mine, rpcCalls, helped>>

\* "All RPCs failed, returning first RPC anyway".
GiveUp(c) ==
  /\ rpc[c] = "try" /\ TriedAll(c)
  /\ rpc' = [rpc EXCEPT ![c] = "returned"]
  /\ result' = [result EXCEPT ![c] = lists[mine[c]].rpcs[1]]
  /\ UNCHANGED <<alive, lists, valid, mine, attempts, testing, rpcCalls, helped>>

TakeUrl(c) ==
  /\ rpc[c] \in {"returned", "thrown"}
  /\ rpc' = [rpc EXCEPT ![c] = "idle"]
  /\ result' = [result EXCEPT ![c] = NoUrl]
  /\ mine' = [mine EXCEPT ![c] = 0] /\ attempts' = [attempts EXCEPT ![c] = 0]
  /\ UNCHANGED <<alive, lists, valid, testing, rpcCalls, helped>>

\* The hour is over, or clearCache is called.
ExpireList ==
  /\ valid /\ Len(lists) < MaxLists
  /\ valid' = FALSE
  /\ UNCHANGED <<alive, lists, rpc, mine, attempts, testing, result, rpcCalls, helped>>

RpcNext ==
  \/ ExpireList
  \/ \E c \in Callers : \/ CallRpc(c) \/ LoadList(c) \/ TryNext(c) \/ TestEnds(c)
                        \/ GiveUp(c) \/ TakeUrl(c)

RpcSpec == RpcInit /\ [][RpcNext]_rpcVars

-----------------------------------------------------------------------------
\* A caller that answers with an endpoint that does not work has tried the whole
\* list, unless another caller moved the index it was going round with.
AloneFindsWorking ==
  \A c \in Callers :
    rpc[c] = "returned" /\ result[c] \notin alive
      => c \in helped \/ ToSet(lists[mine[c]].rpcs) \cap alive = {}
=============================================================================
