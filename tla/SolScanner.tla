----------------------------- MODULE SolScanner -----------------------------
(***************************************************************************)
(* deposit/sol-scanner.service.ts for one address.  setInterval starts a   *)
(* poll whether or not the last one has ended, so several polls work on    *)
(* one cursor, which is kept in memory and, one step later, in Redis.  The *)
(* signatures of the address are numbered in the order they appear in.     *)
(***************************************************************************)
EXTENDS Integers

CONSTANTS Sigs,   \* the number of signatures of a behaviour
          Moves,  \* what each moves to the address: SOL, a token or both
          Plain,  \* signatures with a token transfer that names no mint
          Limit,  \* how many signatures the endpoint returns
          Polls,  \* the polls that may overlap
          SolFaults \* bound on the failures of a behaviour

ASSUME SolAssumption ==
  /\ Sigs \in Nat /\ Moves \in [1 .. Sigs -> SUBSET {"SOL", "SPL"}]
  /\ Plain \subseteq 1 .. Sigs /\ Limit \in Nat \ {0} /\ SolFaults \in Nat

VARIABLES newest,  \* the latest signature on the chain
          running, \* the process runs
          lastProcessed, \* the cursor in memory, 0 for none
          stored,  \* the cursor in Redis
          poll,    \* where each poll is, and the signatures left to it
          added,   \* the transfers whose job was put in the deposits queue
          solFaults, \* how much has failed (bounded)
          unparsed, \* signatures whose transaction was not returned (history)
          outrun   \* signatures that no answer held in time (history)

solVars == <<newest, running, lastProcessed, stored, poll, added, solFaults,
             unparsed, outrun>>

Idle == [at |-> "idle", next |-> 0, last |-> 0]

SolTypeOK ==
  /\ newest \in 0 .. Sigs /\ running \in BOOLEAN
  /\ lastProcessed \in 0 .. newest /\ stored \in 0 .. newest
  /\ poll \in [Polls -> [at: {"idle", "asked", "handle", "persist"},
                         next: 0 .. newest + 1, last: 0 .. newest]]
  /\ added \subseteq (1 .. newest) \X {"SOL", "SPL"}
  /\ solFaults \in 0 .. SolFaults
  /\ unparsed \cup outrun \subseteq 1 .. newest

SolInit ==
  /\ newest = 0 /\ running = TRUE /\ lastProcessed = 0 /\ stored = 0
  /\ poll = [p \in Polls |-> Idle]
  /\ added = {} /\ solFaults = 0 /\ unparsed = {} /\ outrun = {}

-----------------------------------------------------------------------------
SolFault == solFaults < SolFaults /\ solFaults' = solFaults + 1

Appear ==
  /\ newest < Sigs
  /\ newest' = newest + 1
  /\ UNCHANGED <<running, lastProcessed, stored, poll, added, solFaults,
                 unparsed, outrun>>

\* A poll asks for the latest signatures; the answer is made now.
Ask(p) ==
  /\ running /\ poll[p].at = "idle"
  /\ poll' = [poll EXCEPT ![p] = [at |-> "asked", next |-> 0, last |-> newest]]
  /\ UNCHANGED <<newest, running, lastProcessed, stored, added, solFaults,
                 unparsed, outrun>>

OldestOf(last) == IF last > Limit THEN last - Limit + 1 ELSE 1

\* Mutant: one signature too many is taken off the answer.
FirstNewSkips(last) ==
  IF lastProcessed \in OldestOf(last) .. last THEN lastProcessed + 2
  ELSE OldestOf(last)

\* The answer is cut at the cursor of this moment, if the cursor is in it.
FirstNew(last) ==
  IF lastProcessed \in OldestOf(last) .. last THEN lastProcessed + 1
  ELSE OldestOf(last)

GoOn(p, n) ==
  poll' = [poll EXCEPT ![p] = IF n > poll[p].last THEN Idle
                              ELSE [@ EXCEPT !.at = "handle", !.next = n]]

Answered(p) ==
  /\ poll[p].at = "asked"
  /\ GoOn(p, FirstNew(poll[p].last))
  /\ outrun' = outrun \cup (lastProcessed + 1 .. OldestOf(poll[p].last) - 1)
  /\ UNCHANGED <<newest, running, lastProcessed, stored, added, solFaults,
                 unparsed>>

Jobs(s) == {e \in added : e[1] = s}

\* The SOL of a signature is handled before its tokens.
First(M) == IF "SOL" \in M THEN "SOL" ELSE "SPL"

\* enqueueDeposit for the moves M of a signature, all with the job id
\* solana_<signature>: the first job takes the id, and a further add is ignored,
\* unless that job was completed, and so removed, by then.
Enqueue(s, M) ==
  \E T \in SUBSET M :
    /\ Jobs(s) = {} /\ M # {} => First(M) \in T
    /\ added' = added \cup {s} \X T

\* A request, an add or a write to Redis throws: the poll leaves the address.
GiveUp(p) ==
  /\ poll[p].at # "idle"
  /\ SolFault
  /\ poll' = [poll EXCEPT ![p] = Idle]
  /\ \/ UNCHANGED added
     \/ /\ poll[p].at = "handle"
        /\ Enqueue(poll[p].next, Moves[poll[p].next] \cap {"SOL"})
  /\ UNCHANGED <<newest, running, lastProcessed, stored, unparsed, outrun>>

\* getParsedTransaction returns null: the loop continues with the next one.
NotParsed(p) ==
  /\ poll[p].at = "handle" /\ SolFault
  /\ unparsed' = unparsed \cup {poll[p].next}
  /\ GoOn(p, poll[p].next + 1)
  /\ UNCHANGED <<newest, running, lastProcessed, stored, added, outrun>>

\* handleSolTransfer, handleSplTransfers and the cursor in memory.  A token
\* transfer that names no mint makes new PublicKey throw: the SOL of the
\* signature is enqueued, and the poll leaves the address where it stands.
Handle(p) ==
  /\ poll[p].at = "handle"
  /\ IF poll[p].next \in Plain
     THEN /\ Enqueue(poll[p].next, Moves[poll[p].next] \cap {"SOL"})
          /\ poll' = [poll EXCEPT ![p] = Idle]
          /\ UNCHANGED lastProcessed
     ELSE /\ Enqueue(poll[p].next, Moves[poll[p].next])
          /\ poll' = [poll EXCEPT ![p].at = "persist"]
          /\ lastProcessed' = poll[p].next
  /\ UNCHANGED <<newest, running, stored, solFaults, unparsed, outrun>>

Persist(p) ==
  /\ poll[p].at = "persist"
  /\ stored' = poll[p].next
  /\ GoOn(p, poll[p].next + 1)
  /\ UNCHANGED <<newest, running, lastProcessed, added, solFaults, unparsed,
                 outrun>>

\* The process ends, killed or after onModuleDestroy has saved the cursor.
End ==
  /\ running /\ SolFault
  /\ running' = FALSE /\ lastProcessed' = 0
  /\ poll' = [p \in Polls |-> Idle]
  /\ stored' \in {stored, IF lastProcessed = 0 THEN stored ELSE lastProcessed}
  /\ UNCHANGED <<newest, added, unparsed, outrun>>

\* onModuleInit: the cursor is loaded, or loading it failed and was logged.
Load ==
  /\ ~running
  /\ running' = TRUE
  /\ \/ lastProcessed' = stored /\ UNCHANGED solFaults
     \/ SolFault /\ UNCHANGED lastProcessed
  /\ UNCHANGED <<newest, stored, poll, added, unparsed, outrun>>

-----------------------------------------------------------------------------
PollStep(p) == Ask(p) \/ Answered(p) \/ Handle(p) \/ Persist(p)

SolNext ==
  \/ Appear \/ End \/ Load
  \/ \E p \in Polls : PollStep(p) \/ GiveUp(p) \/ NotParsed(p)

\* Every interval starts a poll, what a poll waits for ends, and a process
\* that ended is started again.
SolSpec == /\ SolInit /\ [][SolNext]_solVars
           /\ \A p \in Polls : WF_solVars(PollStep(p))
           /\ WF_solVars(Load)

-----------------------------------------------------------------------------
Enqueued(s) == Moves[s] # {} => <<s, First(Moves[s])>> \in added

\* Whichever poll moved a cursor, and also after a restart from Redis, every
\* signature up to it has its job in the queue, that of its SOL if it moves any,
\* unless the endpoint did not return its transaction or no longer returned the
\* signature.  Of a second transfer of the signature nothing is claimed.
SolNoHoles ==
  \A s \in 1 .. Sigs : s <= lastProcessed \/ s <= stored =>
    Enqueued(s) \/ s \in unparsed \cup outrun

\* A token transfer without a mint holds up the address: what comes after it
\* is enqueued only once the endpoint has dropped it from its answers.
PlainHoldsUp ==
  \A q \in Plain, e \in added : e[1] > q => q \in unparsed \cup outrun

\* However the polls overlap, every other signature gets its job at last.
SolEventually ==
  <>[](\A s \in 1 .. newest : \/ Enqueued(s) \/ s \in unparsed \cup outrun
                              \/ \E q \in Plain : q <= s)
=============================================================================
