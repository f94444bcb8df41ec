----------------------------- MODULE BtcScanner -----------------------------
(***************************************************************************)
(* deposit/btc-scanner.service.ts for one address.  The explorer lists the *)
(* address's transactions with the unconfirmed ones first, each part from  *)
(* the newest; the cursor is the first of the list at the last poll, kept  *)
(* in memory only.                                                         *)
(***************************************************************************)
EXTENDS Integers, SequencesExt

CONSTANTS Txs,       \* the address's transactions
          BtcPolls,  \* the polls that may overlap
          NoTx,      \* no cursor
          BtcFaults  \* bound on failed adds and restarts

ASSUME BtcAssumption == NoTx \notin Txs /\ BtcFaults \in Nat

VARIABLES mempool, chain, \* unconfirmed and confirmed transactions, oldest
                          \* first
          lastProcessedTx, \* the cursor
          polls,    \* polls[p]: where it is, the transactions it was answered
                    \* or has taken, and those of them that were confirmed
          queued,   \* transactions put in the deposits queue
          btcFaults, \* how much has failed (bounded)
          early,    \* transactions a poll took unconfirmed (history)
          dropped,  \* transactions whose add failed (history)
          overtook  \* transactions confirmed before the cursor was (history)

btcVars == <<mempool, chain, lastProcessedTx, polls, queued, btcFaults, early,
             dropped, overtook>>

NoPoll == [at |-> "idle", txs |-> <<>>, confirmed |-> {}]

BtcTypeOK ==
  /\ \A s \in {mempool, chain} : s \in Seq(Txs) /\ IsInjective(s)
  /\ ToSet(mempool) \cap ToSet(chain) = {}
  /\ lastProcessedTx \in Txs \cup {NoTx}
  /\ \A p \in BtcPolls : /\ polls[p].at \in {"idle", "answered", "took"}
                         /\ polls[p].txs \in Seq(Txs)
                         /\ polls[p].confirmed \subseteq ToSet(polls[p].txs)
                         /\ polls[p].at = "took" => polls[p].txs # <<>>
  /\ queued \subseteq ToSet(chain) /\ btcFaults \in 0 .. BtcFaults
  /\ early \cup dropped \cup overtook \subseteq Txs

BtcInit ==
  /\ mempool = <<>> /\ chain = <<>> /\ lastProcessedTx = NoTx
  /\ polls = [p \in BtcPolls |-> NoPoll]
  /\ queued = {} /\ btcFaults = 0
  /\ early = {} /\ dropped = {} /\ overtook = {}

-----------------------------------------------------------------------------
BtcFault == btcFaults < BtcFaults /\ btcFaults' = btcFaults + 1

Listing == Reverse(chain \o mempool)

PlaceIn(list, t) == CHOOSE i \in DOMAIN list : list[i] = t

\* The cursor, and what the polls may be about to make the cursor.
Cursors == {lastProcessedTx} \cup
             {Head(polls[p].txs) : p \in {q \in BtcPolls : polls[q].txs # <<>>}}

Broadcast(t) ==
  /\ t \notin ToSet(Listing)
  /\ mempool' = Append(mempool, t)
  /\ UNCHANGED <<chain, lastProcessedTx, polls, queued, btcFaults, early,
                 dropped, overtook>>

Confirm(t) ==
  /\ t \in ToSet(mempool)
  /\ mempool' = RemoveAt(mempool, PlaceIn(mempool, t))
  /\ chain' = Append(chain, t)
  /\ overtook' = IF Cursors \cap (ToSet(mempool) \ {t}) # {}
                 THEN overtook \cup {t} ELSE overtook
  /\ UNCHANGED <<lastProcessedTx, polls, queued, btcFaults, early, dropped>>

\* Mutant: the slice leaves out the transaction just above the cursor.
AboveCursorLess(list) ==
  IF Contains(list, lastProcessedTx)
  THEN SubSeq(list, 1, PlaceIn(list, lastProcessedTx) - 2)
  ELSE list

\* What is listed above the cursor, or everything if the cursor is not listed.
AboveCursor(list) ==
  IF Contains(list, lastProcessedTx)
  THEN SubSeq(list, 1, PlaceIn(list, lastProcessedTx) - 1)
  ELSE list

\* A poll asks for the list; the answer is made now.
PollBtc(p) ==
  /\ polls[p].at = "idle"
  /\ polls' = [polls EXCEPT ![p] = [at |-> "answered", txs |-> Listing,
                                   confirmed |-> ToSet(chain)]]
  /\ UNCHANGED <<mempool, chain, lastProcessedTx, queued, btcFaults, early,
                 dropped, overtook>>

\* The answer arrives: what is above the cursor of this moment is taken, and if
\* that is nothing the poll has ended.
Take(p) ==
  /\ polls[p].at = "answered"
  /\ LET newTxs == AboveCursor(polls[p].txs) IN
       polls' = [polls EXCEPT ![p] =
         IF newTxs = <<>> THEN NoPoll
         ELSE [at |-> "took", txs |-> newTxs,
               confirmed |-> @.confirmed \cap ToSet(newTxs)]]
  /\ UNCHANGED <<mempool, chain, lastProcessedTx, queued, btcFaults, early,
                 dropped, overtook>>

\* It enqueues the confirmed ones (that an add fails is logged), skips the
\* others and makes the first of all the cursor.
EndPoll(p) ==
  /\ polls[p].at = "took"
  /\ \/ /\ queued' = queued \cup polls[p].confirmed
        /\ UNCHANGED <<btcFaults, dropped>>
     \/ /\ BtcFault
        /\ \E t \in polls[p].confirmed :
             /\ queued' = queued \cup (polls[p].confirmed \ {t})
             /\ dropped' = dropped \cup {t}
  /\ early' = early \cup (ToSet(polls[p].txs) \ polls[p].confirmed)
  /\ lastProcessedTx' = Head(polls[p].txs)
  /\ polls' = [polls EXCEPT ![p] = NoPoll]
  /\ UNCHANGED <<mempool, chain, overtook>>

\* The process is restarted and knows no cursor.
RestartBtc ==
  /\ BtcFault
  /\ lastProcessedTx' = NoTx
  /\ polls' = [p \in BtcPolls |-> NoPoll]
  /\ early' = {} /\ dropped' = {} /\ overtook' = {}
  /\ UNCHANGED <<mempool, chain, queued>>

BtcStep(p) == PollBtc(p) \/ Take(p) \/ EndPoll(p)

BtcNext ==
  \/ \E t \in Txs : Broadcast(t) \/ Confirm(t)
  \/ \E p \in BtcPolls : BtcStep(p)
  \/ RestartBtc

\* Every interval starts a poll, every request is answered and every poll ends.
BtcSpec == /\ BtcInit /\ [][BtcNext]_btcVars
           /\ \A p \in BtcPolls : WF_btcVars(BtcStep(p))

-----------------------------------------------------------------------------
\* A confirmed transaction at or below the cursor is in the queue, unless since
\* the last restart a poll met it unconfirmed, its add failed, or it was
\* confirmed before a cursor that was not: nothing else is passed over.
BtcNoHoles ==
  \A t \in ToSet(chain) :
    /\ Contains(Listing, lastProcessedTx)
    /\ ~Contains(AboveCursor(Listing), t)
    => t \in queued \cup early \cup dropped \cup overtook

\* A transaction that no poll meets before it is confirmed is enqueued at last,
\* whatever the polls that overlap do to the cursor.
BtcEventually ==
  <>[](ToSet(chain) \subseteq queued \cup early \cup dropped \cup overtook)
=============================================================================
