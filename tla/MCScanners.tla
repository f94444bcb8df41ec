----------------------------- MODULE MCScanners -----------------------------
(***************************************************************************)
(* The three scanners.  They share nothing but the queue, in which the job *)
(* names of different chains differ, so a behaviour runs one of them.      *)
(***************************************************************************)
EXTENDS EvmScanner, SolScanner, BtcScanner

CONSTANTS a1, t1, t2, b1, b2, b3, p1, p2

VARIABLE scanner \* the one that runs

vars == <<scanner, evmVars, solVars, btcVars>>

MCTransfers == {t1, t2}
MCToken == [t \in MCTransfers |-> IF t = t1 THEN "USDT" ELSE "ETH"]
MCTo == [t \in MCTransfers |-> a1]
MCLags == <<2, 3, 4>>
MCMoves == <<{"SOL"}, {"SOL", "SPL"}, {"SPL"}, {"SOL"}>>
MCPolls == {p1, p2}
MCTxs == {b1, b2, b3}

Init == /\ scanner \in {"evm", "sol", "btc"}
        /\ EvmInit /\ SolInit /\ BtcInit

IfEvm(A) == scanner = "evm" /\ A /\ UNCHANGED <<scanner, solVars, btcVars>>
IfSol(A) == scanner = "sol" /\ A /\ UNCHANGED <<scanner, evmVars, btcVars>>
IfBtc(A) == scanner = "btc" /\ A /\ UNCHANGED <<scanner, evmVars, solVars>>

Next == IfEvm(EvmNext) \/ IfSol(SolNext) \/ IfBtc(BtcNext)

\* The fairness of each scanner, on the variables of all of them.
Fairness ==
  /\ WF_vars(IfEvm(Scanner))
  /\ \A p \in Polls : WF_vars(IfSol(PollStep(p)))
  /\ WF_vars(IfSol(Load))
  /\ \A p \in BtcPolls : WF_vars(IfBtc(BtcStep(p)))

Spec == Init /\ [][Next]_vars /\ Fairness

\* Bitcoin transactions differ in name only: the instance broadcasts them in this
\* order.  No step that Fairness asks for changes what is listed.
InOrder == \E n \in 0 .. 3 :
             ToSet(Listing) = {<<b1, b2, b3>>[i] : i \in 1 .. n}

MCNext == IfEvm(EvmNext) \/ IfSol(SolNext) \/ (IfBtc(BtcNext) /\ InOrder')

MCSpec == Init /\ [][MCNext]_vars /\ Fairness

-----------------------------------------------------------------------------
\* Overlapping polls of an address: a Solana cursor passes over a transfer only for
\* a reason that is named and a signature without a mint holds it up, a Bitcoin
\* cursor passes over nothing that is confirmed without such a reason.
PollsSafe == /\ SolTypeOK /\ SolNoHoles /\ PlainHoldsUp
             /\ BtcTypeOK /\ BtcNoHoles

\* Whichever scanner runs: when the faults are over it gets to what there is.
AllCatchUp == CatchesUp /\ SolEventually /\ BtcEventually
=============================================================================
