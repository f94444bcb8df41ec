----------------------------- MODULE MCDeposits -----------------------------
(***************************************************************************)
(* Small instances.  SameUser: two deposits of one user on two chains.     *)
(* SharedHash: two transfers to different users in one EVM transaction.    *)
(* GoodAndBad: an EVM deposit beside one whose transaction reverts.        *)
(* Workers are interchangeable, and so are the rows of the table.          *)
(***************************************************************************)
EXTENDS Deposits, TLC

CONSTANTS u1, u2, w1, w2, x, y, r1, r2

Transfer(h, chain, u, amount) ==
  [hash |-> h, chain |-> chain, user |-> u, amount |-> amount]

MCUsers     == {u1, u2}
MCHashes    == {x, y}
MCWorkers   == {w1, w2}
OneWorker   == {w1}
MCRowIds    == {r1, r2}
NoneReverted == {}

SameUser     == { Transfer(x, "solana", u1, 1), Transfer(y, "segwit", u1, 2) }
SharedHash   == { Transfer(x, "evm", u1, 1), Transfer(x, "evm", u2, 2) }
GoodAndBad   == { Transfer(x, "evm", u1, 1), Transfer(y, "evm", u1, 2) }
RevertedY    == {y}

Symmetric == Permutations(MCWorkers) \cup Permutations(MCRowIds)
=============================================================================
