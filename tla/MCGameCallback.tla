---------------------------- MODULE MCGameCallback ----------------------------
(***************************************************************************)
(* Small instance: two users and a code nobody has; the bet and the win of *)
(* a round under one txn_id, a combined transaction, and a second user's   *)
(* debit under the first user's key.                                       *)
(***************************************************************************)
EXTENDS GameCallback, TLC

CONSTANTS u1, u2, ghost, h1, h2

MCUsers     == {u1, u2}
MCUserCodes == {u1, u2, ghost}
MCHandlers  == {h1, h2}
MCTxnIds    == {"t1", "t2"}

Request(u, id, type, bet, win) ==
  [user |-> u, txn_id |-> id, txn_type |-> type, bet |-> bet, win |-> win]

MCMsgs == { Request(u1, "t1", "debit", 2, 0),
            Request(u1, "t1", "credit", 0, 3),
            Request(u1, "t2", "debit_credit", 2, 1),
            Request(u2, "t1", "debit", 1, 0),
            Request(ghost, "t2", "debit", 1, 0),
            Request(u2, "t2", "other", 1, 0) }

LiveMsgs == { Request(u1, "t1", "debit", 2, 0),
              Request(u2, "t1", "debit", 1, 0),
              Request(ghost, "t2", "debit", 1, 0) }

HandlerSymmetry == Permutations(MCHandlers)
=============================================================================
