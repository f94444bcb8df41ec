---------------------------- MODULE MCWithdrawals ----------------------------
(***************************************************************************)
(* Small instances: two requests of one user that compete for one balance, *)
(* beside an invalid one; a single request.                                *)
(***************************************************************************)
EXTENDS Withdrawals

CONSTANTS u1, usdc, usdt, w1, w2

MCUsers   == {u1}
MCTokens  == {usdc, usdt}
MCWorkers == {w1, w2}
OneWorker == {w1}

Request(id, t, amount, valid) ==
  [id |-> id, user |-> u1, token |-> t, amount |-> amount, fee |-> 1,
   valid |-> valid]

Competing == { Request(1, usdc, 2, TRUE), Request(2, usdc, 1, TRUE),
               Request(3, usdt, 0, FALSE) }
Single    == { Request(1, usdc, 1, TRUE) }
=============================================================================
