----------------------------- MODULE MCAccounts -----------------------------
(***************************************************************************)
(* Registering, the row of a registered user, and the sweep of a user's    *)
(* deposits.  A behaviour runs one of the three.                           *)
(***************************************************************************)
EXTENDS Accounts, Registration, Sweeps

CONSTANTS k1 \* reset tokens

VARIABLE part \* the one that runs

vars == <<part, accountVars, registrationVars, sweepVars>>

Request(i, n, e) == [id |-> i, name |-> n, email |-> e]
MCRequests == { Request(1, "n1", "e1"), Request(2, "n1", "e2"),
                Request(3, "n2", "e1") }

Call(i, kind, amount) == [id |-> i, kind |-> kind, amount |-> amount]
MCCalls == { Call(1, "verify", 0), Call(2, "resend", 0), Call(3, "resend", 0),
             Call(4, "request", 0), Call(5, "reset", 0), Call(6, "reset", 0),
             Call(7, "adjust", 2), Call(8, "adjust", 1), Call(9, "other", 0) }
MCTokens == {k1}

MCChains == <<"ethereum", "base">>
MCIncoming == { << <<"bitcoin", "btc">>, 2>>, << <<"ethereum", "usdt">>, 1>>,
                << <<"ethereum", "usdc">>, 1>>, << <<"ethereum", "eth">>, 3>>,
                << <<"base", "usdt">>, 1>> }

Init == /\ part \in {"register", "account", "sweep"}
        /\ AccountInit /\ RegistrationInit /\ SweepInit

Next ==
  \/ /\ part = "register" /\ RegistrationNext
     /\ UNCHANGED <<part, accountVars, sweepVars>>
  \/ /\ part = "account" /\ AccountNext
     /\ UNCHANGED <<part, registrationVars, sweepVars>>
  \/ /\ part = "sweep" /\ SweepNext
     /\ UNCHANGED <<part, accountVars, registrationVars>>

Spec == Init /\ [][Next]_vars

-----------------------------------------------------------------------------
\* The types of the variables of the three parts.
TypesOK == AccountTypeOK /\ RegistrationTypeOK /\ SweepTypeOK

\* What crossing calls leave of an account, and a sweep of the tokens it met.
AccountsSafe == /\ PasswordHashedOnce /\ TokenResetsOnce
                /\ LastMailVerifies /\ AdjustmentsRecorded
                /\ TokensBeforeGas
=============================================================================
