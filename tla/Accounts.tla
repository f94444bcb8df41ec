------------------------------ MODULE Accounts ------------------------------
(***************************************************************************)
(* What changes the row of one registered user outside the wallet: email   *)
(* codes and password resets of auth/auth.service.ts and the balance       *)
(* adjustments of admin/admin.service.ts.  All but the adjustment save the *)
(* whole row as they read it: save reads the row again, and if a column    *)
(* differs hashes the password and updates the columns that differ.        *)
(***************************************************************************)
EXTENDS Integers, FiniteSetsExt

CONSTANTS Calls,    \* the requests of a behaviour
          Tokens,   \* the password reset tokens that may be signed
          MaxCodes, \* bound on the verification codes, numbered as they come
          MaxCalls  \* bound on the requests that are made

\* "other" stands for every unlocked writer elsewhere that changes none of these
\* columns itself.
Kinds == {"verify", "resend", "request", "reset", "adjust", "other"}

\* amount: of an adjustment.  The new password of a reset is named by its call.
CallType == [id: Nat \ {0}, kind: Kinds, amount: Nat]

ASSUME AccountAssumption ==
  /\ Calls \subseteq CallType /\ MaxCodes \in Nat \ {0} /\ MaxCalls \in Nat
  /\ \A c, d \in Calls : c.id = d.id => c = d

VARIABLES acct,   \* the user's row
          tokens, \* reset tokens that Redis holds
          pc,     \* where each call is
          copy,   \* its copy of the row
          dirty,  \* the columns its save is about to update
          given,  \* the code or the token it came with
          code,   \* the last code that was made
          lastMail, \* the code in the last mail (history)
          signed, \* tokens that were signed (history)
          resets, \* resets[t]: passwords saved with token t (history)
          shared, \* tokens a reset came with while another had not got rid of
                  \* them, or had failed to (history)
          behind, \* calls whose copy is older than the password (history)
          recorded, \* sum of the adjustments with a transaction row (history)
          overlapped \* two calls were in progress at once (history)

accountVars == <<acct, tokens, pc, copy, dirty, given, code, lastMail, signed,
                 resets, shared, behind, recorded, overlapped>>

\* times: how often the password has been hashed.
Password == [of: Nat, times: Nat]
Row == [verified: BOOLEAN, code: Nat, password: Password, balance: Nat]
Columns == {"verified", "code", "password", "balance"}
NoRow == [verified |-> FALSE, code |-> 0, password |-> [of |-> 0, times |-> 0],
          balance |-> 0]

\* "failed": an error before the row was updated, "lost": one after it.
Over == {"new", "done", "refused", "failed", "lost"}
PCs == Over \cup {"find", "reload", "update", "mail", "delete", "record"}

AccountTypeOK ==
  /\ acct \in Row /\ tokens \subseteq signed /\ signed \subseteq Tokens
  /\ pc \in [Calls -> PCs] /\ copy \in [Calls -> Row]
  /\ dirty \in [Calls -> SUBSET Columns]
  /\ given \in [Calls -> Tokens \cup 0 .. MaxCodes]
  /\ code \in 1 .. MaxCodes /\ lastMail \in 1 .. MaxCodes
  /\ resets \in [Tokens -> Nat] /\ shared \subseteq Tokens
  /\ behind \subseteq Calls /\ recorded \in Nat /\ overlapped \in BOOLEAN

\* The row as register left it, and its mail.
AccountInit ==
  /\ acct = [verified |-> FALSE, code |-> 1, balance |-> 0,
             password |-> [of |-> 0, times |-> 1]]
  /\ tokens = {} /\ signed = {} /\ code = 1 /\ lastMail = 1
  /\ pc = [c \in Calls |-> "new"] /\ copy = [c \in Calls |-> NoRow]
  /\ dirty = [c \in Calls |-> {}] /\ given = [c \in Calls |-> 0]
  /\ resets = [t \in Tokens |-> 0] /\ shared = {} /\ behind = {}
  /\ recorded = 0 /\ overlapped = FALSE

-----------------------------------------------------------------------------
InFlight(c) == pc[c] \notin Over
past == <<lastMail, resets, shared, behind, recorded>>

Goto(c, l) ==
  /\ pc' = [pc EXCEPT ![c] = l]
  /\ UNCHANGED overlapped

\* The first step of a call.
Begin(c, l) ==
  /\ pc[c] = "new"
  /\ Cardinality({d \in Calls : pc[d] # "new"}) < MaxCalls
  /\ pc' = [pc EXCEPT ![c] = l]
  /\ overlapped' = (overlapped \/ \E d \in Calls : InFlight(d))

\* verifyEmail reads the row and, if the code is the row's, marks its copy.
Verify(c) ==
  /\ c.kind = "verify"
  /\ \E n \in 1 .. MaxCodes :
       /\ given' = [given EXCEPT ![c] = n]
       /\ IF acct.verified \/ acct.code # n
          THEN Begin(c, "refused") /\ UNCHANGED copy
          ELSE /\ Begin(c, "reload")
               /\ copy' = [copy EXCEPT ![c] =
                             [acct EXCEPT !.verified = TRUE, !.code = 0]]
  /\ UNCHANGED <<acct, tokens, dirty, code, signed, past>>

WithCode(n) == [acct EXCEPT !.code = n]

\* resendVerification reads the row and gives its copy a new code.
Resend(c) ==
  /\ c.kind = "resend"
  /\ IF acct.verified
     THEN Begin(c, "refused") /\ UNCHANGED <<code, given, copy>>
     ELSE /\ code < MaxCodes
          /\ code' = code + 1
          /\ given' = [given EXCEPT ![c] = code + 1]
          /\ copy' = [copy EXCEPT ![c] = WithCode(code + 1)]
          /\ Begin(c, "reload")
  /\ UNCHANGED <<acct, tokens, dirty, signed, past>>

\* requestPasswordReset only reads the row.  Its mail goes out or it does not:
\* the token is valid either way.
RequestReset(c) ==
  /\ c.kind = "request"
  /\ \E t \in Tokens \ signed :
       signed' = signed \cup {t} /\ tokens' = tokens \cup {t}
  /\ Begin(c, "done")
  /\ UNCHANGED <<acct, copy, dirty, given, code, past>>

ExpireToken(t) ==
  /\ t \in tokens
  /\ tokens' = tokens \ {t}
  /\ UNCHANGED <<acct, pc, copy, dirty, given, code, signed, past, overlapped>>

HasToken(c, t) == c.kind = "reset" /\ given[c] = t

\* resetPassword looks for the token, then reads the row.
CheckToken(c) ==
  /\ c.kind = "reset"
  /\ \E t \in signed :
       /\ given' = [given EXCEPT ![c] = t]
       /\ Begin(c, IF t \in tokens THEN "find" ELSE "refused")
       /\ shared' = IF \E d \in Calls : /\ HasToken(d, t)
                                        /\ InFlight(d) \/ pc[d] = "lost"
                    THEN shared \cup {t} ELSE shared
  /\ UNCHANGED <<acct, tokens, copy, dirty, code, signed, lastMail, resets, behind,
                 recorded>>

FindForReset(c) ==
  /\ pc[c] = "find"
  /\ copy' = [copy EXCEPT ![c] =
                [acct EXCEPT !.password = [of |-> c.id, times |-> 0]]]
  /\ Goto(c, "reload")
  /\ UNCHANGED <<acct, tokens, dirty, given, code, signed, past>>

NewBalance(c) == acct.balance + c.amount

\* updateUserBalance updates one column to a sum made of what it has read.
Adjust(c) ==
  /\ c.kind = "adjust"
  /\ copy' = [copy EXCEPT ![c] = [acct EXCEPT !.balance = NewBalance(c)]]
  /\ dirty' = [dirty EXCEPT ![c] = {"balance"}]
  /\ Begin(c, "update")
  /\ UNCHANGED <<acct, tokens, given, code, signed, past>>

OtherWriter(c) ==
  /\ c.kind = "other"
  /\ copy' = [copy EXCEPT ![c] = acct]
  /\ Begin(c, "reload")
  /\ UNCHANGED <<acct, tokens, dirty, given, code, signed, past>>

-----------------------------------------------------------------------------
Differs(r) == {k \in Columns : r[k] # acct[k]}

\* Mutant: a password that is a hash is hashed too.
HashEach(p) == [p EXCEPT !.times = @ + 1]

\* hashPassword of the entity leaves a password alone that is a hash.
Hashed(p) == IF p.times = 0 THEN [p EXCEPT !.times = 1] ELSE p

\* save reads the row again; the hook runs only if there is something to update.
Reload(c) ==
  /\ pc[c] = "reload"
  /\ LET h == [copy[c] EXCEPT !.password = Hashed(@)] IN
     IF Differs(copy[c]) = {}
     THEN /\ UNCHANGED copy
          /\ dirty' = [dirty EXCEPT ![c] = {}]
     ELSE /\ copy' = [copy EXCEPT ![c] = h]
          /\ dirty' = [dirty EXCEPT ![c] = Differs(h)]
  /\ Goto(c, "update")
  /\ UNCHANGED <<acct, tokens, given, code, signed, past>>

AfterUpdate(c) == CASE c.kind = "resend" -> "mail" [] c.kind = "reset" -> "delete"
                    [] c.kind = "adjust" -> "record" [] OTHER -> "done"

Saved(c) == [k \in Columns |-> IF k \in dirty[c] THEN copy[c][k] ELSE acct[k]]

Holds(c) == pc[c] \in {"reload", "update"}

Update(c) ==
  /\ pc[c] = "update"
  /\ acct' = Saved(c)
  /\ behind' = (IF acct'.password # acct.password
                THEN behind \cup {d \in Calls : Holds(d)} ELSE behind) \ {c}
  /\ resets' = IF c.kind = "reset" THEN [resets EXCEPT ![given[c]] = @ + 1]
               ELSE resets
  /\ copy' = [copy EXCEPT ![c] = NoRow]
  /\ dirty' = [dirty EXCEPT ![c] = {}]
  /\ Goto(c, AfterUpdate(c))
  /\ UNCHANGED <<tokens, given, code, signed, lastMail, shared, recorded>>

MailCode(c) ==
  /\ pc[c] = "mail"
  /\ lastMail' = given[c]
  /\ Goto(c, "done")
  /\ UNCHANGED <<acct, tokens, copy, dirty, given, code, signed, resets, shared,
                 behind, recorded>>

\* Mutant: a token that was used stays.
KeepToken(t) == tokens

Without(t) == tokens \ {t}

DeleteToken(c) ==
  /\ pc[c] = "delete"
  /\ tokens' = Without(given[c])
  /\ Goto(c, "done")
  /\ UNCHANGED <<acct, copy, dirty, given, code, signed, past>>

Record(c) ==
  /\ pc[c] = "record"
  /\ recorded' = recorded + c.amount
  /\ Goto(c, "done")
  /\ UNCHANGED <<acct, tokens, copy, dirty, given, code, signed, lastMail, resets,
                 shared, behind>>

\* The database, Redis or the mail server fails, or the process stops.
Break(c) ==
  /\ InFlight(c)
  /\ Goto(c, IF pc[c] \in {"mail", "delete", "record"} THEN "lost" ELSE "failed")
  /\ copy' = [copy EXCEPT ![c] = NoRow]
  /\ dirty' = [dirty EXCEPT ![c] = {}]
  /\ behind' = behind \ {c}
  /\ UNCHANGED <<acct, tokens, given, code, signed, lastMail, resets, shared,
                 recorded>>

AccountStep(c) ==
  \/ Verify(c) \/ Resend(c) \/ RequestReset(c) \/ CheckToken(c) \/ FindForReset(c)
  \/ Adjust(c) \/ OtherWriter(c) \/ Reload(c) \/ Update(c) \/ MailCode(c)
  \/ DeleteToken(c) \/ Record(c) \/ Break(c)

AccountNext ==
  \/ \E c \in Calls : AccountStep(c)
  \/ \E t \in Tokens : ExpireToken(t)

AccountSpec == AccountInit /\ [][AccountNext]_accountVars

-----------------------------------------------------------------------------
\* Whichever saves cross each other, what the row holds as the password is the
\* hash of one, never a plain password and never the hash of a hash: anything
\* else would shut the user out.
PasswordHashedOnce == acct.password.times = 1

\* The password changes only with a password reset, or with the save of a call
\* whose copy of the row is older than the last change.
UndoneByOlder ==
  [][acct'.password # acct.password =>
       \E c \in Calls : /\ pc[c] = "update" /\ pc'[c] # "update"
                        /\ c.kind = "reset" \/ c \in behind]_accountVars

\* "Remove token from Redis": a token changes the password once, unless it came
\* again before it was removed or the removal failed.
TokenResetsOnce ==
  \A t \in Tokens : resets[t] > 1 => t \in shared

\* A user stays verified unless calls crossed.
StaysVerified == [][acct.verified /\ ~acct'.verified => overlapped]_accountVars

\* A save undoes a password or a verification only with a copy that was older.
OnlyOlderUndoes == UndoneByOlder /\ StaysVerified

\* An unverified user can use the code of the last mail, unless calls crossed
\* or the mail of a newer code was lost.
LastMailVerifies ==
  \/ overlapped \/ acct.verified
  \/ \E c \in Calls : InFlight(c) \/ (c.kind = "resend" /\ pc[c] = "lost")
  \/ acct.code = lastMail

\* Without games or deposits the balance is the sum of the adjustments that have
\* a transaction row, unless calls crossed or the row of one was lost.
AdjustmentsRecorded ==
  \/ overlapped
  \/ \E c \in Calls : c.kind = "adjust" /\ (InFlight(c) \/ pc[c] = "lost")
  \/ acct.balance = recorded
=============================================================================
