--------------------------- MODULE AccountsProofs ---------------------------
(***************************************************************************)
(* Registering, the row of a registered user and the sweep of a user's     *)
(* deposits, for any number of requests: what holds however calls cross,   *)
(* and what holds unless they do.                                          *)
(***************************************************************************)
EXTENDS MCAccounts, SequenceTheorems, TLAPS

-----------------------------------------------------------------------------
(* Registering.  A look-up for an email protects against users that are    *)
(* there; against a registration that is under way only the index on the   *)
(* name helps, and so the invariant has to say of a registration that is   *)
(* about to save which others it has met.                                  *)

\* Where a registration is tells whether its user is there, listed and mailed.
Progress ==
  \A r \in Requests :
    /\ at[r] \in {"new", "checkName", "checkEmail", "save", "exists"}
         => r \notin users
    /\ at[r] \in {"list", "mail", "success"} => r \in users
    /\ at[r] \in {"mail", "success"} => r \in listed
    /\ at[r] = "success" => r \in mailed
    /\ at[r] = "failure" /\ r \in users => lostAt[r] \in {"list", "mail"}

\* Two registrations in progress have met.
AllMet ==
  \A q, r \in Requests :
    q # r /\ Registering(q) /\ Registering(r) => {q, r} \in met

\* A registration that passed its look-ups has met whoever has its email now.
LookedUp ==
  \A r \in Requests : at[r] = "save" =>
    \A u \in users : u.email = r.email => {u, r} \in met

RegInv == /\ RegistrationTypeOK /\ Progress /\ AllMet /\ LookedUp
          /\ EmailTwiceNeedsRace

LEMMA PairSwap == ASSUME NEW x, NEW y PROVE {x, y} = {y, x}
  OBVIOUS

LEMMA InitRegInv == RegistrationInit => RegInv
  BY DEF RegistrationInit, RegInv, RegistrationTypeOK, Progress, AllMet, LookedUp,
         EmailTwiceNeedsRace, Registering, Steps, Answers

-----------------------------------------------------------------------------
LEMMA SubmitKeeps ==
  ASSUME RegInv, NEW r \in Requests, Submit(r) PROVE RegInv'
<1> USE DEF Submit, Move
<1>1. RegistrationTypeOK'
  <2>1. met' \subseteq SUBSET Requests
    BY DEF RegInv, RegistrationTypeOK
  <2> QED BY <2>1 DEF RegInv, RegistrationTypeOK, Steps
<1>2. Progress'
  BY DEF RegInv, RegistrationTypeOK, Progress
<1>3. AllMet'
  <2> SUFFICES ASSUME NEW p \in Requests, NEW q \in Requests, p # q,
                      Registering(p)', Registering(q)'
               PROVE  {p, q} \in met'
    BY DEF AllMet
  <2>1. CASE p # r /\ q # r
    BY <2>1 DEF RegInv, RegistrationTypeOK, AllMet, Registering
  <2>2. CASE p = r
    <3>1. Registering(q)
      BY <2>2 DEF RegInv, RegistrationTypeOK, Registering
    <3> QED BY <2>2, <3>1
  <2>3. CASE q = r
    <3>1. Registering(p)
      BY <2>3 DEF RegInv, RegistrationTypeOK, Registering
    <3> QED BY <2>3, <3>1, PairSwap
  <2> QED BY <2>1, <2>2, <2>3
<1>4. LookedUp'
  BY DEF RegInv, RegistrationTypeOK, LookedUp
<1>5. EmailTwiceNeedsRace'
  BY DEF RegInv, EmailTwiceNeedsRace
<1> QED BY <1>1, <1>2, <1>3, <1>4, <1>5 DEF RegInv

\* The steps that leave the users and who has met whom alone.
LEMMA QuietKeeps ==
  ASSUME RegInv, NEW r \in Requests,
         \/ CheckName(r) \/ CheckEmail(r) \/ ListAddress(r) \/ SendMail(r)
         \/ RegistrationFails(r)
  PROVE  RegInv'
<1> USE DEF CheckName, CheckEmail, ListAddress, SendMail, RegistrationFails,
            Move
<1>1. RegistrationTypeOK'
  BY DEF RegInv, RegistrationTypeOK, Progress, Registering, Steps, Answers
<1>2. Progress'
  BY DEF RegInv, RegistrationTypeOK, Progress, Registering, Steps
<1>3. AllMet'
  BY DEF RegInv, RegistrationTypeOK, AllMet, Registering, Steps
<1>4. LookedUp'
  BY DEF RegInv, RegistrationTypeOK, LookedUp, EmailUnused
<1>5. EmailTwiceNeedsRace'
  BY DEF RegInv, EmailTwiceNeedsRace
<1> QED BY <1>1, <1>2, <1>3, <1>4, <1>5 DEF RegInv

LEMMA SaveKeeps ==
  ASSUME RegInv, NEW r \in Requests, SaveUser(r) PROVE RegInv'
<1> USE DEF SaveUser, Move, AfterSave
<1>1. RegistrationTypeOK'
  BY DEF RegInv, RegistrationTypeOK, Steps, Answers
<1>2. Progress'
  BY DEF RegInv, RegistrationTypeOK, Progress
<1>3. AllMet'
  BY DEF RegInv, RegistrationTypeOK, AllMet, Registering, Steps
<1>4. LookedUp'
  <2> SUFFICES ASSUME NEW q \in Requests, at'[q] = "save",
                      NEW u \in users', u.email = q.email
               PROVE  {u, q} \in met'
    BY DEF LookedUp
  <2>1. q # r /\ at[q] = "save"
    BY DEF RegInv, RegistrationTypeOK
  <2>2. CASE u \in users
    BY <2>1, <2>2 DEF RegInv, LookedUp
  <2>3. CASE u = r
    <3>1. Registering(q) /\ Registering(r)
      BY <2>1 DEF Registering, Steps
    <3> QED BY <2>1, <2>3, <3>1 DEF RegInv, AllMet
  <2> QED BY <2>2, <2>3
<1>5. EmailTwiceNeedsRace'
  <2>1. CASE ~Unique(r)
    BY <2>1 DEF RegInv, EmailTwiceNeedsRace
  <2>2. CASE Unique(r)
    <3> SUFFICES ASSUME NEW u \in users', NEW w \in users', u # w
                 PROVE  /\ u.name # w.name
                        /\ u.email = w.email => {u, w} \in met'
      BY DEF EmailTwiceNeedsRace
    <3>1. CASE u \in users /\ w \in users
      BY <3>1 DEF RegInv, EmailTwiceNeedsRace
    <3>2. CASE w = r /\ u \in users
      BY <2>2, <3>2 DEF RegInv, LookedUp, Unique
    <3>3. CASE u = r /\ w \in users
      BY <2>2, <3>3, PairSwap DEF RegInv, LookedUp, Unique
    <3> QED BY <2>2, <3>1, <3>2, <3>3
  <2> QED BY <2>1, <2>2
<1> QED BY <1>1, <1>2, <1>3, <1>4, <1>5 DEF RegInv

LEMMA ListAllKeeps ==
  ASSUME RegInv, ListAll \/ UNCHANGED registrationVars PROVE RegInv'
  BY DEF RegInv, ListAll, registrationVars, RegistrationTypeOK, Progress, AllMet,
         LookedUp, EmailTwiceNeedsRace, Registering

LEMMA RegStep == RegInv /\ [RegistrationNext]_registrationVars => RegInv'
  BY SubmitKeeps, QuietKeeps, SaveKeeps, ListAllKeeps DEF RegistrationNext

LEMMA RegInvariant == RegistrationSpec => []RegInv
  BY InitRegInv, RegStep, PTL DEF RegistrationSpec

-----------------------------------------------------------------------------
\* However many register at once: no two users share a name, and two share an
\* email only if their registrations were in progress together.
THEOREM EmailsUnique == RegistrationSpec => []EmailTwiceNeedsRace
<1>1. RegInv => EmailTwiceNeedsRace
  BY DEF RegInv
<1> QED BY <1>1, RegInvariant, PTL

\* Whoever register tells of success has an account, a watched address and a mail.
THEOREM SuccessComplete == RegistrationSpec => []SuccessIsComplete
<1>1. RegInv => SuccessIsComplete
  BY DEF RegInv, Progress, SuccessIsComplete
<1> QED BY <1>1, RegInvariant, PTL

\* Whoever register tells of a failure has an account only if the list or the
\* mail failed, and an unwatched address is nobody's who was told of success.
THEOREM FailuresKnown == RegistrationSpec => []FailureWithAccount
<1>1. RegInv => FailureWithAccount
  BY DEF RegInv, RegistrationTypeOK, Progress, FailureWithAccount, Steps, Answers
<1> QED BY <1>1, RegInvariant, PTL

-----------------------------------------------------------------------------
(* The row of a user: types                                                *)

\* Where each kind of call comes, and what it came with.
KindsOK ==
  \A c \in Calls :
    /\ pc[c] \in {"find", "delete"} => c.kind = "reset"
    /\ pc[c] = "mail" => c.kind = "resend"
    /\ pc[c] = "record" => c.kind = "adjust"
    /\ pc[c] = "reload" => c.kind \in {"verify", "resend", "reset", "other"}
    /\ c.kind = "resend" /\ InFlight(c) => given[c] \in 1 .. MaxCodes
    /\ c.kind = "reset" /\ pc[c] # "new" => given[c] \in signed

AccTypes == AccountTypeOK /\ KindsOK

LEMMA CallFacts ==
  ASSUME NEW c \in Calls
  PROVE  c.id \in Nat \ {0} /\ c.kind \in Kinds /\ c.amount \in Nat
  BY AccountAssumption DEF CallType

LEMMA CodesFact == MaxCodes \in Nat /\ MaxCodes >= 1
  BY AccountAssumption

\* A step of one call moves no other.
LEMMA OthersStay ==
  ASSUME AccountTypeOK, NEW c \in Calls, AccountStep(c), NEW d \in Calls \ {c}
  PROVE  /\ pc'[d] = pc[d] /\ copy'[d] = copy[d]
         /\ dirty'[d] = dirty[d] /\ given'[d] = given[d]
<1>1. pc'[d] = pc[d]
  BY DEF AccountStep, Verify, Resend, RequestReset, CheckToken, FindForReset, Adjust,
         OtherWriter, Reload, Update, MailCode, DeleteToken, Record, Break, Begin,
         Goto, AccountTypeOK
<1>2. copy'[d] = copy[d]
  BY DEF AccountStep, Verify, Resend, RequestReset, CheckToken, FindForReset, Adjust,
         OtherWriter, Reload, Update, MailCode, DeleteToken, Record, Break,
         AccountTypeOK
<1>3. dirty'[d] = dirty[d] /\ given'[d] = given[d]
  BY DEF AccountStep, Verify, Resend, RequestReset, CheckToken, FindForReset, Adjust,
         OtherWriter, Reload, Update, MailCode, DeleteToken, Record, Break,
         AccountTypeOK
<1> QED BY <1>1, <1>2, <1>3

\* What a step makes of the place of its call.
Placed(c, S) ==
  pc' \in [Calls -> PCs] /\ overlapped' \in BOOLEAN /\ pc'[c] \in S

LEMMA PlaceAfter ==
  ASSUME AccountTypeOK, NEW c \in Calls
  PROVE  /\ Verify(c) => Placed(c, {"refused", "reload"})
         /\ Resend(c) => Placed(c, {"refused", "reload"})
         /\ RequestReset(c) => Placed(c, {"done"})
         /\ CheckToken(c) => Placed(c, {"refused", "find"})
         /\ FindForReset(c) => Placed(c, {"reload"})
         /\ OtherWriter(c) => Placed(c, {"reload"})
         /\ Adjust(c) => Placed(c, {"update"})
         /\ Reload(c) => Placed(c, {"update"})
         /\ Update(c) => Placed(c, {AfterUpdate(c)})
         /\ MailCode(c) => Placed(c, {"done"})
         /\ DeleteToken(c) => Placed(c, {"done"})
         /\ Record(c) => Placed(c, {"done"})
         /\ Break(c) => Placed(c, {"failed", "lost"})
<1>1. pc \in [Calls -> PCs] /\ overlapped \in BOOLEAN
  BY DEF AccountTypeOK
<1>2. AfterUpdate(c) \in PCs
  BY DEF AfterUpdate, PCs, Over
<1>3. ASSUME NEW l \in PCs, Begin(c, l) \/ Goto(c, l) PROVE Placed(c, {l})
  BY <1>1, <1>3 DEF Begin, Goto, Placed
<1>4. {"refused", "reload", "done", "find", "update", "failed", "lost"} \subseteq PCs
  BY DEF PCs, Over
<1> HIDE DEF Placed
<1>5. ASSUME NEW l \in PCs, NEW S, l \in S, Placed(c, {l}) PROVE Placed(c, S)
  BY <1>5 DEF Placed
<1>6. Verify(c) => Placed(c, {"refused", "reload"})
  <2> SUFFICES ASSUME Verify(c) PROVE Placed(c, {"refused", "reload"})
    OBVIOUS
  <2>1. Begin(c, "refused") \/ Begin(c, "reload")
    BY DEF Verify
  <2>2. Placed(c, {"refused"}) \/ Placed(c, {"reload"})
    BY <1>3, <1>4, <2>1
  <2> QED BY <1>4, <1>5, <2>2
<1>7. Resend(c) => Placed(c, {"refused", "reload"})
  <2> SUFFICES ASSUME Resend(c) PROVE Placed(c, {"refused", "reload"})
    OBVIOUS
  <2>1. Begin(c, "refused") \/ Begin(c, "reload")
    BY DEF Resend
  <2>2. Placed(c, {"refused"}) \/ Placed(c, {"reload"})
    BY <1>3, <1>4, <2>1
  <2> QED BY <1>4, <1>5, <2>2
<1>8. RequestReset(c) => Placed(c, {"done"})
  BY <1>3, <1>4 DEF RequestReset
<1>9. CheckToken(c) => Placed(c, {"refused", "find"})
  <2> SUFFICES ASSUME CheckToken(c) PROVE Placed(c, {"refused", "find"})
    OBVIOUS
  <2>1. Begin(c, "find") \/ Begin(c, "refused")
    BY DEF CheckToken
  <2> QED BY <1>3, <1>4, <1>5, <2>1
<1>10. FindForReset(c) => Placed(c, {"reload"})
  BY <1>3, <1>4 DEF FindForReset
<1>11. OtherWriter(c) => Placed(c, {"reload"})
  BY <1>3, <1>4 DEF OtherWriter
<1>12. Adjust(c) => Placed(c, {"update"})
  BY <1>3, <1>4 DEF Adjust
<1>13. Reload(c) => Placed(c, {"update"})
  BY <1>3, <1>4 DEF Reload
<1>14. Update(c) => Placed(c, {AfterUpdate(c)})
  BY <1>2, <1>3 DEF Update
<1>15. MailCode(c) => Placed(c, {"done"})
  BY <1>3, <1>4 DEF MailCode
<1>16. DeleteToken(c) => Placed(c, {"done"})
  BY <1>3, <1>4 DEF DeleteToken
<1>17. Record(c) => Placed(c, {"done"})
  BY <1>3, <1>4 DEF Record
<1>18. Break(c) => Placed(c, {"failed", "lost"})
  <2> SUFFICES ASSUME Break(c) PROVE Placed(c, {"failed", "lost"})
    OBVIOUS
  <2>1. Goto(c, "failed") \/ Goto(c, "lost")
    BY DEF Break
  <2> QED BY <1>3, <1>4, <1>5, <2>1
<1> QED BY <1>6, <1>7, <1>8, <1>9, <1>10, <1>11, <1>12, <1>13, <1>14, <1>15,
           <1>16, <1>17, <1>18

-----------------------------------------------------------------------------
(* Rows                                                                    *)

\* A column of a row is a field of it.
LEMMA SavedFacts ==
  ASSUME NEW c \in Calls, copy[c] \in Row, acct \in Row
  PROVE  /\ Saved(c) \in Row
         /\ Saved(c).verified = IF "verified" \in dirty[c] THEN copy[c].verified
                                ELSE acct.verified
         /\ Saved(c).code = IF "code" \in dirty[c] THEN copy[c].code ELSE acct.code
         /\ Saved(c).password = IF "password" \in dirty[c] THEN copy[c].password
                                ELSE acct.password
         /\ Saved(c).balance = IF "balance" \in dirty[c] THEN copy[c].balance
                               ELSE acct.balance
<1>1. Saved(c) \in Row
  BY DEF Saved, Row, Columns
<1>2. Saved(c).code = IF "code" \in dirty[c] THEN copy[c].code ELSE acct.code
  BY Zenon DEF Saved, Columns
<1>3. Saved(c).password = IF "password" \in dirty[c] THEN copy[c].password
                          ELSE acct.password
  BY Zenon DEF Saved, Columns
<1>4. Saved(c).balance = IF "balance" \in dirty[c] THEN copy[c].balance
                         ELSE acct.balance
  BY Zenon DEF Saved, Columns
<1>5. Saved(c).verified = IF "verified" \in dirty[c] THEN copy[c].verified
                          ELSE acct.verified
  BY Zenon DEF Saved, Columns
<1> QED BY <1>1, <1>2, <1>3, <1>4, <1>5

\* The columns that differ between two rows are the fields that do.
LEMMA DiffersFacts ==
  ASSUME NEW r \in Row, acct \in Row
  PROVE  /\ Differs(r) \subseteq Columns
         /\ "verified" \in Differs(r) <=> r.verified # acct.verified
         /\ "code" \in Differs(r) <=> r.code # acct.code
         /\ "password" \in Differs(r) <=> r.password # acct.password
         /\ "balance" \in Differs(r) <=> r.balance # acct.balance
  BY Zenon DEF Differs, Columns

LEMMA HashedFacts ==
  ASSUME NEW p \in Password
  PROVE  /\ Hashed(p) \in Password
         /\ p.times \in {0, 1} => Hashed(p).times = 1
         /\ p.times = 1 => Hashed(p) = p
  BY DEF Password, Hashed

\* What a call copies, from a row of the table.
LEMMA CopyFacts ==
  ASSUME NEW r \in Row
  PROVE  /\ \A p \in Password : LET s == [r EXCEPT !.password = p] IN
              /\ s \in Row /\ s.password = p /\ s.code = r.code
              /\ s.verified = r.verified /\ s.balance = r.balance
         /\ \A n \in Nat : LET s == [r EXCEPT !.code = n] IN
              /\ s \in Row /\ s.code = n /\ s.password = r.password
              /\ s.verified = r.verified /\ s.balance = r.balance
         /\ \A n \in Nat : LET s == [r EXCEPT !.balance = n] IN
              /\ s \in Row /\ s.balance = n /\ s.password = r.password
              /\ s.verified = r.verified /\ s.code = r.code
         /\ LET s == [r EXCEPT !.verified = TRUE, !.code = 0] IN
              /\ s \in Row /\ s.verified /\ s.code = 0
              /\ s.password = r.password /\ s.balance = r.balance
<1>1. ASSUME NEW p \in Password
      PROVE  LET s == [r EXCEPT !.password = p] IN
              /\ s \in Row /\ s.password = p /\ s.code = r.code
              /\ s.verified = r.verified /\ s.balance = r.balance
  BY DEF Row
<1>2. ASSUME NEW n \in Nat
      PROVE  LET s == [r EXCEPT !.code = n] IN
              /\ s \in Row /\ s.code = n /\ s.password = r.password
              /\ s.verified = r.verified /\ s.balance = r.balance
  BY DEF Row
<1>3. ASSUME NEW n \in Nat
      PROVE  LET s == [r EXCEPT !.balance = n] IN
              /\ s \in Row /\ s.balance = n /\ s.password = r.password
              /\ s.verified = r.verified /\ s.code = r.code
  BY DEF Row
<1>4. LET s == [r EXCEPT !.verified = TRUE, !.code = 0] IN
        /\ s \in Row /\ s.verified /\ s.code = 0
        /\ s.password = r.password /\ s.balance = r.balance
  BY DEF Row
<1> QED BY <1>1, <1>2, <1>3, <1>4

-----------------------------------------------------------------------------
(* The types of a user's row and of the calls                              *)

\* The part of the type that is not about the place of a call.
DataOK ==
  /\ acct \in Row /\ tokens \subseteq signed /\ signed \subseteq Tokens
  /\ copy \in [Calls -> Row] /\ dirty \in [Calls -> SUBSET Columns]
  /\ given \in [Calls -> Tokens \cup 0 .. MaxCodes]
  /\ code \in 1 .. MaxCodes /\ lastMail \in 1 .. MaxCodes
  /\ resets \in [Tokens -> Nat] /\ shared \subseteq Tokens
  /\ behind \subseteq Calls /\ recorded \in Nat

LEMMA RowFacts ==
  ASSUME AccountTypeOK
  PROVE  /\ acct \in Row /\ NoRow \in Row
         /\ acct.password \in Password /\ acct.code \in Nat /\ acct.balance \in Nat
         /\ \A c \in Calls : /\ copy[c] \in Row /\ copy[c].password \in Password
                             /\ copy[c].code \in Nat /\ copy[c].balance \in Nat
<1>1. NoRow \in Row
  BY DEF NoRow, Row, Password
<1>2. acct \in Row /\ \A c \in Calls : copy[c] \in Row
  BY DEF AccountTypeOK
<1>3. \A r \in Row : r.password \in Password /\ r.code \in Nat /\ r.balance \in Nat
  BY DEF Row
<1> QED BY <1>1, <1>2, <1>3

LEMMA InitAccTypes == AccountInit => AccTypes
<1> SUFFICES ASSUME AccountInit PROVE AccTypes
  OBVIOUS
<1>1. AccountTypeOK
  <2>1. acct \in Row /\ NoRow \in Row
    BY DEF AccountInit, Row, Password, NoRow
  <2>2. code \in 1 .. MaxCodes /\ lastMail \in 1 .. MaxCodes /\ 0 \in 0 .. MaxCodes
    BY CodesFact DEF AccountInit
  <2>3. copy \in [Calls -> Row] /\ pc \in [Calls -> PCs]
    BY <2>1 DEF AccountInit, PCs, Over
  <2>4. given \in [Calls -> Tokens \cup 0 .. MaxCodes]
    BY <2>2 DEF AccountInit
  <2> QED BY <2>1, <2>2, <2>3, <2>4 DEF AccountInit, AccountTypeOK
<1>2. KindsOK
  BY DEF AccountInit, KindsOK, InFlight, Over
<1> QED BY <1>1, <1>2 DEF AccTypes

LEMMA BeginsData ==
  ASSUME AccTypes, NEW c \in Calls,
         \/ Verify(c) \/ Resend(c) \/ RequestReset(c) \/ CheckToken(c)
         \/ FindForReset(c) \/ Adjust(c) \/ OtherWriter(c)
  PROVE  DataOK'
<1> USE DEF DataOK, past
<1>1. DataOK /\ AccountTypeOK
  BY DEF AccTypes, AccountTypeOK
<1>2. CASE Verify(c)
  <2>1. [acct EXCEPT !.verified = TRUE, !.code = 0] \in Row
    BY <1>1, CopyFacts
  <2> HIDE DEF Row
  <2>2. copy' \in [Calls -> Row]
    BY <1>1, <1>2, <2>1 DEF Verify
  <2>3. given' \in [Calls -> Tokens \cup 0 .. MaxCodes]
    BY <1>1, <1>2, CodesFact DEF Verify
  <2> QED BY <1>1, <1>2, <2>2, <2>3 DEF Verify
<1>3. CASE Resend(c)
  <2>1. code + 1 \in Nat
    BY <1>1
  <2>2. WithCode(code + 1) \in Row
    BY <1>1, <2>1, CopyFacts DEF WithCode
  <2>3. copy' \in [Calls -> Row]
    BY <1>1, <1>3, <2>2 DEF Resend
  <2>4. given' \in [Calls -> Tokens \cup 0 .. MaxCodes] /\ code' \in 1 .. MaxCodes
    BY <1>1, <1>3, CodesFact DEF Resend
  <2> QED BY <1>1, <1>3, <2>3, <2>4 DEF Resend
<1>4. CASE RequestReset(c)
  BY <1>1, <1>4 DEF RequestReset
<1>5. CASE CheckToken(c)
  <2>1. PICK t \in signed :
          /\ given' = [given EXCEPT ![c] = t]
          /\ shared' = IF \E d \in Calls : /\ HasToken(d, t)
                                           /\ InFlight(d) \/ pc[d] = "lost"
                       THEN shared \cup {t} ELSE shared
    BY <1>5 DEF CheckToken
  <2>2. given' \in [Calls -> Tokens \cup 0 .. MaxCodes] /\ shared' \subseteq Tokens
    BY <1>1, <2>1
  <2> QED BY <1>1, <1>5, <2>2 DEF CheckToken
<1>6. CASE FindForReset(c)
  <2>1. [of |-> c.id, times |-> 0] \in Password
    BY CallFacts DEF Password
  <2>2. [acct EXCEPT !.password = [of |-> c.id, times |-> 0]] \in Row
    BY <1>1, <2>1, CopyFacts
  <2>3. copy' \in [Calls -> Row]
    BY <1>1, <1>6, <2>2 DEF FindForReset
  <2> QED BY <1>1, <1>6, <2>3 DEF FindForReset
<1>7. CASE Adjust(c)
  <2>1. NewBalance(c) \in Nat
    BY <1>1, RowFacts, CallFacts DEF NewBalance
  <2>2. [acct EXCEPT !.balance = NewBalance(c)] \in Row
    BY <1>1, <2>1, CopyFacts
  <2>3. copy' \in [Calls -> Row] /\ dirty' \in [Calls -> SUBSET Columns]
    BY <1>1, <1>7, <2>2 DEF Adjust, Columns
  <2> QED BY <1>1, <1>7, <2>3 DEF Adjust
<1>8. CASE OtherWriter(c)
  BY <1>1, <1>8 DEF OtherWriter
<1> QED BY <1>2, <1>3, <1>4, <1>5, <1>6, <1>7, <1>8

LEMMA GoesOnData ==
  ASSUME AccTypes, NEW c \in Calls,
         \/ Reload(c) \/ Update(c) \/ MailCode(c) \/ DeleteToken(c) \/ Record(c)
         \/ Break(c)
  PROVE  DataOK'
<1> USE DEF DataOK, past
<1>1. DataOK /\ AccountTypeOK
  BY DEF AccTypes, AccountTypeOK
<1>2. CASE Reload(c)
  <2> DEFINE h == [copy[c] EXCEPT !.password = Hashed(@)]
  <2>1. h \in Row
    BY <1>1, RowFacts, HashedFacts, CopyFacts
  <2>2. Differs(h) \subseteq Columns
    BY DEF Differs
  <2>3. \/ UNCHANGED copy /\ dirty' = [dirty EXCEPT ![c] = {}]
        \/ /\ copy' = [copy EXCEPT ![c] = h]
           /\ dirty' = [dirty EXCEPT ![c] = Differs(h)]
    BY <1>2 DEF Reload
  <2> HIDE DEF h
  <2>4. copy' \in [Calls -> Row] /\ dirty' \in [Calls -> SUBSET Columns]
    BY <1>1, <2>1, <2>2, <2>3
  <2> QED BY <1>1, <1>2, <2>4 DEF Reload
<1>3. CASE Update(c)
  <2>1. acct' = Saved(c) /\ copy[c] \in Row /\ acct \in Row
    BY <1>1, <1>3 DEF Update
  <2> HIDE DEF DataOK
  <2>6. acct' \in Row
    BY <2>1, SavedFacts
  <2> USE DEF DataOK
  <2>2. copy' \in [Calls -> Row] /\ dirty' \in [Calls -> SUBSET Columns]
    BY <1>1, <1>3, RowFacts DEF Update
  <2>3. c.kind = "reset" => given[c] \in Tokens
    BY <1>1, <1>3 DEF Update, AccTypes, KindsOK
  <2>4. resets' \in [Tokens -> Nat]
    BY <1>1, <1>3, <2>3 DEF Update
  <2>5. behind' \subseteq Calls
    BY <1>1, <1>3 DEF Update
  <2> QED BY <1>1, <1>3, <2>6, <2>2, <2>4, <2>5 DEF Update
<1>4. CASE MailCode(c)
  <2>1. given[c] \in 1 .. MaxCodes
    BY <1>4 DEF MailCode, AccTypes, KindsOK, InFlight, Over
  <2> QED BY <1>1, <1>4, <2>1 DEF MailCode
<1>5. CASE DeleteToken(c)
  BY <1>1, <1>5 DEF DeleteToken, Without
<1>6. CASE Record(c)
  BY <1>1, <1>6, CallFacts DEF Record
<1>7. CASE Break(c)
  BY <1>1, <1>7, RowFacts DEF Break
<1> QED BY <1>2, <1>3, <1>4, <1>5, <1>6, <1>7

LEMMA KindsStep ==
  ASSUME AccTypes, NEW c \in Calls, AccountStep(c)
  PROVE  KindsOK'
<1> USE DEF AccTypes
<1>1. AccountTypeOK /\ KindsOK /\ signed \subseteq signed'
  BY DEF AccountTypeOK, AccountStep, Verify, Resend, RequestReset, CheckToken,
         FindForReset, Adjust, OtherWriter, Reload, Update, MailCode, DeleteToken,
         Record, Break
<1>2. \A d \in Calls \ {c} : pc'[d] = pc[d] /\ given'[d] = given[d]
  BY OthersStay
<1>3. ASSUME \/ pc'[c] \in {"refused", "done", "failed", "lost"}
             \/ pc'[c] = "find" /\ c.kind = "reset"
             \/ pc'[c] = "reload" /\ c.kind \in {"verify", "resend", "reset", "other"}
             \/ pc'[c] = "update" \/ pc'[c] = AfterUpdate(c),
             c.kind = "resend" /\ InFlight(c)' => given'[c] \in 1 .. MaxCodes,
             c.kind = "reset" => given'[c] \in signed'
      PROVE  KindsOK'
  BY <1>1, <1>2, <1>3, CallFacts DEF KindsOK, InFlight, Over, AfterUpdate, Kinds
<1>4. CASE given' = given /\ signed' = signed /\ InFlight(c)
  <2>1. /\ c.kind = "resend" /\ InFlight(c)' => given'[c] \in 1 .. MaxCodes
        /\ c.kind = "reset" => given'[c] \in signed'
    BY <1>1, <1>4 DEF KindsOK, InFlight, Over
  <2>2. \/ pc'[c] \in {"refused", "done", "failed", "lost"}
        \/ pc'[c] = "reload" /\ c.kind \in {"verify", "resend", "reset", "other"}
        \/ pc'[c] = "update" \/ pc'[c] = AfterUpdate(c)
    <3>1. CASE Verify(c) \/ Resend(c) \/ RequestReset(c) \/ CheckToken(c) \/ Adjust(c)
               \/ OtherWriter(c)
      BY <1>4, <3>1 DEF Verify, Resend, RequestReset, CheckToken, Adjust, OtherWriter,
                        Begin, InFlight, Over
    <3>2. CASE FindForReset(c)
      BY <1>1, <3>2, PlaceAfter DEF Placed, FindForReset, KindsOK
    <3>3. CASE Reload(c) \/ Update(c) \/ MailCode(c) \/ DeleteToken(c) \/ Record(c)
               \/ Break(c)
      BY <1>1, <3>3, PlaceAfter DEF Placed
    <3> QED BY <3>1, <3>2, <3>3 DEF AccountStep
  <2> QED BY <1>3, <2>1, <2>2
<1>5. CASE Verify(c) \/ RequestReset(c) \/ Adjust(c) \/ OtherWriter(c)
  BY <1>1, <1>3, <1>5, PlaceAfter DEF Placed, Verify, RequestReset, Adjust, OtherWriter
<1>6. CASE Resend(c)
  <2>1. c.kind = "resend" /\ pc'[c] \in {"refused", "reload"}
    BY <1>1, <1>6, PlaceAfter DEF Placed, Resend
  <2>2. pc'[c] = "reload" => given'[c] \in 1 .. MaxCodes
    <3>1. CASE acct.verified
      BY <1>1, <1>6, <3>1 DEF Resend, Begin, AccountTypeOK
    <3>2. CASE ~acct.verified
      <4>1. given' = [given EXCEPT ![c] = code + 1] /\ code < MaxCodes
        BY <1>6, <3>2 DEF Resend
      <4> QED BY <1>1, <4>1, CodesFact DEF AccountTypeOK
    <3> QED BY <3>1, <3>2
  <2> QED BY <1>3, <2>1, <2>2 DEF InFlight, Over
<1>7. CASE CheckToken(c)
  <2>1. c.kind = "reset" /\ pc'[c] \in {"refused", "find"} /\ given'[c] \in signed'
    BY <1>1, <1>7, PlaceAfter DEF Placed, CheckToken, AccountTypeOK
  <2> QED BY <1>3, <2>1
<1>8. CASE FindForReset(c) \/ Reload(c) \/ Update(c) \/ MailCode(c) \/ DeleteToken(c)
           \/ Record(c) \/ Break(c)
  BY <1>4, <1>8 DEF FindForReset, Reload, Update, MailCode, DeleteToken, Record, Break,
                    InFlight, Over, past
<1> QED BY <1>5, <1>6, <1>7, <1>8 DEF AccountStep

LEMMA TypesStep == AccTypes /\ [AccountNext]_accountVars => AccTypes'
<1> SUFFICES ASSUME AccTypes, [AccountNext]_accountVars PROVE AccTypes'
  OBVIOUS
<1>1. CASE UNCHANGED accountVars
  BY <1>1 DEF accountVars, AccTypes, AccountTypeOK, KindsOK, InFlight
<1>2. ASSUME NEW t \in Tokens, ExpireToken(t) PROVE AccTypes'
  BY <1>2 DEF ExpireToken, AccTypes, AccountTypeOK, KindsOK, InFlight, past
<1>3. ASSUME NEW c \in Calls, AccountStep(c) PROVE AccTypes'
  <2>1. DataOK'
    BY <1>3, BeginsData, GoesOnData DEF AccountStep
  <2>2. pc' \in [Calls -> PCs] /\ overlapped' \in BOOLEAN
    BY <1>3, PlaceAfter DEF AccountStep, Placed, AccTypes
  <2> QED BY <1>3, <2>1, <2>2, KindsStep DEF AccTypes, AccountTypeOK, DataOK
<1> QED BY <1>1, <1>2, <1>3 DEF AccountNext

-----------------------------------------------------------------------------
(* Passwords                                                               *)

\* A password is hashed when it is stored, and at most once before.
HashesOK ==
  /\ acct.password.times = 1
  /\ \A c \in Calls :
       /\ pc[c] = "reload" => copy[c].password.times \in {0, 1}
       /\ pc[c] = "update" /\ "password" \in dirty[c] => copy[c].password.times = 1

\* A call other than a reset holds the password as it is stored, or is behind.
OthersAgree ==
  \A c \in Calls :
    Holds(c) /\ c.kind # "reset" /\ c \notin behind
      => copy[c].password = acct.password

PasswordInv == AccTypes /\ HashesOK /\ OthersAgree

\* What a call copies when it starts to hold the row.
LEMMA StartsToHold ==
  ASSUME AccTypes, NEW c \in Calls, AccountStep(c), ~Holds(c), Holds(c)'
  PROVE  /\ acct' = acct /\ behind' = behind
         /\ \/ copy'[c].password = acct.password
            \/ c.kind = "reset" /\ copy'[c].password.times = 0 /\ pc'[c] = "reload"
         /\ pc'[c] = "update" => c.kind = "adjust" /\ dirty'[c] = {"balance"}
<1> USE DEF AccTypes
<1>1. AccountTypeOK /\ acct \in Row
  BY DEF AccountTypeOK
<1>2. CASE Verify(c)
  <2>1. copy'[c] = [acct EXCEPT !.verified = TRUE, !.code = 0]
    BY <1>1, <1>2, PlaceAfter DEF Verify, Begin, Holds, AccountTypeOK
  <2>2. copy'[c].password = acct.password
    BY <1>1, <2>1 DEF Row
  <2> QED BY <1>1, <1>2, <2>2, PlaceAfter DEF Verify, past, Placed
<1>3. CASE Resend(c)
  <2>1. ~acct.verified
    BY <1>1, <1>3 DEF Resend, Begin, Holds, AccountTypeOK
  <2>2. copy'[c] = [acct EXCEPT !.code = code + 1] /\ code + 1 \in Nat
    BY <1>1, <1>3, <2>1 DEF Resend, AccountTypeOK, WithCode
  <2>3. copy'[c].password = acct.password
    BY <1>1, <2>2 DEF Row
  <2> QED BY <1>1, <1>3, <2>3, PlaceAfter DEF Resend, past, Placed
<1>4. CASE FindForReset(c)
  <2>1. [of |-> c.id, times |-> 0] \in Password
    BY CallFacts DEF Password
  <2>2. copy'[c] = [acct EXCEPT !.password = [of |-> c.id, times |-> 0]]
    BY <1>1, <1>4 DEF FindForReset, AccountTypeOK
  <2>3. copy'[c].password = [of |-> c.id, times |-> 0]
    BY <1>1, <2>2 DEF Row
  <2>4. copy'[c].password.times = 0
    BY <2>3
  <2>5. c.kind = "reset" /\ pc'[c] = "reload"
    BY <1>1, <1>4, PlaceAfter DEF FindForReset, KindsOK, Placed
  <2> QED BY <1>4, <2>4, <2>5 DEF FindForReset, past
<1>5. CASE Adjust(c)
  <2>1. NewBalance(c) \in Nat
    BY <1>1, RowFacts, CallFacts DEF NewBalance
  <2>2. copy'[c] = [acct EXCEPT !.balance = NewBalance(c)]
        /\ dirty'[c] = {"balance"}
    BY <1>1, <1>5 DEF Adjust, AccountTypeOK
  <2>3. copy'[c].password = acct.password
    BY <1>1, <2>2 DEF Row
  <2> QED BY <1>1, <1>5, <2>2, <2>3 DEF Adjust, past
<1>6. CASE OtherWriter(c)
  BY <1>1, <1>6, PlaceAfter DEF OtherWriter, past, Placed, AccountTypeOK
<1>7. ~RequestReset(c) /\ ~CheckToken(c) /\ ~MailCode(c) /\ ~DeleteToken(c)
      /\ ~Record(c) /\ ~Break(c)
  BY <1>1, PlaceAfter DEF Placed, Holds
<1>8. ~Reload(c) /\ ~Update(c)
  BY DEF Reload, Update, Holds
<1> QED BY <1>2, <1>3, <1>4, <1>5, <1>6, <1>7, <1>8 DEF AccountStep

\* What a call updates: its copy, the password hashed, and the columns that differ.
LEMMA ReloadFacts ==
  ASSUME AccTypes, NEW c \in Calls, Reload(c)
  PROVE  /\ copy'[c].verified = copy[c].verified /\ copy'[c].code = copy[c].code
         /\ copy'[c].balance = copy[c].balance
         /\ \/ copy'[c].password = Hashed(copy[c].password)
            \/ copy'[c].password = acct.password /\ "password" \notin dirty'[c]
                /\ copy'[c].password = copy[c].password
         /\ "verified" \notin dirty'[c] => copy'[c].verified = acct.verified
         /\ "code" \notin dirty'[c] => copy'[c].code = acct.code
         /\ "balance" \notin dirty'[c] => copy'[c].balance = acct.balance
<1>1. AccountTypeOK /\ acct \in Row /\ copy[c] \in Row
      /\ copy \in [Calls -> Row] /\ dirty \in [Calls -> SUBSET Columns]
  BY DEF AccountTypeOK, AccTypes
<1>2. CASE Differs(copy[c]) = {}
  <2>1. UNCHANGED copy /\ dirty'[c] = {}
    BY <1>1, <1>2 DEF Reload
  <2>2. /\ copy[c].verified = acct.verified /\ copy[c].code = acct.code
        /\ copy[c].password = acct.password /\ copy[c].balance = acct.balance
    BY <1>1, <1>2, DiffersFacts
  <2> QED BY <2>1, <2>2
<1>3. CASE Differs(copy[c]) # {}
  <2>1. PICK h \in Row : h = [copy[c] EXCEPT !.password = Hashed(copy[c].password)]
    BY <1>1, RowFacts, HashedFacts, CopyFacts
  <2>2. /\ h.password = Hashed(copy[c].password) /\ h.code = copy[c].code
        /\ h.verified = copy[c].verified /\ h.balance = copy[c].balance
    BY <1>1, <2>1 DEF Row
  <2>3. copy'[c] = h /\ dirty'[c] = Differs(h)
    BY <1>1, <1>3, <2>1 DEF Reload
  <2> QED BY <1>1, <2>2, <2>3, DiffersFacts
<1> QED BY <1>2, <1>3

\* What the row is after an update.
LEMMA UpdateFacts ==
  ASSUME AccTypes, NEW c \in Calls, Update(c)
  PROVE  /\ acct'.verified = IF "verified" \in dirty[c] THEN copy[c].verified
                             ELSE acct.verified
         /\ acct'.code = IF "code" \in dirty[c] THEN copy[c].code ELSE acct.code
         /\ acct'.password = IF "password" \in dirty[c] THEN copy[c].password
                             ELSE acct.password
         /\ acct'.balance = IF "balance" \in dirty[c] THEN copy[c].balance
                            ELSE acct.balance
<1>1. acct' = Saved(c) /\ copy[c] \in Row /\ acct \in Row
  BY DEF Update, AccTypes, AccountTypeOK
<1> QED BY <1>1, SavedFacts

LEMMA InitPasswords == AccountInit => PasswordInv
<1> SUFFICES ASSUME AccountInit PROVE PasswordInv
  OBVIOUS
<1>1. AccTypes
  BY InitAccTypes
<1>2. acct.password.times = 1 /\ \A c \in Calls : pc[c] = "new"
  BY DEF AccountInit
<1> QED BY <1>1, <1>2 DEF PasswordInv, HashesOK, OthersAgree, Holds

\* What a step of a call makes of the passwords it and others hold.
LEMMA PasswordStep ==
  ASSUME PasswordInv, NEW c \in Calls, AccountStep(c), AccTypes'
  PROVE  HashesOK' /\ OthersAgree'
<1> USE DEF PasswordInv
<1>1. AccTypes /\ AccountTypeOK /\ acct.password \in Password
      /\ copy[c].password \in Password
  BY RowFacts DEF AccTypes
<1>2. \A d \in Calls \ {c} : pc'[d] = pc[d] /\ copy'[d] = copy[d] /\ dirty'[d] = dirty[d]
  BY <1>1, OthersStay
<1>3. CASE Reload(c)
  <2>1. acct' = acct /\ behind' = behind /\ pc[c] = "reload" /\ pc'[c] = "update"
    BY <1>1, <1>3, PlaceAfter DEF Reload, past, Placed
  <2>2. "password" \in dirty'[c] => copy'[c].password.times = 1
    BY <1>1, <1>3, <2>1, ReloadFacts, HashedFacts DEF HashesOK
  <2>3. HashesOK'
    BY <1>2, <2>1, <2>2 DEF HashesOK
  <2>4. acct.password.times = 1 => Hashed(acct.password) = acct.password
    BY <1>1, HashedFacts
  <2>5. copy[c].password = acct.password => copy'[c].password = acct.password
    BY <1>1, <1>3, <2>4, ReloadFacts DEF HashesOK
  <2>6. OthersAgree'
    BY <1>2, <2>1, <2>5 DEF OthersAgree, Holds
  <2> QED BY <2>3, <2>6
<1>4. CASE Update(c)
  <2>1. pc[c] = "update" /\ pc'[c] \notin {"reload", "update"}
    BY <1>1, <1>4, PlaceAfter DEF Update, Placed, AfterUpdate
  <2>2. \/ acct'.password = acct.password
        \/ acct'.password = copy[c].password /\ "password" \in dirty[c]
    <3>1. acct'.password = IF "password" \in dirty[c] THEN copy[c].password
                           ELSE acct.password
      BY <1>1, <1>4, UpdateFacts
    <3> QED BY Zenon, <3>1
  <2>3. acct'.password.times = 1
    BY <2>1, <2>2 DEF HashesOK
  <2>4. HashesOK'
    BY <1>2, <2>1, <2>3 DEF HashesOK
  <2>5. ASSUME NEW d \in Calls, Holds(d)', d.kind # "reset", d \notin behind'
        PROVE  copy'[d].password = acct'.password
    <3>1. d # c /\ Holds(d) /\ copy'[d] = copy[d]
      BY <1>2, <2>1, <2>5 DEF Holds
    <3>2. acct'.password = acct.password /\ d \notin behind
      BY <1>4, <2>5, <3>1 DEF Update
    <3> QED BY <2>5, <3>1, <3>2 DEF OthersAgree
  <2> QED BY <2>4, <2>5 DEF OthersAgree
<1>5. CASE Break(c)
  <2>1. acct' = acct /\ behind' = behind \ {c}
        /\ pc'[c] \notin {"reload", "update"}
    BY <1>1, <1>5, PlaceAfter DEF Break, Placed
  <2> QED BY <1>2, <2>1 DEF HashesOK, OthersAgree, Holds
<1>6. CASE ~Reload(c) /\ ~Update(c) /\ ~Break(c)
  <2>1. acct' = acct /\ behind' = behind
    BY <1>6 DEF AccountStep, Verify, Resend, RequestReset, CheckToken, FindForReset,
                Adjust, OtherWriter, MailCode, DeleteToken, Record, past
  <2>2. ~Holds(c)
    BY <1>6 DEF AccountStep, Verify, Resend, RequestReset, CheckToken, FindForReset,
                Adjust, OtherWriter, MailCode, DeleteToken, Record, Begin, Holds
  <2>3. Holds(c)' =>
          /\ \/ copy'[c].password = acct.password
             \/ c.kind = "reset" /\ copy'[c].password.times = 0 /\ pc'[c] = "reload"
          /\ pc'[c] = "update" => dirty'[c] = {"balance"}
    BY <1>1, <2>2, StartsToHold
  <2>4. HashesOK'
    BY <1>2, <2>1, <2>3 DEF HashesOK, Holds
  <2>5. OthersAgree'
    BY <1>2, <2>1, <2>3 DEF OthersAgree, Holds
  <2> QED BY <2>4, <2>5
<1> QED BY <1>3, <1>4, <1>5, <1>6

LEMMA PasswordsKept == PasswordInv /\ [AccountNext]_accountVars => PasswordInv'
<1> SUFFICES ASSUME PasswordInv, [AccountNext]_accountVars PROVE PasswordInv'
  OBVIOUS
<1>1. AccTypes'
  BY TypesStep DEF PasswordInv
<1>2. CASE UNCHANGED accountVars
  BY <1>1, <1>2 DEF accountVars, PasswordInv, HashesOK, OthersAgree, Holds
<1>3. ASSUME NEW t \in Tokens, ExpireToken(t) PROVE PasswordInv'
  BY <1>1, <1>3 DEF ExpireToken, past, PasswordInv, HashesOK, OthersAgree, Holds
<1>4. ASSUME NEW c \in Calls, AccountStep(c) PROVE PasswordInv'
  BY <1>1, <1>4, PasswordStep DEF PasswordInv
<1> QED BY <1>2, <1>3, <1>4 DEF AccountNext

\* A password changes by a reset or by a save that is behind.
LEMMA UndoneStep ==
  ASSUME PasswordInv, [AccountNext]_accountVars, acct'.password # acct.password
  PROVE  \E c \in Calls : /\ pc[c] = "update" /\ pc'[c] # "update"
                          /\ c.kind = "reset" \/ c \in behind
<1>1. acct' # acct
  OBVIOUS
<1>2. PICK c \in Calls : AccountStep(c)
  BY <1>1 DEF AccountNext, ExpireToken, accountVars
<1>3. Update(c)
  BY <1>1, <1>2 DEF AccountStep, Verify, Resend, RequestReset, CheckToken, FindForReset,
                    Adjust, OtherWriter, Reload, MailCode, DeleteToken, Record, Break
<1>4. pc[c] = "update" /\ pc'[c] # "update"
  BY <1>3, PlaceAfter DEF Update, Placed, AfterUpdate, PasswordInv, AccTypes
<1>5. copy[c].password # acct.password
  BY <1>3, UpdateFacts DEF PasswordInv
<1> QED BY <1>4, <1>5 DEF PasswordInv, OthersAgree, Holds

-----------------------------------------------------------------------------
(* Reset tokens                                                            *)

Active(c) == InFlight(c) \/ pc[c] = "lost"
Uses(c, t) == HasToken(c, t) /\ Active(c)
MayReset(c) == pc[c] \in {"find", "reload", "update"}

\* What holds of a token that no two calls came with at once: one call has it at
\* a time, it has not been used before that call used it, and if it was used and
\* is still there, the call that used it has it.
TokenOK(t) ==
  /\ resets[t] <= 1
  /\ \A c, d \in Calls : Uses(c, t) /\ Uses(d, t) => c = d
  /\ \A c \in Calls : HasToken(c, t) /\ MayReset(c) => resets[t] = 0
  /\ t \in tokens /\ resets[t] # 0 =>
       \E c \in Calls : HasToken(c, t) /\ pc[c] \in {"delete", "lost"}

TokenInv ==
  /\ AccTypes
  /\ \A t \in Tokens : /\ t \notin signed => resets[t] = 0
                       /\ t \notin shared => TokenOK(t)

LEMMA InitTokens == AccountInit => TokenInv
<1> SUFFICES ASSUME AccountInit PROVE TokenInv
  OBVIOUS
<1>1. AccTypes
  BY InitAccTypes
<1>2. \A t \in Tokens : resets[t] = 0
  BY DEF AccountInit
<1>3. \A c \in Calls : ~Active(c) /\ ~MayReset(c)
  BY DEF AccountInit, Active, InFlight, MayReset, Over
<1> QED BY <1>1, <1>2, <1>3 DEF TokenInv, TokenOK, Uses

\* A step of a call that no token comes with or leaves with.
LEMMA TokenStays ==
  ASSUME TokenInv, NEW c \in Calls, NEW t \in Tokens, AccountStep(c),
         tokens' \subseteq tokens, resets' = resets, shared' = shared,
         given' = given \/ (~HasToken(c, t) /\ ~HasToken(c, t)'),
         HasToken(c, t) /\ Active(c)' => Active(c),
         HasToken(c, t) /\ MayReset(c)' => MayReset(c),
         HasToken(c, t) /\ pc[c] \in {"delete", "lost"} =>
           pc'[c] \in {"delete", "lost"} \/ t \notin tokens',
         t \notin shared
  PROVE  TokenOK(t)'
<1> USE DEF TokenInv, AccTypes
<1>1. \A d \in Calls \ {c} : pc'[d] = pc[d] /\ given'[d] = given[d]
  BY OthersStay
<1>2. \A d \in Calls : HasToken(d, t)' <=> HasToken(d, t)
  BY <1>1 DEF HasToken
<1>3. \A d \in Calls : HasToken(d, t) /\ Active(d)' => Active(d)
  BY <1>1 DEF Active, InFlight
<1>4. \A d \in Calls : HasToken(d, t) /\ MayReset(d)' => MayReset(d)
  BY <1>1 DEF MayReset
<1>5. \A d \in Calls : HasToken(d, t) /\ pc[d] \in {"delete", "lost"} =>
        pc'[d] \in {"delete", "lost"} \/ t \notin tokens'
  BY <1>1
<1>6. TokenOK(t)
  OBVIOUS
<1>7. \A d, e \in Calls : Uses(d, t)' /\ Uses(e, t)' => d = e
  BY <1>2, <1>3, <1>6 DEF TokenOK, Uses
<1>8. \A d \in Calls : HasToken(d, t)' /\ MayReset(d)' => resets'[t] = 0
  BY <1>2, <1>4, <1>6 DEF TokenOK
<1>9. t \in tokens' /\ resets'[t] # 0 =>
        \E d \in Calls : HasToken(d, t)' /\ pc'[d] \in {"delete", "lost"}
  BY <1>2, <1>5, <1>6 DEF TokenOK
<1> QED BY <1>6, <1>7, <1>8, <1>9 DEF TokenOK

\* A reset comes with a token.
LEMMA TokenComes ==
  ASSUME TokenInv, NEW c \in Calls, CheckToken(c), NEW t \in Tokens, t \notin shared'
  PROVE  TokenOK(t)'
<1> USE DEF TokenInv, AccTypes
<1>1. \A d \in Calls \ {c} : pc'[d] = pc[d] /\ given'[d] = given[d]
  BY OthersStay DEF AccountStep
<1>2. PICK u \in signed :
        /\ given' = [given EXCEPT ![c] = u]
        /\ Begin(c, IF u \in tokens THEN "find" ELSE "refused")
        /\ shared' = IF \E d \in Calls : /\ HasToken(d, u)
                                         /\ InFlight(d) \/ pc[d] = "lost"
                     THEN shared \cup {u} ELSE shared
  BY DEF CheckToken
<1>3. /\ given'[c] = u /\ pc[c] = "new" /\ t \notin shared
      /\ pc'[c] = IF u \in tokens THEN "find" ELSE "refused"
      /\ tokens' = tokens /\ resets' = resets
  BY <1>2 DEF AccountTypeOK, Begin, CheckToken
<1>4. TokenOK(t)
  BY <1>3
<1>5. \A d \in Calls \ {c} : /\ HasToken(d, t)' <=> HasToken(d, t)
                             /\ Active(d)' <=> Active(d)
                             /\ MayReset(d)' <=> MayReset(d)
  BY <1>1 DEF HasToken, Active, InFlight, MayReset
<1>6. ~Active(c) /\ ~MayReset(c)
  BY <1>3 DEF Active, InFlight, MayReset, Over
<1>7. CASE t # u
  <2>1. ~HasToken(c, t)'
    BY <1>3, <1>7 DEF HasToken
  <2>2. \A d, e \in Calls : Uses(d, t)' /\ Uses(e, t)' => d = e
    BY <1>4, <1>5, <2>1 DEF TokenOK, Uses
  <2>3. \A d \in Calls : HasToken(d, t)' /\ MayReset(d)' => resets'[t] = 0
    BY <1>3, <1>4, <1>5, <2>1 DEF TokenOK
  <2>4. t \in tokens' /\ resets'[t] # 0 =>
          \E d \in Calls : HasToken(d, t)' /\ pc'[d] \in {"delete", "lost"}
    BY <1>1, <1>3, <1>4, <1>5 DEF TokenOK
  <2> QED BY <1>3, <1>4, <2>2, <2>3, <2>4 DEF TokenOK
<1>8. CASE t = u
  <2>1. \A d \in Calls : ~(HasToken(d, t) /\ Active(d))
    BY <1>2, <1>3, <1>8 DEF Active
  <2>2. ~\E d \in Calls : HasToken(d, t) /\ pc[d] \in {"delete", "lost"}
    BY <2>1 DEF Active, InFlight, Over
  <2>3. t \in tokens => resets[t] = 0
    BY <1>4, <2>2 DEF TokenOK
  <2>4. \A d, e \in Calls : Uses(d, t)' /\ Uses(e, t)' => d = e
    BY <1>5, <2>1 DEF Uses
  <2>5. MayReset(c)' => resets[t] = 0
    BY <1>3, <1>8, <2>3 DEF MayReset
  <2>6. \A d \in Calls : HasToken(d, t)' /\ MayReset(d)' => resets'[t] = 0
    BY <1>3, <1>4, <1>5, <2>5 DEF TokenOK
  <2> QED BY <1>3, <1>4, <2>3, <2>4, <2>6 DEF TokenOK
<1> QED BY <1>7, <1>8

\* A reset saves the password.
LEMMA TokenUsed ==
  ASSUME TokenInv, NEW c \in Calls, Update(c), NEW t \in Tokens, t \notin shared
  PROVE  TokenOK(t)'
<1> USE DEF TokenInv, AccTypes
<1>1. \A d \in Calls \ {c} : pc'[d] = pc[d]
  BY OthersStay DEF AccountStep
<1>2. /\ pc[c] = "update" /\ pc'[c] = AfterUpdate(c)
      /\ given' = given /\ tokens' = tokens /\ shared' = shared
  BY DEF Update, Goto, AccountTypeOK
<1>3. pc'[c] \in {"mail", "delete", "record", "done"}
  BY <1>2 DEF AfterUpdate
<1>4. TokenOK(t) /\ MayReset(c) /\ Active(c) /\ ~MayReset(c)'
  BY <1>2, <1>3 DEF MayReset, Active, InFlight, Over
<1>5. \A d \in Calls : /\ HasToken(d, t)' <=> HasToken(d, t)
                       /\ Active(d)' => Active(d)
                       /\ MayReset(d)' => MayReset(d) /\ d # c
  BY <1>1, <1>2, <1>4 DEF HasToken, Active, InFlight, MayReset
<1>6. \A d, e \in Calls : Uses(d, t)' /\ Uses(e, t)' => d = e
  BY <1>4, <1>5 DEF TokenOK, Uses
<1>7. CASE HasToken(c, t)
  <2>1. resets[t] = 0 /\ pc'[c] = "delete"
    BY <1>2, <1>4, <1>7 DEF TokenOK, HasToken, AfterUpdate
  <2>2. resets' = [resets EXCEPT ![t] = @ + 1]
    BY <1>7 DEF Update, HasToken
  <2>3. resets'[t] = 1
    BY <2>1, <2>2 DEF AccountTypeOK
  <2>4. \A d \in Calls : ~(HasToken(d, t)' /\ MayReset(d)')
    BY <1>4, <1>5, <1>7 DEF TokenOK, MayReset, Active, InFlight, Over, Uses
  <2> QED BY <1>5, <1>6, <1>7, <2>1, <2>3, <2>4 DEF TokenOK
<1>8. CASE ~HasToken(c, t)
  <2>1. resets'[t] = resets[t]
    BY <1>8 DEF Update, HasToken, AccountTypeOK
  <2>2. \A d \in Calls : HasToken(d, t)' /\ MayReset(d)' => resets'[t] = 0
    BY <1>4, <1>5, <2>1 DEF TokenOK
  <2>3. t \in tokens' /\ resets'[t] # 0 =>
          \E d \in Calls : HasToken(d, t)' /\ pc'[d] \in {"delete", "lost"}
    BY <1>1, <1>2, <1>4, <1>5, <1>8, <2>1 DEF TokenOK
  <2> QED BY <1>4, <1>6, <2>1, <2>2, <2>3 DEF TokenOK
<1> QED BY <1>7, <1>8

LEMMA TokenStep ==
  ASSUME TokenInv, NEW c \in Calls, AccountStep(c), NEW t \in Tokens, t \notin shared'
  PROVE  TokenOK(t)'
<1> USE DEF TokenInv, AccTypes
<1>1. CASE CheckToken(c)
  BY <1>1, TokenComes
<1>2. CASE Update(c)
  BY <1>2, TokenUsed DEF Update
<1>3. CASE ~CheckToken(c) /\ ~Update(c)
  <2>1. resets' = resets /\ shared' = shared
    BY <1>3 DEF AccountStep, Verify, Resend, RequestReset, FindForReset, Adjust,
                OtherWriter, Reload, MailCode, DeleteToken, Record, Break, past
  <2>2. given' = given \/ (~HasToken(c, t) /\ ~HasToken(c, t)')
    <3>1. given' = given \/ Verify(c) \/ Resend(c)
      BY <1>3 DEF AccountStep, RequestReset, FindForReset, Adjust, OtherWriter, Reload,
                  MailCode, DeleteToken, Record, Break
    <3> QED BY <3>1 DEF Verify, Resend, HasToken
  <2>3. CASE RequestReset(c)
    <3>1. ~HasToken(c, t) /\ ~HasToken(c, t)' /\ given' = given
      BY <2>3 DEF RequestReset, HasToken
    <3>2. PICK u \in Tokens \ signed : tokens' = tokens \cup {u}
      BY <2>3 DEF RequestReset
    <3>3. \A d \in Calls : HasToken(d, t) => d # c
      BY <3>1
    <3>4. \A d \in Calls : HasToken(d, t)' <=> HasToken(d, t)
      BY <3>1 DEF HasToken
    <3>5. \A d \in Calls \ {c} : pc'[d] = pc[d]
      BY OthersStay
    <3>6. t \in tokens' /\ resets[t] # 0 => t \in tokens
      BY <3>2
    <3>7. TokenOK(t)
      BY <2>1
    <3>8. \A d, e \in Calls : Uses(d, t)' /\ Uses(e, t)' => d = e
      BY <3>3, <3>4, <3>5, <3>7 DEF TokenOK, Active, InFlight, Uses
    <3>9. \A d \in Calls : HasToken(d, t)' /\ MayReset(d)' => resets'[t] = 0
      BY <2>1, <3>3, <3>4, <3>5, <3>7 DEF TokenOK, MayReset
    <3>10. t \in tokens' /\ resets'[t] # 0 =>
             \E d \in Calls : HasToken(d, t)' /\ pc'[d] \in {"delete", "lost"}
      BY <2>1, <3>3, <3>4, <3>5, <3>6, <3>7 DEF TokenOK
    <3> QED BY <2>1, <3>7, <3>8, <3>9, <3>10 DEF TokenOK
  <2>4. CASE Verify(c) \/ Resend(c) \/ Adjust(c) \/ OtherWriter(c)
    <3>1. ~HasToken(c, t) /\ tokens' = tokens
      BY <2>4 DEF Verify, Resend, Adjust, OtherWriter, HasToken
    <3> QED BY <2>1, <2>2, <3>1, TokenStays
  <2>5. CASE FindForReset(c) \/ Reload(c)
    <3>1. /\ pc[c] \in {"find", "reload"} /\ pc'[c] \in {"reload", "update"}
          /\ given' = given /\ tokens' = tokens
      BY <2>5, PlaceAfter DEF FindForReset, Reload, Placed
    <3>2. Active(c) /\ MayReset(c) /\ pc[c] \notin {"delete", "lost"}
      BY <3>1 DEF Active, InFlight, MayReset, Over
    <3> QED BY <2>1, <3>1, <3>2, TokenStays
  <2>6. CASE MailCode(c) \/ DeleteToken(c) \/ Record(c)
    <3>1. /\ pc'[c] = "done" /\ pc[c] \in {"mail", "delete", "record"}
          /\ given' = given
      BY <2>6, PlaceAfter DEF MailCode, DeleteToken, Record, Placed
    <3>2. ~Active(c)' /\ ~MayReset(c)'
      BY <3>1 DEF Active, InFlight, MayReset, Over
    <3>3. tokens' \subseteq tokens
      BY <2>6 DEF MailCode, DeleteToken, Record, Without
    <3>4. HasToken(c, t) /\ pc[c] \in {"delete", "lost"} => t \notin tokens'
      BY <2>6, <3>1 DEF MailCode, DeleteToken, Record, Without, HasToken
    <3> QED BY <2>1, <3>1, <3>2, <3>3, <3>4, TokenStays
  <2>7. CASE Break(c)
    <3>1. /\ pc'[c] = IF pc[c] \in {"mail", "delete", "record"} THEN "lost"
                      ELSE "failed"
          /\ pc[c] \notin Over /\ given' = given /\ tokens' = tokens
      BY <2>7 DEF Break, Goto, InFlight, AccountTypeOK
    <3>2. Active(c) /\ ~MayReset(c)'
      BY <3>1 DEF Active, InFlight, MayReset
    <3>3. pc[c] \in {"delete", "lost"} => pc'[c] \in {"delete", "lost"}
      BY <3>1 DEF Over
    <3> QED BY <2>1, <3>1, <3>2, <3>3, TokenStays
  <2> QED BY <1>3, <2>3, <2>4, <2>5, <2>6, <2>7 DEF AccountStep
<1> QED BY <1>1, <1>2, <1>3

LEMMA TokensKept == TokenInv /\ [AccountNext]_accountVars => TokenInv'
<1> SUFFICES ASSUME TokenInv, [AccountNext]_accountVars PROVE TokenInv'
  OBVIOUS
<1>1. AccTypes'
  BY TypesStep DEF TokenInv
<1>2. CASE UNCHANGED accountVars
  <2>1. \A t \in Tokens : TokenOK(t)' <=> TokenOK(t)
    BY <1>2 DEF accountVars, TokenOK, HasToken, Active, InFlight, MayReset, Uses
  <2> QED BY <1>1, <1>2, <2>1 DEF accountVars, TokenInv
<1>3. ASSUME NEW u \in Tokens, ExpireToken(u) PROVE TokenInv'
  <2>1. \A t \in Tokens : TokenOK(t) => TokenOK(t)'
    BY <1>3 DEF ExpireToken, past, TokenOK, HasToken, Active, InFlight, MayReset,
                     Uses
  <2> QED BY <1>1, <1>3, <2>1 DEF ExpireToken, past, TokenInv
<1>4. ASSUME NEW c \in Calls, AccountStep(c) PROVE TokenInv'
  <2>1. ASSUME NEW t \in Tokens, t \notin signed' PROVE resets'[t] = 0
    <3>1. t \notin signed
      BY <2>1, <1>4 DEF AccountStep, Verify, Resend, RequestReset, CheckToken,
           FindForReset, Adjust, OtherWriter, Reload, Update, MailCode, DeleteToken,
           Record, Break
    <3>2. resets[t] = 0
      BY <3>1 DEF TokenInv
    <3>3. CASE Update(c)
      <4>1. c.kind = "reset" => given[c] \in signed
        BY <3>3 DEF Update, TokenInv, AccTypes, KindsOK
      <4> QED BY <3>1, <3>2, <3>3, <4>1 DEF Update, TokenInv, AccTypes, AccountTypeOK
    <3>4. CASE ~Update(c)
      BY <1>4, <3>2, <3>4
      DEF AccountStep, Verify, Resend, RequestReset, CheckToken, FindForReset, Adjust,
          OtherWriter, Reload, MailCode, DeleteToken, Record, Break, past
    <3> QED BY <3>3, <3>4
  <2>2. \A t \in Tokens : t \notin shared' => TokenOK(t)'
    BY <1>4, TokenStep
  <2> QED BY <1>1, <2>1, <2>2 DEF TokenInv
<1> QED BY <1>2, <1>3, <1>4 DEF AccountNext

-----------------------------------------------------------------------------
(* Calls that do not cross                                                 *)

\* At most one call is in progress, its copy differs from the row in what the
\* call is for, and what its save leaves out is as in the row.
OneCall == \A c, d \in Calls : InFlight(c) /\ InFlight(d) => c = d

CopyOK(c) ==
  /\ copy[c].verified = IF c.kind = "verify" THEN TRUE ELSE acct.verified
  /\ c.kind = "resend" => copy[c].code = given[c]
  /\ c.kind \notin {"verify", "resend"} => copy[c].code = acct.code
  /\ copy[c].balance = IF c.kind = "adjust" THEN acct.balance + c.amount
                       ELSE acct.balance

LeftOutOK(c) ==
  /\ "verified" \notin dirty[c] => copy[c].verified = acct.verified
  /\ "code" \notin dirty[c] => copy[c].code = acct.code
  /\ "balance" \notin dirty[c] => copy[c].balance = acct.balance

MailsOK ==
  \/ acct.verified
  \/ \E c \in Calls : c.kind = "resend" /\ pc[c] = "lost"
  \/ /\ \A c \in Calls : pc[c] = "mail" => acct.code = given[c]
     /\ (\A c \in Calls : pc[c] # "mail") => acct.code = lastMail

BooksOK ==
  \/ \E c \in Calls : c.kind = "adjust" /\ pc[c] = "lost"
  \/ /\ \A c \in Calls : pc[c] = "record" => acct.balance = recorded + c.amount
     /\ (\A c \in Calls : pc[c] # "record") => acct.balance = recorded

AloneOK ==
  /\ OneCall
  /\ \A c \in Calls : /\ Holds(c) => CopyOK(c)
                      /\ pc[c] = "update" => LeftOutOK(c)
  /\ MailsOK /\ BooksOK

AloneInv == AccTypes /\ (~overlapped => AloneOK)

LEMMA InitAlone == AccountInit => AloneInv
<1> SUFFICES ASSUME AccountInit PROVE AloneInv
  OBVIOUS
<1>1. AccTypes
  BY InitAccTypes
<1>2. \A c \in Calls : pc[c] = "new"
  BY DEF AccountInit
<1>3. acct.code = lastMail /\ acct.balance = recorded
  BY DEF AccountInit
<1> QED BY <1>1, <1>2, <1>3 DEF AloneInv, AloneOK, OneCall, InFlight, Over, Holds,
                                MailsOK, BooksOK

\* As long as calls do not cross, only the call that takes a step is in progress.
LEMMA OnlyOne ==
  ASSUME AloneInv, NEW c \in Calls, AccountStep(c), ~overlapped'
  PROVE  /\ ~overlapped /\ AloneOK
         /\ \A d \in Calls \ {c} : ~InFlight(d) /\ ~InFlight(d)' /\ pc'[d] = pc[d]
<1>1. AccountTypeOK
  BY DEF AloneInv, AccTypes
<1>2. \A d \in Calls \ {c} : pc'[d] = pc[d]
  BY <1>1, OthersStay
<1>3. \/ \E l \in PCs : Begin(c, l)
      \/ InFlight(c) /\ \E l \in PCs : Goto(c, l)
  <2>1. CASE Verify(c) \/ Resend(c) \/ RequestReset(c) \/ CheckToken(c) \/ Adjust(c)
             \/ OtherWriter(c)
    BY <2>1 DEF Verify, Resend, RequestReset, CheckToken, Adjust, OtherWriter, PCs, Over
  <2>2. CASE FindForReset(c) \/ Reload(c) \/ MailCode(c) \/ DeleteToken(c) \/ Record(c)
    BY <2>2 DEF FindForReset, Reload, MailCode, DeleteToken, Record, InFlight, PCs, Over
  <2>3. CASE Update(c)
    BY <2>3 DEF Update, AfterUpdate, InFlight, PCs, Over
  <2>4. CASE Break(c)
    BY <2>4 DEF Break, PCs, Over
  <2> QED BY <2>1, <2>2, <2>3, <2>4 DEF AccountStep
<1>4. ~overlapped /\ \A d \in Calls \ {c} : ~InFlight(d)
  <2>1. CASE \E l \in PCs : Begin(c, l)
    BY <2>1, <1>1 DEF Begin
  <2>2. CASE InFlight(c) /\ \E l \in PCs : Goto(c, l)
    BY <2>2, <1>1 DEF Goto, AloneInv, AloneOK, OneCall
  <2> QED BY <1>3, <2>1, <2>2
<1> QED BY <1>2, <1>4 DEF AloneInv, InFlight

\* What a call that starts to hold the row copies.
LEMMA CopiesRow ==
  ASSUME AccTypes, NEW c \in Calls, AccountStep(c), ~Holds(c), Holds(c)'
  PROVE  /\ acct' = acct /\ CopyOK(c)'
         /\ pc'[c] = "update" => LeftOutOK(c)'
<1> USE DEF AccTypes
<1>1. AccountTypeOK /\ acct \in Row
  BY DEF AccountTypeOK
<1>2. CASE Verify(c)
  <2>1. copy'[c] = [acct EXCEPT !.verified = TRUE, !.code = 0]
    BY <1>1, <1>2, PlaceAfter DEF Verify, Begin, Holds, AccountTypeOK
  <2>2. copy'[c].verified = TRUE /\ copy'[c].balance = acct.balance
    BY <1>1, <2>1 DEF Row
  <2>3. acct' = acct /\ c.kind = "verify" /\ pc'[c] # "update"
    BY <1>1, <1>2, PlaceAfter DEF Verify, Placed
  <2> QED BY <2>2, <2>3 DEF CopyOK
<1>3. CASE Resend(c)
  <2>1. ~acct.verified
    BY <1>1, <1>3 DEF Resend, Begin, Holds, AccountTypeOK
  <2>2. /\ copy'[c] = [acct EXCEPT !.code = code + 1] /\ code + 1 \in Nat
        /\ given'[c] = code + 1
    BY <1>1, <1>3, <2>1 DEF Resend, AccountTypeOK, WithCode
  <2>3. /\ copy'[c].verified = acct.verified /\ copy'[c].code = code + 1
        /\ copy'[c].balance = acct.balance
    BY <1>1, <2>2 DEF Row
  <2>4. acct' = acct /\ c.kind = "resend" /\ pc'[c] # "update"
    BY <1>1, <1>3, PlaceAfter DEF Resend, Placed
  <2> QED BY <2>2, <2>3, <2>4 DEF CopyOK
<1>4. CASE FindForReset(c)
  <2>1. copy'[c] = [acct EXCEPT !.password = [of |-> c.id, times |-> 0]]
    BY <1>1, <1>4 DEF FindForReset, AccountTypeOK
  <2>2. /\ copy'[c].verified = acct.verified /\ copy'[c].code = acct.code
        /\ copy'[c].balance = acct.balance
    BY <1>1, <2>1 DEF Row
  <2>3. acct' = acct /\ c.kind = "reset" /\ pc'[c] # "update"
    BY <1>1, <1>4, PlaceAfter DEF FindForReset, KindsOK, Placed
  <2> QED BY <2>2, <2>3 DEF CopyOK
<1>5. CASE Adjust(c)
  <2>1. NewBalance(c) \in Nat
    BY <1>1, RowFacts, CallFacts DEF NewBalance
  <2>2. copy'[c] = [acct EXCEPT !.balance = NewBalance(c)] /\ dirty'[c] = {"balance"}
    BY <1>1, <1>5 DEF Adjust, AccountTypeOK
  <2>3. /\ copy'[c].verified = acct.verified /\ copy'[c].code = acct.code
        /\ copy'[c].balance = NewBalance(c)
    BY <1>1, <2>2 DEF Row
  <2>4. acct' = acct /\ c.kind = "adjust"
    BY <1>5 DEF Adjust
  <2>5. CopyOK(c)'
    BY <2>3, <2>4 DEF CopyOK, NewBalance
  <2> QED BY <2>2, <2>3, <2>4, <2>5 DEF LeftOutOK
<1>6. CASE OtherWriter(c)
  <2>1. /\ copy'[c] = acct /\ acct' = acct /\ c.kind = "other" /\ pc'[c] # "update"
    BY <1>1, <1>6, PlaceAfter DEF OtherWriter, Placed, AccountTypeOK
  <2> QED BY <2>1 DEF CopyOK
<1>7. ~RequestReset(c) /\ ~CheckToken(c) /\ ~MailCode(c) /\ ~DeleteToken(c)
      /\ ~Record(c) /\ ~Break(c)
  BY <1>1, PlaceAfter DEF Placed, Holds
<1>8. ~Reload(c) /\ ~Update(c)
  BY DEF Reload, Update, Holds
<1> QED BY <1>2, <1>3, <1>4, <1>5, <1>6, <1>7, <1>8 DEF AccountStep

\* A save that is alone stores its copy.
LEMMA AloneSaves ==
  ASSUME AccTypes, NEW c \in Calls, Update(c), CopyOK(c), LeftOutOK(c)
  PROVE  /\ acct'.verified = IF c.kind = "verify" THEN TRUE ELSE acct.verified
         /\ c.kind = "resend" => acct'.code = given[c]
         /\ c.kind \notin {"verify", "resend"} => acct'.code = acct.code
         /\ acct'.balance = IF c.kind = "adjust" THEN acct.balance + c.amount
                            ELSE acct.balance
<1>1. acct'.verified = copy[c].verified
  <2>1. acct'.verified = IF "verified" \in dirty[c] THEN copy[c].verified
                         ELSE acct.verified
    BY UpdateFacts
  <2>2. "verified" \notin dirty[c] => copy[c].verified = acct.verified
    BY DEF LeftOutOK
  <2> QED BY Zenon, <2>1, <2>2
<1>2. acct'.code = copy[c].code
  <2>1. acct'.code = IF "code" \in dirty[c] THEN copy[c].code ELSE acct.code
    BY UpdateFacts
  <2>2. "code" \notin dirty[c] => copy[c].code = acct.code
    BY DEF LeftOutOK
  <2> QED BY Zenon, <2>1, <2>2
<1>3. acct'.balance = copy[c].balance
  <2>1. acct'.balance = IF "balance" \in dirty[c] THEN copy[c].balance
                        ELSE acct.balance
    BY UpdateFacts
  <2>2. "balance" \notin dirty[c] => copy[c].balance = acct.balance
    BY DEF LeftOutOK
  <2> QED BY Zenon, <2>1, <2>2
<1>4. acct'.verified = IF c.kind = "verify" THEN TRUE ELSE acct.verified
  BY <1>1 DEF CopyOK
<1> QED BY <1>2, <1>3, <1>4 DEF CopyOK

\* The copy of the call that takes the step.
LEMMA AloneCopies ==
  ASSUME AloneInv, NEW c \in Calls, AccountStep(c), ~overlapped', NEW d \in Calls
  PROVE  /\ Holds(d)' => CopyOK(d)'
         /\ pc'[d] = "update" => LeftOutOK(d)'
<1> USE DEF AloneInv
<1>1. AccTypes /\ AccountTypeOK /\ AloneOK
  BY OnlyOne DEF AccTypes
<1>2. CASE d # c
  <2>1. ~InFlight(d)'
    BY <1>2, OnlyOne
  <2> QED BY <2>1 DEF InFlight, Holds, Over
<1>3. CASE d = c /\ ~Holds(c)
  <2>1. Holds(c)' => CopyOK(c)' /\ (pc'[c] = "update" => LeftOutOK(c)')
    BY <1>1, <1>3, CopiesRow
  <2> QED BY <1>3, <2>1 DEF Holds
<1>4. CASE d = c /\ Holds(c) /\ ~Reload(c)
  <2>1. Update(c) \/ Break(c)
    BY <1>4 DEF AccountStep, Verify, Resend, RequestReset, CheckToken, FindForReset,
                Adjust, OtherWriter, MailCode, DeleteToken, Record, Begin, Holds
  <2>2. pc'[c] \notin {"reload", "update"}
    BY <1>1, <2>1, PlaceAfter DEF Placed, AfterUpdate
  <2> QED BY <1>4, <2>2 DEF Holds
<1>5. CASE d = c /\ Reload(c)
  <2>1. acct' = acct /\ given' = given
    BY <1>5 DEF Reload, past
  <2>2. CopyOK(c)
    BY <1>1, <1>5 DEF AloneOK, Reload, Holds
  <2>3. /\ copy'[c].verified = copy[c].verified /\ copy'[c].code = copy[c].code
        /\ copy'[c].balance = copy[c].balance
    BY <1>1, <1>5, ReloadFacts
  <2>4. CopyOK(c)'
    BY <2>1, <2>2, <2>3 DEF CopyOK
  <2>5. LeftOutOK(c)'
    BY <1>1, <1>5, <2>1, ReloadFacts DEF LeftOutOK
  <2> QED BY <1>5, <2>4, <2>5
<1> QED BY <1>2, <1>3, <1>4, <1>5

\* What the codes and the balance do when no calls cross.
LEMMA AloneMails ==
  ASSUME AloneInv, NEW c \in Calls, AccountStep(c), ~overlapped'
  PROVE  MailsOK'
<1> USE DEF AloneInv
<1>1. AccTypes /\ AccountTypeOK /\ AloneOK /\ MailsOK
  BY OnlyOne DEF AccTypes, AloneOK
<1>2. \A d \in Calls \ {c} : pc'[d] = pc[d] /\ given'[d] = given[d] /\ pc[d] # "mail"
  BY <1>1, OnlyOne, OthersStay DEF InFlight, Over
<1>3. CASE Update(c)
  <2>1. /\ CopyOK(c) /\ LeftOutOK(c) /\ pc[c] = "update" /\ given' = given
        /\ lastMail' = lastMail /\ pc'[c] = AfterUpdate(c)
    BY <1>1, <1>3 DEF AloneOK, Update, Holds, Goto, AccountTypeOK
  <2>2. CASE c.kind = "verify"
    BY <1>1, <1>3, <2>1, <2>2, AloneSaves DEF MailsOK
  <2>3. CASE c.kind = "resend"
    <3>1. acct'.code = given'[c] /\ pc'[c] = "mail"
      BY <1>1, <1>3, <2>1, <2>3, AloneSaves DEF AfterUpdate
    <3> QED BY <1>2, <3>1 DEF MailsOK
  <2>4. CASE c.kind \notin {"verify", "resend"}
    <3>1. (acct'.verified = IF c.kind = "verify" THEN TRUE ELSE acct.verified)
          /\ acct'.code = acct.code
      BY <1>1, <1>3, <2>1, <2>4, AloneSaves
    <3>2. acct.verified => acct'.verified
      BY Zenon, <3>1
    <3>3. pc'[c] # "mail" /\ pc'[c] # "lost"
      BY <2>1, <2>4 DEF AfterUpdate
    <3> QED BY <1>1, <1>2, <2>1, <3>1, <3>2, <3>3 DEF MailsOK
  <2> QED BY <2>2, <2>3, <2>4
<1>4. CASE MailCode(c)
  <2>1. /\ pc[c] = "mail" /\ pc'[c] = "done" /\ lastMail' = given[c]
        /\ acct' = acct
    BY <1>1, <1>4 DEF MailCode, Goto, AccountTypeOK
  <2> QED BY <1>1, <1>2, <2>1 DEF MailsOK
<1>5. CASE Break(c)
  <2>1. /\ pc'[c] = IF pc[c] \in {"mail", "delete", "record"} THEN "lost" ELSE "failed"
        /\ acct' = acct /\ lastMail' = lastMail /\ pc[c] \notin Over
    BY <1>1, <1>5 DEF Break, Goto, AccountTypeOK, InFlight
  <2>2. pc[c] = "mail" => c.kind = "resend" /\ pc'[c] = "lost"
    BY <1>1, <2>1 DEF AccTypes, KindsOK
  <2> QED BY <1>1, <1>2, <2>1, <2>2 DEF MailsOK, Over
<1>6. CASE ~Update(c) /\ ~MailCode(c) /\ ~Break(c)
  <2>1. acct' = acct /\ lastMail' = lastMail
    BY <1>6 DEF AccountStep, Verify, Resend, RequestReset, CheckToken, FindForReset,
                Adjust, OtherWriter, Reload, DeleteToken, Record, past
  <2>2. pc[c] \notin {"mail", "lost"}
    BY <1>6 DEF AccountStep, Verify, Resend, RequestReset, CheckToken, FindForReset,
                Adjust, OtherWriter, Reload, DeleteToken, Record, Begin
  <2>3. pc'[c] # "mail"
    BY <1>1, <1>6, PlaceAfter DEF AccountStep, Placed
  <2> QED BY <1>1, <1>2, <2>1, <2>2, <2>3 DEF MailsOK
<1> QED BY <1>3, <1>4, <1>5, <1>6

LEMMA AloneBooks ==
  ASSUME AloneInv, NEW c \in Calls, AccountStep(c), ~overlapped'
  PROVE  BooksOK'
<1> USE DEF AloneInv
<1>1. AccTypes /\ AccountTypeOK /\ AloneOK /\ BooksOK
  BY OnlyOne DEF AccTypes, AloneOK
<1>2. \A d \in Calls \ {c} : pc'[d] = pc[d] /\ pc[d] # "record"
  BY <1>1, OnlyOne, OthersStay DEF InFlight, Over
<1>3. CASE Update(c)
  <2>1. /\ CopyOK(c) /\ LeftOutOK(c) /\ pc[c] = "update"
        /\ recorded' = recorded /\ pc'[c] = AfterUpdate(c)
    BY <1>1, <1>3 DEF AloneOK, Update, Holds, Goto, AccountTypeOK
  <2>2. acct'.balance = IF c.kind = "adjust" THEN acct.balance + c.amount
                        ELSE acct.balance
    BY <1>1, <1>3, <2>1, AloneSaves
  <2>3. (c.kind = "adjust" => pc'[c] = "record")
        /\ (c.kind # "adjust" => pc'[c] # "record") /\ pc'[c] # "lost"
    BY <2>1 DEF AfterUpdate
  <2> QED BY <1>1, <1>2, <2>1, <2>2, <2>3 DEF BooksOK
<1>4. CASE Record(c)
  <2>1. /\ pc[c] = "record" /\ pc'[c] = "done" /\ recorded' = recorded + c.amount
        /\ acct' = acct
    BY <1>1, <1>4 DEF Record, Goto, AccountTypeOK
  <2> QED BY <1>1, <1>2, <2>1 DEF BooksOK
<1>5. CASE Break(c)
  <2>1. /\ pc'[c] = IF pc[c] \in {"mail", "delete", "record"} THEN "lost" ELSE "failed"
        /\ acct' = acct /\ recorded' = recorded /\ pc[c] \notin Over
    BY <1>1, <1>5 DEF Break, Goto, AccountTypeOK, InFlight
  <2>2. pc[c] = "record" => c.kind = "adjust" /\ pc'[c] = "lost"
    BY <1>1, <2>1 DEF AccTypes, KindsOK
  <2> QED BY <1>1, <1>2, <2>1, <2>2 DEF BooksOK, Over
<1>6. CASE ~Update(c) /\ ~Record(c) /\ ~Break(c)
  <2>1. acct' = acct /\ recorded' = recorded
    BY <1>6 DEF AccountStep, Verify, Resend, RequestReset, CheckToken, FindForReset,
                Adjust, OtherWriter, Reload, MailCode, DeleteToken, past
  <2>2. pc[c] \notin {"record", "lost"}
    BY <1>6 DEF AccountStep, Verify, Resend, RequestReset, CheckToken, FindForReset,
                Adjust, OtherWriter, Reload, MailCode, DeleteToken, Begin
  <2>3. pc'[c] # "record"
    BY <1>1, <1>6, PlaceAfter DEF AccountStep, Placed
  <2> QED BY <1>1, <1>2, <2>1, <2>2, <2>3 DEF BooksOK
<1> QED BY <1>3, <1>4, <1>5, <1>6

LEMMA AloneKept == AloneInv /\ [AccountNext]_accountVars => AloneInv'
<1> SUFFICES ASSUME AloneInv, [AccountNext]_accountVars PROVE AloneInv'
  OBVIOUS
<1>1. AccTypes'
  BY TypesStep DEF AloneInv
<1>2. CASE \/ UNCHANGED accountVars
           \/ \E t \in Tokens : ExpireToken(t)
  <2>1. UNCHANGED <<acct, pc, copy, dirty, given, lastMail, recorded, overlapped>>
    BY <1>2 DEF ExpireToken, past, accountVars
  <2>2. \A c \in Calls : InFlight(c)' <=> InFlight(c)
    BY <2>1 DEF InFlight
  <2>3. \A c \in Calls : Holds(c)' <=> Holds(c)
    BY <2>1 DEF Holds
  <2>4. \A c \in Calls : CopyOK(c)' <=> CopyOK(c)
    BY Zenon, <2>1 DEF CopyOK
  <2>5. \A c \in Calls : LeftOutOK(c)' <=> LeftOutOK(c)
    BY Zenon, <2>1 DEF LeftOutOK
  <2>6. MailsOK => MailsOK'
    BY Zenon, <2>1 DEF MailsOK
  <2>7. BooksOK => BooksOK'
    BY Zenon, <2>1 DEF BooksOK
  <2> QED BY <1>1, <2>1, <2>2, <2>3, <2>4, <2>5, <2>6, <2>7
          DEF AloneInv, AloneOK, OneCall
<1>3. ASSUME NEW c \in Calls, AccountStep(c) PROVE AloneInv'
  <2>1. ASSUME ~overlapped' PROVE AloneOK'
    <3>1. OneCall'
      BY <1>3, <2>1, OnlyOne DEF OneCall
    <3> QED BY <1>3, <2>1, <3>1, AloneCopies, AloneMails, AloneBooks DEF AloneOK
  <2> QED BY <1>1, <2>1 DEF AloneInv
<1> QED BY <1>2, <1>3 DEF AccountNext

\* While no calls cross, a step keeps a verified user verified.
LEMMA VerifiedStep ==
  ASSUME AloneInv, AccTypes', [AccountNext]_accountVars, acct.verified, ~acct'.verified
  PROVE  overlapped
<1> SUFFICES ASSUME ~overlapped PROVE FALSE
  OBVIOUS
<1>1. PICK c \in Calls : Update(c)
  BY DEF AccountNext, accountVars, AccountStep, ExpireToken, Verify, Resend,
         RequestReset, CheckToken, FindForReset, Adjust, OtherWriter, Reload, MailCode,
         DeleteToken, Record, Break
<1>2. AccTypes /\ CopyOK(c) /\ LeftOutOK(c)
  BY <1>1 DEF AloneInv, AloneOK, Update, Holds
<1>3. acct'.verified = IF c.kind = "verify" THEN TRUE ELSE acct.verified
  BY <1>1, <1>2, AloneSaves
<1> QED BY Zenon, <1>3

-----------------------------------------------------------------------------
(* The sweep of a user's deposits: the order of the assets                 *)

LEMMA ChainFacts == /\ Len(Chains) \in Nat /\ DOMAIN Chains = 1 .. Len(Chains)
                    /\ \A q \in DOMAIN Chains : Chains[q] \in ToSet(Chains)
  BY SweepAssumption, LenProperties DEF ToSet

\* The coins of Bitcoin and Solana come first, then three assets of each chain.
LEMMA OrderFacts ==
  /\ Len(Order) = 4 + 3 * Len(Chains) /\ Len(Order) \in Nat
  /\ DOMAIN Order = 1 .. Len(Order)
  /\ \A i \in 1 .. 4 : /\ Order[i][1] \in {"bitcoin", "solana"}
                        /\ Order[i][2] # "real"
  /\ \A q \in DOMAIN Chains : /\ Order[3 * q + 2] = <<Chains[q], "usdt">>
                              /\ Order[3 * q + 3] = <<Chains[q], "usdc">>
                              /\ Order[3 * q + 4] = <<Chains[q], "eth">>
  /\ \A i \in DOMAIN Order :
       i <= 4 \/ \E q \in DOMAIN Chains : i \in {3 * q + 2, 3 * q + 3, 3 * q + 4}
<1> DEFINE S == {"bitcoin", "solana"} \cup ToSet(Chains)
           U == S \X {"btc", "sol", "usdt", "usdc", "eth"}
           n == 3 * Len(Chains)
           t == [i \in 1 .. n |-> <<Chains[(i + 2) \div 3],
                                    EvmSweeps[((i - 1) % 3) + 1]>>]
<1>1. Len(Chains) \in Nat /\ DOMAIN Chains = 1 .. Len(Chains) /\ n \in Nat
  BY ChainFacts
<1>2. FirstSweeps \in Seq(U) /\ Len(FirstSweeps) = 4
  BY DEF FirstSweeps
<1>3. ASSUME NEW i \in 1 .. n
      PROVE  /\ (i + 2) \div 3 \in DOMAIN Chains /\ ((i - 1) % 3) + 1 \in 1 .. 3
  BY <1>1
<1>4. \A j \in 1 .. 3 : EvmSweeps[j] \in {"usdt", "usdc", "eth"}
  BY DEF EvmSweeps
<1>5. \A i \in 1 .. n : t[i] \in U
  BY <1>3, <1>4, ChainFacts
<1>6. t \in [1 .. n -> U]
  BY <1>5
<1> HIDE DEF S, U, t
<1>7. t \in Seq(U) /\ Len(t) = n
  <2>1. t \in Seq(U)
    BY <1>1, <1>6, SeqDef
  <2>2. 1 .. n = 1 .. Len(t) /\ Len(t) \in Nat
    BY <1>6, <2>1, LenProperties
  <2>3. n <= Len(t) /\ Len(t) <= n
    BY <1>1, <2>2
  <2> QED BY <1>1, <2>1, <2>2, <2>3
<1>8. /\ Order \in Seq(U) /\ Len(Order) = 4 + n
      /\ \A i \in 1 .. 4 + n : Order[i] = IF i <= 4 THEN FirstSweeps[i] ELSE t[i - 4]
  <2>1. Order = FirstSweeps \o t
    BY DEF Order, t
  <2>2. /\ FirstSweeps \o t \in Seq(U)
        /\ Len(FirstSweeps \o t) = Len(FirstSweeps) + Len(t)
        /\ \A i \in 1 .. Len(FirstSweeps) + Len(t) :
             (FirstSweeps \o t)[i] = IF i <= Len(FirstSweeps) THEN FirstSweeps[i]
                                     ELSE t[i - Len(FirstSweeps)]
    BY Zenon, <1>2, <1>7, ConcatProperties
  <2> QED BY <1>2, <1>7, <2>1, <2>2
<1>9. Len(Order) \in Nat /\ DOMAIN Order = 1 .. Len(Order)
  BY <1>8, LenProperties
<1>10. \A i \in 1 .. 4 : Order[i][1] \in {"bitcoin", "solana"} /\ Order[i][2] # "real"
  <2>1. \A i \in 1 .. 4 : /\ FirstSweeps[i][1] \in {"bitcoin", "solana"}
                          /\ FirstSweeps[i][2] # "real"
    BY DEF FirstSweeps
  <2>2. \A i \in 1 .. 4 : Order[i] = FirstSweeps[i]
    BY <1>1, <1>8
  <2> QED BY <2>1, <2>2
<1>11. ASSUME NEW q \in DOMAIN Chains
       PROVE  /\ Order[3 * q + 2] = <<Chains[q], "usdt">>
              /\ Order[3 * q + 3] = <<Chains[q], "usdc">>
              /\ Order[3 * q + 4] = <<Chains[q], "eth">>
  <2>1. q \in Nat /\ q >= 1 /\ q <= Len(Chains)
    BY <1>1
  <2>2. 3 * q - 2 \in 1 .. n /\ 3 * q - 1 \in 1 .. n /\ 3 * q \in 1 .. n
    BY <1>1, <2>1
  <2> USE DEF t
  <2>3. /\ Order[3 * q + 2] = t[3 * q - 2] /\ Order[3 * q + 3] = t[3 * q - 1]
        /\ Order[3 * q + 4] = t[3 * q]
    <3>1. /\ 3 * q + 2 \in 1 .. 4 + n /\ 3 * q + 3 \in 1 .. 4 + n
          /\ 3 * q + 4 \in 1 .. 4 + n
          /\ ~(3 * q + 2 <= 4) /\ ~(3 * q + 3 <= 4) /\ ~(3 * q + 4 <= 4)
          /\ (3 * q + 2) - 4 = 3 * q - 2 /\ (3 * q + 3) - 4 = 3 * q - 1
          /\ (3 * q + 4) - 4 = 3 * q
      BY <1>1, <2>1
    <3> HIDE DEF t
    <3> QED BY <1>8, <3>1
  <2>4. /\ (3 * q - 2 + 2) \div 3 = q /\ ((3 * q - 2 - 1) % 3) + 1 = 1
        /\ (3 * q - 1 + 2) \div 3 = q /\ ((3 * q - 1 - 1) % 3) + 1 = 2
        /\ (3 * q + 2) \div 3 = q /\ ((3 * q - 1) % 3) + 1 = 3
    BY <2>1
  <2>5. EvmSweeps[1] = "usdt" /\ EvmSweeps[2] = "usdc" /\ EvmSweeps[3] = "eth"
    BY DEF EvmSweeps
  <2> QED BY <2>2, <2>3, <2>4, <2>5
<1>12. ASSUME NEW i \in DOMAIN Order, ~(i <= 4)
       PROVE  \E q \in DOMAIN Chains : i \in {3 * q + 2, 3 * q + 3, 3 * q + 4}
  <2>1. i \in Nat /\ i >= 5 /\ i <= 4 + 3 * Len(Chains)
    BY <1>8, <1>9, <1>12
  <2>2. (i - 2) \div 3 \in DOMAIN Chains
    BY <1>1, <2>1
  <2>3. LET q == (i - 2) \div 3 IN i \in {3 * q + 2, 3 * q + 3, 3 * q + 4}
    BY <2>1
  <2> QED BY <2>2, <2>3
<1> QED BY <1>8, <1>9, <1>10, <1>11, <1>12

-----------------------------------------------------------------------------
(* The sweep of a user's deposits: types and what a step never does        *)

LEMMA AssetFacts ==
  /\ \A i \in DOMAIN Order : Order[i] \in Assets
  /\ \A a \in Assets : \E i \in DOMAIN Order : a = Order[i]
  BY DEF Assets, ToSet

\* The keys of Bitcoin and Solana are not usable, and so the coin that pays is ETH.
LEMMA UsableFacts ==
  ASSUME NEW a, Usable(a)
  PROVE  a[1] \notin {"bitcoin", "solana"} /\ Native(a) = <<a[1], "eth">>
<1>1. a[1] \notin {"bitcoin", "solana"}
  BY DEF Usable, StoredAs, DecodedAs
<1> QED BY <1>1 DEF Native

\* What an attempt to send an asset makes of the wallets.
LEMMA SendFacts ==
  ASSUME SweepTypeOK, SweepAsset
  PROVE  LET a == Order[turn] IN
         /\ turn \in DOMAIN Order /\ a \in Assets /\ turn' = turn + 1
         /\ held' \in [Assets -> Nat]
         /\ \A b \in Assets : b # a /\ b # Native(a) => held'[b] = held[b]
         /\ held' = held \/ (Usable(a) /\ held[Native(a)] > Gas)
         /\ a # Native(a) /\ Native(a) \in Assets =>
              held'[Native(a)] >= held[Native(a)] - Gas
         /\ a \in swept' \/ a \in broken' \/ ~CanSend(a)
         /\ swept \subseteq swept' /\ broken \subseteq broken'
         /\ swept' \subseteq swept \cup {a} /\ broken' \subseteq broken \cup {a}
<1>1. PICK a \in Assets : a = Order[turn] /\ turn \in DOMAIN Order
  BY AssetFacts DEF SweepAsset
<1>2. /\ held \in [Assets -> Nat] /\ Gas \in Nat /\ turn' = turn + 1
      /\ swept \subseteq Assets /\ broken \subseteq Assets
  BY SweepAssumption DEF SweepTypeOK, SweepAsset
<1>3. PICK e : e = Native(a)
  OBVIOUS
<1>4. \/ /\ CanSend(a) /\ swept' = swept \cup {a} /\ broken' = broken
         /\ held' = IF a = e THEN [held EXCEPT ![a] = 0]
                    ELSE [held EXCEPT ![a] = 0, ![e] = @ - Gas]
      \/ /\ ~CanSend(a) /\ held' = held /\ swept' = swept /\ broken' = broken
      \/ /\ held' = held /\ swept' = swept /\ broken' = broken \cup {a}
  BY <1>1, <1>3 DEF SweepAsset
<1>5. CASE /\ CanSend(a) /\ swept' = swept \cup {a} /\ broken' = broken
           /\ held' = IF a = e THEN [held EXCEPT ![a] = 0]
                      ELSE [held EXCEPT ![a] = 0, ![e] = @ - Gas]
  <2>1. Usable(a) /\ held[e] > Gas
    BY <1>3, <1>5 DEF CanSend
  <2>2. CASE a = e
    <3>1. held' = [held EXCEPT ![a] = 0]
      BY <1>5, <2>2
    <3>2. /\ held' \in [Assets -> Nat]
          /\ \A b \in Assets : b # a => held'[b] = held[b]
      BY <1>2, <3>1
    <3> QED BY <1>1, <1>2, <1>3, <1>5, <2>1, <2>2, <3>2
  <2>3. CASE a # e
    <3>1. held' = [held EXCEPT ![a] = 0, ![e] = @ - Gas]
      BY <1>5, <2>3
    <3>2. CASE e \in Assets
      <4>1. held[e] - Gas \in Nat
        BY <1>2, <2>1, <3>2
      <4>2. /\ held' \in [Assets -> Nat] /\ held'[e] = held[e] - Gas
            /\ \A b \in Assets : b # a /\ b # e => held'[b] = held[b]
        BY <1>2, <2>3, <3>1, <3>2, <4>1
      <4>3. held'[e] >= held[e] - Gas
        BY <4>1, <4>2
      <4> QED BY <1>1, <1>2, <1>3, <1>5, <2>1, <4>2, <4>3
    <3>3. CASE e \notin Assets
      <4>1. held' = [held EXCEPT ![a] = 0]
        BY <1>2, <3>1, <3>3
      <4>2. /\ held' \in [Assets -> Nat]
            /\ \A b \in Assets : b # a => held'[b] = held[b]
        BY <1>2, <4>1
      <4> QED BY <1>1, <1>2, <1>3, <1>5, <2>1, <3>3, <4>2
    <3> QED BY <3>2, <3>3
  <2> QED BY <2>2, <2>3
<1>6. CASE /\ held' = held /\ swept' = swept /\ broken \subseteq broken'
           /\ broken' \subseteq broken \cup {a}
           /\ a \in broken' \/ ~CanSend(a)
  <2>1. e \in Assets => held'[e] >= held[e] - Gas
    BY <1>2, <1>6
  <2> QED BY <1>1, <1>2, <1>3, <1>6, <2>1
<1> QED BY <1>4, <1>5, <1>6

LEMMA AddKeepsNat ==
  ASSUME NEW S, NEW f \in [S -> Nat], NEW a, NEW n \in Nat
  PROVE  [f EXCEPT ![a] = @ + n] \in [S -> Nat]
<1>1. CASE a \in S
  <2>1. f[a] + n \in Nat
    BY <1>1
  <2> QED BY <1>1, <2>1
<1>2. CASE a \notin S
  BY <1>2
<1> QED BY <1>1, <1>2

LEMMA InitSweepTypes == SweepInit => SweepTypeOK
<1> SUFFICES ASSUME SweepInit PROVE SweepTypeOK
  OBVIOUS
<1>1. 0 \in 0 .. Saving /\ 0 \in 0 .. MaxPlays
  BY OrderFacts, SweepAssumption DEF Saving
<1> QED BY <1>1 DEF SweepInit, SweepTypeOK

LEMMA SweepTypesStep == SweepTypeOK /\ [SweepNext]_sweepVars => SweepTypeOK'
<1> SUFFICES ASSUME SweepTypeOK, [SweepNext]_sweepVars PROVE SweepTypeOK'
  OBVIOUS
<1> USE DEF SweepTypeOK, sweepPast
<1>1. Len(Order) \in Nat /\ DOMAIN Order = 1 .. Len(Order) /\ MaxPlays \in Nat
  BY OrderFacts, SweepAssumption
<1>2. ASSUME NEW d \in Incoming, Income(d) PROVE SweepTypeOK'
  <2>1. d[2] \in Nat
    BY SweepAssumption
  <2>5. PICK a, k, n : /\ n \in Nat /\ held' = [held EXCEPT ![a] = @ + n]
                       /\ book' = [book EXCEPT ![k] = @ + n]
    BY <1>2, <2>1 DEF Income
  <2>2. held' \in [Assets -> Nat] /\ book' \in [BalanceColumns -> Nat]
    BY <2>5, AddKeepsNat
  <2>3. income' \subseteq Incoming
    BY <1>2 DEF Income
  <2>4. UNCHANGED <<turn, rowCopy, rowDirty, plays, swept, before, broken, played>>
    BY <1>2 DEF Income
  <2> QED BY <2>2, <2>3, <2>4
<1>3. CASE Play
  <2>5. PICK k : book' = [book EXCEPT ![k] = @ + 1]
    BY <1>3 DEF Play
  <2>1. book' \in [BalanceColumns -> Nat]
    BY <2>5, AddKeepsNat
  <2>2. plays' \in 0 .. MaxPlays
    BY <1>1, <1>3 DEF Play
  <2>3. played' \in BOOLEAN
    <3>1. (turn > 0) \in BOOLEAN
      OBVIOUS
    <3> QED BY Zenon, <1>3, <3>1 DEF Play
  <2>4. UNCHANGED <<held, turn, rowCopy, rowDirty, income, swept, before, broken>>
    BY <1>3 DEF Play
  <2> QED BY <2>1, <2>2, <2>3, <2>4
<1>4. CASE BeginSweep
  BY <1>1, <1>4 DEF BeginSweep, Saving
<1>5. CASE SweepAsset
  <2>1. PICK a \in Assets : a = Order[turn]
    BY <1>5, AssetFacts DEF SweepAsset
  <2>2. /\ held' \in [Assets -> Nat] /\ turn \in DOMAIN Order /\ turn' = turn + 1
        /\ swept' \subseteq swept \cup {a} /\ broken' \subseteq broken \cup {a}
    BY <1>5, <2>1, SendFacts
  <2>3. turn' \in 0 .. Saving
    BY <1>1, <2>2 DEF Saving
  <2> QED BY <1>5, <2>1, <2>2, <2>3 DEF SweepAsset
<1>6. CASE ReadRow
  <2>1. Zeroed \in [BalanceColumns -> Nat]
    BY DEF Zeroed
  <2> QED BY <1>1, <1>6, <2>1 DEF ReadRow, Saving
<1>10. ASSUME EndSweep
       PROVE  /\ turn' \in 0 .. Saving /\ rowDirty' \subseteq BalanceColumns
              /\ rowCopy' \in [BalanceColumns -> Nat] /\ before' \in [Assets -> Nat]
              /\ swept' \subseteq Assets /\ broken' \subseteq Assets
              /\ played' \in BOOLEAN
  <2>1. 0 \in 0 .. Saving
    BY <1>1 DEF Saving
  <2>2. /\ rowCopy' = [k \in BalanceColumns |-> 0] /\ before' = [a \in Assets |-> 0]
        /\ turn' = 0 /\ rowDirty' = {} /\ swept' = {} /\ broken' = {}
        /\ played' = FALSE
    BY <1>10 DEF EndSweep
  <2>3. rowCopy' \in [BalanceColumns -> Nat] /\ before' \in [Assets -> Nat]
    BY <2>2
  <2> QED BY <2>1, <2>2, <2>3
<1>7. CASE SaveRow
  <2>1. book' \in [BalanceColumns -> Nat]
    BY <1>7 DEF SaveRow
  <2> QED BY <1>7, <1>10, <2>1 DEF SaveRow
<1>8. CASE Abort
  BY <1>8, <1>10 DEF Abort
<1>9. CASE UNCHANGED sweepVars
  BY <1>9 DEF sweepVars
<1> QED BY <1>2, <1>3, <1>4, <1>5, <1>6, <1>7, <1>8, <1>9 DEF SweepNext

\* A step of a sweep moves no coin of Bitcoin or Solana.
LEMMA EvmStep ==
  ASSUME SweepTypeOK, [SweepNext]_sweepVars, NEW b \in Assets,
         b[1] \in {"bitcoin", "solana"}
  PROVE  held'[b] >= held[b]
<1>1. held \in [Assets -> Nat] /\ held[b] \in Nat
  BY DEF SweepTypeOK
<1>2. ASSUME NEW d \in Incoming, Income(d) PROVE held'[b] >= held[b]
  <2>1. PICK a \in Assets, n \in Nat : held' = [held EXCEPT ![a] = @ + n]
    BY <1>2, SweepAssumption DEF Income
  <2>2. held'[b] = IF b = a THEN held[b] + n ELSE held[b]
    BY <1>1, <2>1
  <2> QED BY <1>1, <2>2
<1>3. CASE SweepAsset
  <2>1. PICK a \in Assets : a = Order[turn]
    BY <1>3, AssetFacts DEF SweepAsset
  <2>2. /\ held' = held \/ (Usable(a) /\ held[Native(a)] > Gas)
        /\ b # a /\ b # Native(a) => held'[b] = held[b]
    BY <1>3, <2>1, SendFacts
  <2>3. Usable(a) => b # a /\ b # Native(a)
    BY UsableFacts
  <2>4. held'[b] = held[b]
    BY <2>2, <2>3
  <2> QED BY <1>1, <2>4
<1>4. CASE Play \/ BeginSweep \/ ReadRow \/ SaveRow \/ Abort \/ UNCHANGED sweepVars
  <2>1. held' = held
    BY <1>4 DEF Play, BeginSweep, ReadRow, SaveRow, Abort, sweepVars
  <2> QED BY <1>1, <2>1
<1> QED BY <1>2, <1>3, <1>4 DEF SweepNext

\* Until the user plays, the copy of a sweep has the USD balance of the row.
RealOK == turn > 0 /\ ~played => rowCopy["real"] = book["real"]

LEMMA ColumnFacts == \A a \in Assets : a[2] # "real"
<1> SUFFICES ASSUME NEW i \in DOMAIN Order PROVE Order[i][2] # "real"
  BY AssetFacts
<1>1. CASE i <= 4
  BY <1>1, OrderFacts
<1>2. CASE ~(i <= 4)
  <2>1. PICK q \in DOMAIN Chains : i \in {3 * q + 2, 3 * q + 3, 3 * q + 4}
    BY <1>2, OrderFacts
  <2> QED BY <2>1, OrderFacts
<1> QED BY <1>1, <1>2

LEMMA RealStep ==
  ASSUME SweepTypeOK, RealOK, [SweepNext]_sweepVars
  PROVE  /\ RealOK'
         /\ turn = Saving /\ turn' = 0 /\ book'["real"] # book["real"] => played
<1>1. /\ book \in [BalanceColumns -> Nat] /\ rowCopy \in [BalanceColumns -> Nat]
      /\ "real" \in BalanceColumns /\ turn \in Nat /\ played \in BOOLEAN
  BY OrderFacts DEF SweepTypeOK, BalanceColumns, Saving
<1>2. Saving # 0
  BY OrderFacts DEF Saving
<1>3. ASSUME NEW d \in Incoming, Income(d)
      PROVE  RealOK' /\ turn' = turn
  <2>1. PICK k, n : k # "real" /\ book' = [book EXCEPT ![k] = @ + n]
    BY <1>3, ColumnFacts, SweepAssumption DEF Income
  <2>2. book'["real"] = book["real"]
    BY <1>1, <2>1
  <2>3. UNCHANGED <<turn, rowCopy, played>>
    BY <1>3 DEF Income, sweepPast
  <2> QED BY <2>2, <2>3 DEF RealOK
<1>4. CASE Play
  <2>1. turn' = turn /\ (played' <=> turn > 0)
    BY <1>4 DEF Play
  <2> QED BY <1>2, <2>1 DEF RealOK
<1>5. CASE BeginSweep
  <2>1. rowCopy' = book /\ book' = book /\ turn' = 1
    BY <1>5 DEF BeginSweep
  <2> QED BY <2>1 DEF RealOK
<1>6. CASE SweepAsset
  <2>1. /\ UNCHANGED <<rowCopy, book, played>> /\ turn' = turn + 1 /\ turn > 0
    BY <1>6, OrderFacts DEF SweepAsset
  <2> QED BY <2>1 DEF RealOK
<1>7. CASE ReadRow
  <2>1. /\ UNCHANGED <<book, played>> /\ turn > 0 /\ turn' = Saving
        /\ rowCopy' = Zeroed
    BY <1>7, OrderFacts DEF ReadRow, Reading, sweepPast
  <2>2. rowCopy'["real"] = rowCopy["real"]
    BY <1>1, <2>1 DEF Zeroed, TokenColumns
  <2> QED BY <1>2, <2>1, <2>2 DEF RealOK
<1>8. CASE SaveRow
  <2>1. turn' = 0 /\ turn = Saving
    BY <1>8 DEF SaveRow, EndSweep
  <2>2. book'["real"] = IF "real" \in rowDirty THEN rowCopy["real"] ELSE book["real"]
    BY <1>1, <1>8 DEF SaveRow
  <2>3. turn > 0
    BY <1>1, <1>2, <2>1
  <2> QED BY <2>1, <2>2, <2>3 DEF RealOK
<1>9. CASE Abort
  BY <1>9 DEF Abort, EndSweep, RealOK
<1>10. CASE UNCHANGED sweepVars
  BY <1>2, <1>10 DEF sweepVars, RealOK
<1> QED BY <1>2, <1>3, <1>4, <1>5, <1>6, <1>7, <1>8, <1>9, <1>10 DEF SweepNext

-----------------------------------------------------------------------------
(* The sweep of a user's deposits: tokens and gas                          *)

\* A token that could be sent when the sweep began, and no endpoint failed.
Gone(a) ==
  Usable(a) /\ before[a] > 0 /\ before[Native(a)] > 2 * Gas /\ a \notin broken
    => a \in swept

\* Until the turn of a chain comes, its tokens and its coin are what they were at
\* the beginning or more; the first token takes the gas of one transfer.
ChainOK(q) ==
  /\ turn <= 3 * q + 2 =>
       /\ held[<<Chains[q], "usdt">>] >= before[<<Chains[q], "usdt">>]
       /\ held[<<Chains[q], "eth">>] >= before[<<Chains[q], "eth">>]
  /\ turn <= 3 * q + 3 =>
       /\ held[<<Chains[q], "usdc">>] >= before[<<Chains[q], "usdc">>]
       /\ held[<<Chains[q], "eth">>] >= before[<<Chains[q], "eth">>] - Gas
  /\ turn > 3 * q + 2 => Gone(<<Chains[q], "usdt">>)
  /\ turn > 3 * q + 3 => Gone(<<Chains[q], "usdc">>)

GasInv == SweepTypeOK /\ (turn > 0 => \A q \in DOMAIN Chains : ChainOK(q))

LEMMA ChainAssets ==
  ASSUME NEW q \in DOMAIN Chains
  PROVE  /\ q \in Nat /\ q >= 1
         /\ <<Chains[q], "usdt">> \in Assets /\ <<Chains[q], "usdc">> \in Assets
         /\ <<Chains[q], "eth">> \in Assets
         /\ 3 * q + 4 <= Len(Order)
<1>1. /\ q \in Nat /\ q >= 1 /\ q <= Len(Chains) /\ Len(Chains) \in Nat
  BY ChainFacts
<1>2. /\ 3 * q + 4 <= Len(Order)
      /\ 3 * q + 2 \in DOMAIN Order /\ 3 * q + 3 \in DOMAIN Order
      /\ 3 * q + 4 \in DOMAIN Order
  BY <1>1, OrderFacts
<1> QED BY <1>1, <1>2, OrderFacts, AssetFacts

\* What is held of the assets of a chain, as numbers.
LEMMA HeldFacts ==
  ASSUME SweepTypeOK, NEW q \in DOMAIN Chains, NEW k \in {"usdt", "usdc", "eth"}
  PROVE  held[<<Chains[q], k>>] \in Nat /\ before[<<Chains[q], k>>] \in Nat
  BY ChainAssets DEF SweepTypeOK

\* A step that leaves the turn, the beginning and what has left alone, and takes
\* nothing, leaves a chain as it is.
LEMMA ChainStays ==
  ASSUME SweepTypeOK, SweepTypeOK', NEW q \in DOMAIN Chains, ChainOK(q),
         before' = before, swept \subseteq swept', broken \subseteq broken',
         turn' \in Nat, turn' >= turn,
         turn' > 3 * q + 2 => turn > 3 * q + 2,
         turn' > 3 * q + 3 => turn > 3 * q + 3,
         turn > 3 * q + 3 \/
           \A k \in {"usdt", "usdc", "eth"} :
             held'[<<Chains[q], k>>] >= held[<<Chains[q], k>>]
  PROVE  ChainOK(q)'
<1>1. turn \in Nat /\ q \in Nat /\ Gas \in Nat
  BY ChainAssets, OrderFacts, SweepAssumption DEF SweepTypeOK, Saving
<1>2. \A k \in {"usdt", "usdc", "eth"} :
        /\ held[<<Chains[q], k>>] \in Nat /\ held'[<<Chains[q], k>>] \in Nat
        /\ before[<<Chains[q], k>>] \in Nat
  BY ChainAssets DEF SweepTypeOK
<1>3. \A a : Gone(a) => Gone(a)'
  BY DEF Gone
<1>4. turn' > 3 * q + 2 => Gone(<<Chains[q], "usdt">>)'
  BY <1>3 DEF ChainOK
<1>5. turn' > 3 * q + 3 => Gone(<<Chains[q], "usdc">>)'
  BY <1>3 DEF ChainOK
<1> HIDE DEF Gone
<1>6. turn' <= 3 * q + 2 => turn <= 3 * q + 2
  BY <1>1
<1>7. turn' <= 3 * q + 3 => turn <= 3 * q + 3
  BY <1>1
<1>8. turn' <= 3 * q + 2 =>
        /\ held'[<<Chains[q], "usdt">>] >= before'[<<Chains[q], "usdt">>]
        /\ held'[<<Chains[q], "eth">>] >= before'[<<Chains[q], "eth">>]
  BY <1>1, <1>2, <1>6 DEF ChainOK
<1>9. turn' <= 3 * q + 3 =>
        /\ held'[<<Chains[q], "usdc">>] >= before'[<<Chains[q], "usdc">>]
        /\ held'[<<Chains[q], "eth">>] >= before'[<<Chains[q], "eth">>] - Gas
  BY <1>1, <1>2, <1>7 DEF ChainOK
<1> QED BY <1>4, <1>5, <1>8, <1>9 DEF ChainOK

\* The turn of one asset, seen from a chain.
LEMMA ChainTurn ==
  ASSUME SweepTypeOK, SweepTypeOK', SweepAsset, NEW q \in DOMAIN Chains, ChainOK(q)
  PROVE  ChainOK(q)'
<1> DEFINE c == Chains[q]
<1>1. PICK a \in Assets : a = Order[turn]
  BY AssetFacts DEF SweepAsset
<1>2. /\ turn \in DOMAIN Order /\ turn' = turn + 1 /\ before' = before
      /\ \A b \in Assets : b # a /\ b # Native(a) => held'[b] = held[b]
      /\ held' = held \/ (Usable(a) /\ held[Native(a)] > Gas)
      /\ a # Native(a) /\ Native(a) \in Assets =>
           held'[Native(a)] >= held[Native(a)] - Gas
      /\ a \in swept' \/ a \in broken' \/ ~CanSend(a)
      /\ swept \subseteq swept' /\ broken \subseteq broken'
  <2>1. before' = before
    BY DEF SweepAsset
  <2> QED BY <1>1, <2>1, SendFacts
<1>3. turn \in Nat /\ q \in Nat /\ Gas \in Nat /\ turn' \in Nat
  BY <1>2, ChainAssets, OrderFacts, SweepAssumption
<1>4. /\ <<c, "usdt">> \in Assets /\ <<c, "usdc">> \in Assets /\ <<c, "eth">> \in Assets
      /\ \A k \in {"usdt", "usdc", "eth"} :
           /\ held[<<c, k>>] \in Nat /\ held'[<<c, k>>] \in Nat
           /\ before[<<c, k>>] \in Nat
  BY ChainAssets DEF SweepTypeOK
<1>5. Native(a) # a => \A k \in {"usdt", "usdc"} : <<c, k>> # Native(a)
  BY DEF Native
<1>6. CASE turn <= 4 \/ a[1] # c
  <2>1. ASSUME NEW k \in {"usdt", "usdc", "eth"} PROVE held'[<<c, k>>] = held[<<c, k>>]
    <3>1. CASE held' = held
      BY <3>1
    <3>2. CASE Usable(a)
      <4>1. a[1] \notin {"bitcoin", "solana"} /\ Native(a) = <<a[1], "eth">>
        BY <3>2, UsableFacts
      <4>2. a[1] # c
        BY <1>1, <1>2, <1>3, <1>6, <4>1, OrderFacts
      <4>3. <<c, k>> # a /\ <<c, k>> # Native(a)
        BY <4>1, <4>2
      <4> QED BY <1>2, <1>4, <4>3
    <3> QED BY <1>2, <3>1, <3>2
  <2>2. turn # 3 * q + 2 /\ turn # 3 * q + 3
    <3>1. Order[3 * q + 2] = <<c, "usdt">> /\ Order[3 * q + 3] = <<c, "usdc">>
      BY OrderFacts
    <3>2. q >= 1
      BY ChainAssets
    <3>3. a[1] # c => turn # 3 * q + 2 /\ turn # 3 * q + 3
      BY <1>1, <3>1
    <3> QED BY <1>3, <1>6, <3>2, <3>3
  <2>3. /\ turn' > 3 * q + 2 => turn > 3 * q + 2
        /\ turn' > 3 * q + 3 => turn > 3 * q + 3
    <3>1. turn' = turn + 1 /\ turn \in Nat /\ q \in Nat
      BY <1>2, <1>3
    <3> QED BY <2>2, <3>1
  <2>4. turn' >= turn
    BY <1>2, <1>3
  <2>5. \A k \in {"usdt", "usdc", "eth"} : held'[<<c, k>>] >= held[<<c, k>>]
    BY <1>4, <2>1
  <2> QED BY <1>2, <1>3, <2>3, <2>4, <2>5, ChainStays
<1>7. CASE turn > 4 /\ a[1] = c
  <2>1. turn \in {3 * q + 2, 3 * q + 3, 3 * q + 4}
    <3>1. PICK p \in DOMAIN Chains : turn \in {3 * p + 2, 3 * p + 3, 3 * p + 4}
      BY <1>2, <1>3, <1>7, OrderFacts
    <3>2. a[1] = Chains[p]
      BY <1>1, <3>1, OrderFacts
    <3>3. p = q
      BY <1>7, <3>2, SweepAssumption
    <3> QED BY <3>1, <3>3
  <2>2. CASE turn = 3 * q + 2
    <3>1. a = <<c, "usdt">> /\ turn' = 3 * q + 3
      BY <1>1, <1>2, <1>3, <2>2, OrderFacts
    <3>2. Native(a) # a
      BY <3>1 DEF Native
    <3>3. /\ held[a] >= before[a] /\ held[<<c, "eth">>] >= before[<<c, "eth">>]
          /\ held[<<c, "usdc">>] >= before[<<c, "usdc">>]
      BY <1>3, <2>2, <3>1 DEF ChainOK
    <3>4. held'[<<c, "usdc">>] = held[<<c, "usdc">>]
      BY <1>2, <1>4, <1>5, <3>1, <3>2
    <3>5. held'[<<c, "eth">>] >= before[<<c, "eth">>] - Gas
      <4>1. CASE held' = held
        BY <1>3, <1>4, <3>3, <4>1
      <4>2. CASE Usable(a)
        <5>1. Native(a) = <<c, "eth">>
          BY <1>7, <4>2, UsableFacts
        <5>2. held'[<<c, "eth">>] >= held[<<c, "eth">>] - Gas
          BY <1>2, <1>4, <3>2, <5>1
        <5> QED BY <1>3, <1>4, <3>3, <5>2
      <4> QED BY <1>2, <4>1, <4>2
    <3>6. Gone(<<c, "usdt">>)'
      <4> SUFFICES ASSUME Usable(a), before[a] > 0, before[Native(a)] > 2 * Gas,
                          a \notin broken'
                   PROVE  a \in swept'
        BY <1>2, <3>1 DEF Gone
      <4>1. Native(a) = <<c, "eth">>
        BY <1>7, UsableFacts
      <4>2. held[a] > 0 /\ held[Native(a)] > Gas
        BY <1>3, <1>4, <3>1, <3>3, <4>1
      <4> QED BY <1>2, <4>2 DEF CanSend
    <3>7. ~(turn' <= 3 * q + 2) /\ ~(turn' > 3 * q + 3)
      BY <1>3, <3>1
    <3> QED BY <1>2, <1>4, <3>3, <3>4, <3>5, <3>6, <3>7 DEF ChainOK
  <2>3. CASE turn = 3 * q + 3
    <3>1. a = <<c, "usdc">> /\ turn' = 3 * q + 4
      BY <1>1, <1>2, <1>3, <2>3, OrderFacts
    <3>2. held[a] >= before[a] /\ held[<<c, "eth">>] >= before[<<c, "eth">>] - Gas
      BY <1>3, <2>3, <3>1 DEF ChainOK
    <3>3. Gone(<<c, "usdc">>)'
      <4> SUFFICES ASSUME Usable(a), before[a] > 0, before[Native(a)] > 2 * Gas,
                          a \notin broken'
                   PROVE  a \in swept'
        BY <1>2, <3>1 DEF Gone
      <4>1. Native(a) = <<c, "eth">>
        BY <1>7, UsableFacts
      <4>2. held[a] > 0 /\ held[Native(a)] > Gas
        BY <1>3, <1>4, <3>1, <3>2, <4>1
      <4> QED BY <1>2, <4>2 DEF CanSend
    <3>4. turn > 3 * q + 2
      BY <1>3, <2>3
    <3>5. Gone(<<c, "usdt">>)'
      BY <1>2, <3>4 DEF ChainOK, Gone
    <3>6. ~(turn' <= 3 * q + 2) /\ ~(turn' <= 3 * q + 3)
      BY <1>3, <3>1
    <3> QED BY <3>3, <3>5, <3>6 DEF ChainOK
  <2>4. CASE turn = 3 * q + 4
    <3>1. turn > 3 * q + 3 /\ turn > 3 * q + 2 /\ turn' >= turn
      BY <1>2, <1>3, <2>4
    <3> QED BY <1>2, <1>3, <3>1, ChainStays
  <2> QED BY <2>1, <2>2, <2>3, <2>4
<1> QED BY <1>3, <1>6, <1>7

LEMMA InitGas == SweepInit => GasInv /\ RealOK
<1>1. SweepInit => SweepTypeOK /\ ~(turn > 0)
  BY InitSweepTypes DEF SweepInit
<1> QED BY <1>1 DEF GasInv, RealOK

LEMMA GasStep == GasInv /\ [SweepNext]_sweepVars => GasInv'
<1> SUFFICES ASSUME GasInv, [SweepNext]_sweepVars PROVE GasInv'
  OBVIOUS
<1>1. SweepTypeOK /\ SweepTypeOK'
  BY SweepTypesStep DEF GasInv
<1>2. turn \in Nat /\ turn' \in Nat /\ Len(Order) \in Nat
  BY <1>1, OrderFacts DEF SweepTypeOK, Saving
<1>3. ASSUME turn' > 0, NEW q \in DOMAIN Chains PROVE ChainOK(q)'
  <2>1. q \in Nat /\ q >= 1 /\ 3 * q + 4 <= Len(Order)
    BY ChainAssets
  <2>2. \A k \in {"usdt", "usdc", "eth"} : /\ <<Chains[q], k>> \in Assets
                                           /\ held[<<Chains[q], k>>] \in Nat
    BY <1>1, ChainAssets, HeldFacts
  <2>3. CASE turn > 0 /\ SweepAsset
    BY <1>1, <2>3, ChainTurn DEF GasInv
  <2>4. CASE BeginSweep
    <3>1. turn' = 1 /\ held' = held /\ before' = held
      BY <2>4 DEF BeginSweep
    <3>2. ~(turn' > 3 * q + 2) /\ ~(turn' > 3 * q + 3) /\ Gas \in Nat
      BY <2>1, <3>1, SweepAssumption
    <3>3. /\ held'[<<Chains[q], "usdt">>] >= before'[<<Chains[q], "usdt">>]
          /\ held'[<<Chains[q], "usdc">>] >= before'[<<Chains[q], "usdc">>]
          /\ held'[<<Chains[q], "eth">>] >= before'[<<Chains[q], "eth">>]
          /\ held'[<<Chains[q], "eth">>] >= before'[<<Chains[q], "eth">>] - Gas
      BY <2>2, <3>1, <3>2
    <3> QED BY <3>2, <3>3 DEF ChainOK
  <2>5. CASE turn > 0 /\ (\/ \E d \in Incoming : Income(d)
                         \/ Play \/ ReadRow \/ UNCHANGED sweepVars)
    <3>1. /\ before' = before /\ swept' = swept /\ broken' = broken
          /\ turn' = turn \/ (turn = Reading /\ turn' = Saving)
      BY <2>5 DEF Income, Play, ReadRow, sweepPast, sweepVars
    <3>2. \A k \in {"usdt", "usdc", "eth"} :
            held'[<<Chains[q], k>>] >= held[<<Chains[q], k>>]
      <4>1. CASE held' = held
        BY <2>2, <4>1
      <4>2. ASSUME NEW d \in Incoming, Income(d), NEW k \in {"usdt", "usdc", "eth"}
            PROVE  held'[<<Chains[q], k>>] >= held[<<Chains[q], k>>]
        <5>1. PICK a \in Assets, n \in Nat : held' = [held EXCEPT ![a] = @ + n]
          BY <4>2, SweepAssumption DEF Income
        <5>2. PICK b \in Assets : b = <<Chains[q], k>>
          BY <2>2
        <5>3. held'[b] = IF b = a THEN held[b] + n ELSE held[b]
          BY <1>1, <5>1 DEF SweepTypeOK
        <5>4. held[b] \in Nat
          BY <2>2, <5>2
        <5>5. held'[b] >= held[b]
          BY <5>3, <5>4
        <5> QED BY <5>2, <5>5
      <4>3. Play \/ ReadRow \/ UNCHANGED sweepVars => held' = held
        BY DEF Play, ReadRow, sweepVars
      <4> QED BY <2>5, <4>1, <4>2, <4>3
    <3>3. /\ turn' >= turn
          /\ turn' > 3 * q + 2 => turn > 3 * q + 2
          /\ turn' > 3 * q + 3 => turn > 3 * q + 3
      BY <1>2, <2>1, <3>1 DEF Reading, Saving
    <3>4. ChainOK(q)
      BY <2>5 DEF GasInv
    <3> QED BY <1>1, <1>2, <3>1, <3>2, <3>3, <3>4, ChainStays
  <2>6. ~SaveRow /\ ~Abort
    BY <1>2, <1>3 DEF SaveRow, Abort, EndSweep
  <2>7. turn > 0 \/ BeginSweep
    <3>1. ASSUME ~(turn > 0), ~BeginSweep PROVE turn' = turn
      <4>1. ~SweepAsset /\ ~ReadRow
        BY <1>2, <3>1, OrderFacts DEF SweepAsset, ReadRow, Reading
      <4> QED BY <2>6, <3>1, <4>1 DEF SweepNext, Income, Play, sweepVars
    <3> QED BY <1>2, <1>3, <3>1
  <2> QED BY <2>3, <2>4, <2>5, <2>6, <2>7 DEF SweepNext
<1> QED BY <1>1, <1>3 DEF GasInv

LEMMA GasGivesTokens == GasInv => TokensBeforeGas
<1> SUFFICES ASSUME GasInv, turn >= Reading, NEW a \in Assets,
                    Usable(a), a[2] \in {"usdt", "usdc"}
             PROVE  Gone(a)
  BY DEF TokensBeforeGas, Gone
<1>1. PICK i \in DOMAIN Order : a = Order[i]
  BY AssetFacts
<1>2. a[1] \notin {"bitcoin", "solana"}
  BY UsableFacts
<1>3. PICK q \in DOMAIN Chains : i \in {3 * q + 2, 3 * q + 3, 3 * q + 4}
  BY <1>1, <1>2, OrderFacts
<1>4. a = <<Chains[q], "usdt">> \/ a = <<Chains[q], "usdc">>
  BY <1>1, <1>3, OrderFacts
<1>5. turn \in Nat /\ q \in Nat /\ 3 * q + 4 <= Len(Order) /\ Len(Order) \in Nat
  <2>1. turn \in 0 .. Saving
    BY DEF GasInv, SweepTypeOK
  <2>2. turn \in Nat /\ Len(Order) \in Nat
    BY <2>1, OrderFacts DEF Saving
  <2>3. q \in Nat /\ 3 * q + 4 <= Len(Order)
    BY ChainAssets
  <2> QED BY <2>2, <2>3
<1>6. turn > 0 /\ turn > 3 * q + 2 /\ turn > 3 * q + 3
  BY <1>5 DEF Reading
<1> QED BY <1>4, <1>6 DEF GasInv, ChainOK

-----------------------------------------------------------------------------
(* What holds of every account, for any requests                           *)

AccountInv == PasswordInv /\ TokenInv /\ AloneInv

LEMMA AccountInvariant == AccountSpec => []AccountInv
<1>1. AccountInit => AccountInv
  BY InitPasswords, InitTokens, InitAlone DEF AccountInv
<1>2. AccountInv /\ [AccountNext]_accountVars => AccountInv'
  BY PasswordsKept, TokensKept, AloneKept DEF AccountInv
<1> QED BY <1>1, <1>2, PTL DEF AccountSpec

LEMMA AccountInvGives ==
  ASSUME AccountInv
  PROVE  /\ AccountTypeOK /\ PasswordHashedOnce /\ TokenResetsOnce
         /\ LastMailVerifies /\ AdjustmentsRecorded
<1>1. AccountTypeOK /\ PasswordHashedOnce
  BY DEF AccountInv, PasswordInv, AccTypes, HashesOK, PasswordHashedOnce
<1>2. TokenResetsOnce
  <2> SUFFICES ASSUME NEW t \in Tokens, resets[t] > 1, t \notin shared PROVE FALSE
    BY DEF TokenResetsOnce
  <2>1. resets[t] <= 1 /\ resets[t] \in Nat
    BY DEF AccountInv, TokenInv, TokenOK, AccTypes, AccountTypeOK
  <2> QED BY <2>1
<1>3. LastMailVerifies
  BY DEF AccountInv, AloneInv, AloneOK, MailsOK, LastMailVerifies, InFlight, Over
<1>4. AdjustmentsRecorded
  <2>1. \A c \in Calls : pc[c] = "record" => c.kind = "adjust" /\ InFlight(c)
    BY DEF AccountInv, AloneInv, AccTypes, KindsOK, InFlight, Over
  <2> QED BY <2>1 DEF AccountInv, AloneInv, AloneOK, BooksOK, AdjustmentsRecorded
<1> QED BY <1>1, <1>2, <1>3, <1>4

\* Whichever saves cross, the password is hashed once when it is stored, for any
\* number of calls on the row.
THEOREM HashedOnce == AccountSpec => []PasswordHashedOnce
<1>1. AccountInv => PasswordHashedOnce
  BY AccountInvGives
<1> QED BY <1>1, AccountInvariant, PTL

\* A token changes the password once unless two resets came with it at once, for
\* any calls and tokens.
THEOREM TokensResetOnce == AccountSpec => []TokenResetsOnce
<1>1. AccountInv => TokenResetsOnce
  BY AccountInvGives
<1> QED BY <1>1, AccountInvariant, PTL

-----------------------------------------------------------------------------
(* The three parts side by side, as they are checked                       *)

SweepInv == GasInv /\ RealOK
AllInv == RegInv /\ AccountInv /\ SweepInv

LEMMA SweepInvStep == SweepInv /\ [SweepNext]_sweepVars => SweepInv'
  BY GasStep, RealStep DEF SweepInv, GasInv

\* A step of one part is a step of it and leaves the others alone.
LEMMA PartStep ==
  ASSUME [Next]_vars
  PROVE  /\ [RegistrationNext]_registrationVars
         /\ [AccountNext]_accountVars /\ [SweepNext]_sweepVars
  BY DEF Next, vars

LEMMA AllInvariant == Spec => []AllInv
<1>1. Init => AllInv
  BY InitRegInv, InitPasswords, InitTokens, InitAlone, InitGas
  DEF Init, AllInv, AccountInv, SweepInv
<1>2. AllInv /\ [Next]_vars => AllInv'
  <2> SUFFICES ASSUME AllInv, [Next]_vars PROVE AllInv'
    OBVIOUS
  <2>1. /\ [RegistrationNext]_registrationVars
        /\ [AccountNext]_accountVars /\ [SweepNext]_sweepVars
    BY PartStep
  <2>2. RegInv'
    BY <2>1, RegStep DEF AllInv
  <2>3. AccountInv'
    BY <2>1, PasswordsKept, TokensKept, AloneKept DEF AllInv, AccountInv
  <2>4. SweepInv'
    BY <2>1, SweepInvStep DEF AllInv
  <2> QED BY <2>2, <2>3, <2>4 DEF AllInv
<1> QED BY <1>1, <1>2, PTL DEF Spec

\* Every variable of the three parts keeps its type, for any requests, calls,
\* tokens, chains and deposits.
THEOREM TypesCorrect == Spec => []TypesOK
<1>1. AllInv => TypesOK
  BY AccountInvGives DEF AllInv, RegInv, SweepInv, GasInv, TypesOK
<1> QED BY <1>1, AllInvariant, PTL

\* However calls cross, the password is hashed once and a token resets it once;
\* unless they cross the last mail has the code and the balance is what is on
\* record; and a sweep does not leave a token behind for the want of gas that was
\* there.  For any requests, calls, tokens, chains and deposits.
THEOREM AccountsAreSafe == Spec => []AccountsSafe
<1>1. AllInv => AccountsSafe
  BY AccountInvGives, GasGivesTokens DEF AllInv, SweepInv, AccountsSafe
<1> QED BY <1>1, AllInvariant, PTL

UndoneHere == acct'.password # acct.password =>
                \E c \in Calls : /\ pc[c] = "update" /\ pc'[c] # "update"
                                 /\ c.kind = "reset" \/ c \in behind
VerifiedHere == acct.verified /\ ~acct'.verified => overlapped

\* A save undoes a password only with a copy that was older than the password, and
\* a verification only if calls crossed, for any number of calls.
THEOREM OlderUndoes == Spec => OnlyOlderUndoes
<1>1. AllInv /\ [Next]_vars => [UndoneHere]_accountVars /\ [VerifiedHere]_accountVars
  <2> SUFFICES ASSUME AllInv, [Next]_vars PROVE UndoneHere /\ VerifiedHere
    OBVIOUS
  <2>1. [AccountNext]_accountVars /\ AccTypes'
    BY PartStep, TypesStep DEF AllInv, AccountInv, PasswordInv
  <2> QED BY <2>1, UndoneStep, VerifiedStep
          DEF AllInv, AccountInv, UndoneHere, VerifiedHere
<1> QED BY <1>1, AllInvariant, PTL
        DEF Spec, OnlyOlderUndoes, UndoneByOlder, StaysVerified, UndoneHere, VerifiedHere

EvmHere == \A a \in Assets : a[1] \in {"bitcoin", "solana"} => held'[a] >= held[a]
RealHere == turn = Saving /\ turn' = 0 /\ book'["real"] # book["real"] => played

\* No sweep moves a coin of Bitcoin or Solana, and the save of a sweep changes the
\* USD balance only after a play, for any chains, prices of gas and deposits.
THEOREM SweepsKeep == Spec => SweepSteps
<1>1. AllInv /\ [Next]_vars => [EvmHere]_sweepVars /\ [RealHere]_sweepVars
  <2> SUFFICES ASSUME AllInv, [Next]_vars PROVE EvmHere /\ RealHere
    OBVIOUS
  <2>1. [SweepNext]_sweepVars /\ SweepTypeOK /\ RealOK
    BY PartStep DEF AllInv, SweepInv, GasInv
  <2> QED BY <2>1, EvmStep, RealStep DEF EvmHere, RealHere
<1> QED BY <1>1, AllInvariant, PTL
        DEF Spec, SweepSteps, OnlyEvmMoves, RealOnlyPutBack, EvmHere, RealHere
=============================================================================
