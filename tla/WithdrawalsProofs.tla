-------------------------- MODULE WithdrawalsProofs --------------------------
(***************************************************************************)
(* The properties of Withdrawals for any number of users, requests,        *)
(* workers, attempts and stalls.  WInv has three parts: what a request's   *)
(* transaction knows (Copies, Created), what the queue and its workers     *)
(* know of a job (Jobs, Working), and how far a withdrawal has come that   *)
(* met no stall, administrator or failed save: its job is in one worker's  *)
(* hands, once sent it is failed before it is retried (Undisturbed), and   *)
(* its job ends with an outcome in the row unless a worker was faster than *)
(* the commit (Answered).                                                  *)
(***************************************************************************)
EXTENDS Withdrawals, SumProofs, TLAPS

\* A request's copy of its user's balances never shows a debt.
Copies == \A q \in Requests, k \in Tokens : copy[q].token[k] >= 0

\* The row is there exactly when the transaction has committed, and the job
\* is not there before it is added.
Created ==
  \A q \in Requests :
    /\ row[q] # None <=> cpc[q] = "done"
    /\ cpc[q] \in {"new", "locked", "saved"} => jstate[q] = "none"

\* A job that may still run has attempts left, and only active jobs are owned.
Jobs ==
  \A q \in Requests :
    /\ jstate[q] \notin {"completed", "failed"} => made[q] < Attempts
    /\ owner[q] # None => jstate[q] = "active"

\* A worker that sends or saves has found the row.
Working ==
  \A w \in Workers :
    /\ wpc[w] = "idle" <=> wjob[w] = None
    /\ wpc[w] \in {"send", "wait", "save", "catch"} => row[wjob[w]] # None

\* An attempt that reads the row now sends nothing twice.
Fresh(q) == sent[q] = 0 \/ row[q] = "failed"

Undisturbed ==
  \A q \in Requests \ touched :
    /\ sent[q] <= 1
    /\ row[q] = "completed" => sent[q] = 1
    /\ jstate[q] \in {"none", "waiting"} => Fresh(q)
    /\ \A w \in Workers : wjob[w] = q =>
         /\ owner[q] = w
         /\ wpc[w] \in {"read", "throw"} => Fresh(q)
         /\ wpc[w] = "send" => sent[q] = 0
         /\ wpc[w] \in {"wait", "save"} => sent[q] = 1

Settled(q) == row[q] \in {"completed", "failed"}

Answered ==
  \A q \in Requests \ (touched \cup missed) :
    /\ jstate[q] = "completed" => Settled(q)
    /\ \A w \in Workers : wjob[w] = q /\ wpc[w] = "return" => Settled(q)

WInv == /\ TypeOK /\ NoOverdraft /\ Copies /\ Created
        /\ Jobs /\ Working /\ OnlyCommittedIsSent /\ Undisturbed /\ Answered

LEMMA RequestFacts ==
  ASSUME NEW q \in Requests
  PROVE  /\ q.user \in Users /\ q.token \in Tokens
         /\ Total(q) \in Nat /\ q # None
  BY WithdrawalAssumption DEF RequestType, Total

LEMMA InitWInv == Init => WInv
<1> SUFFICES ASSUME Init PROVE WInv
  OBVIOUS
<1> USE DEF Init
<1>1. TypeOK
  BY WithdrawalAssumption DEF TypeOK, UserCopy, NoCopy
<1>2. NoOverdraft /\ Copies
  BY WithdrawalAssumption DEF NoOverdraft, Copies, NoCopy
<1>3. Created /\ Working
  BY DEF Created, Working
<1>4. Jobs
  BY WithdrawalAssumption DEF Jobs
<1>5. OnlyCommittedIsSent
  BY DEF OnlyCommittedIsSent
<1>6. Undisturbed
  <2>1. /\ \A q \in Requests : sent[q] = 0 /\ row[q] # "completed"
        /\ \A w \in Workers : wjob[w] \notin Requests
    BY WithdrawalAssumption DEF Statuses
  <2> QED BY <2>1 DEF Undisturbed, Fresh
<1>7. Answered
  BY WithdrawalAssumption DEF Answered
<1> QED BY <1>1, <1>2, <1>3, <1>4, <1>5, <1>6, <1>7 DEF WInv

-----------------------------------------------------------------------------
(* createWithdrawal                                                        *)

\* What a request's transaction may do before its commit: its own place and
\* copy, its user's lock and, from "saved", its job.
Prepares(q) ==
  /\ cpc[q] # "done"
  /\ \E l \in {"locked", "saved", "queued", "refused"} :
       cpc' = [cpc EXCEPT ![q] = l]
  /\ copy' \in [Requests -> UserCopy]
  /\ Copies'
  /\ lock' \in [Users -> Requests \cup {None}]
  /\ \/ UNCHANGED jstate /\ (cpc'[q] = "queued" => cpc[q] = "queued")
        /\ (cpc'[q] \in {"locked", "saved"} => cpc[q] \in {"new", "locked"})
     \/ /\ cpc[q] = "saved" /\ cpc'[q] = "queued"
        /\ jstate' = [jstate EXCEPT ![q] = "waiting"]
  /\ UNCHANGED <<token, usd, row, made, stalls, owner, workerVars, sent,
                 touched>>

LEMMA PrepareSteps ==
  ASSUME WInv, NEW q \in Requests,
         RefuseInvalid(q) \/ LockUser(q) \/ Abort(q) \/ Deduct(q) \/ AddJob(q)
  PROVE  Prepares(q)
<1> USE DEF userVars, queueVars
<1>1. RefuseInvalid(q) => Prepares(q)
  BY DEF RefuseInvalid, Prepares, WInv, TypeOK, Copies
<1>2. ASSUME LockUser(q) PROVE Prepares(q)
  <2> DEFINE new == [token |-> token[q.user], usd |-> usd[q.user]]
  <2>1. new \in UserCopy /\ \A k \in Tokens : new.token[k] >= 0
    BY RequestFacts DEF WInv, TypeOK, NoOverdraft, UserCopy
  <2>2. copy' = [copy EXCEPT ![q] = new]
    BY <1>2 DEF LockUser
  <2> HIDE DEF new
  <2>3. copy' \in [Requests -> UserCopy] /\ Copies'
    BY <2>1, <2>2 DEF WInv, TypeOK, Copies
  <2> QED BY <1>2, <2>3, RequestFacts DEF LockUser, Prepares, WInv, TypeOK
<1>3. ASSUME Abort(q) PROVE Prepares(q)
  <2>1. copy' \in [Requests -> UserCopy] /\ Copies'
    BY <1>3 DEF Abort, EndTransaction, WInv, TypeOK, Copies, UserCopy, NoCopy
  <2> QED BY <1>3, <2>1, RequestFacts
          DEF Abort, EndTransaction, Prepares, WInv, TypeOK
<1>4. ASSUME Deduct(q) PROVE Prepares(q)
  <2> DEFINE left == copy[q].token[q.token] - Total(q)
             new == [token |-> [copy[q].token EXCEPT ![q.token] = left],
                     usd |-> left]
  <2>1. copy[q] \in UserCopy /\ left \in Int /\ left >= 0
    BY <1>4, RequestFacts DEF Deduct, WInv, TypeOK, UserCopy
  <2>2. copy' = [copy EXCEPT ![q] = new]
    <3> DEFINE t == [copy[q].token EXCEPT ![q.token] = left]
               mid == [copy[q] EXCEPT !.token = t]
    <3>1. copy' = [copy EXCEPT ![q] = [mid EXCEPT !.usd = left]]
      BY <1>4, <2>1 DEF Deduct, WInv, TypeOK
    <3>2. new = [token |-> t, usd |-> left]
      OBVIOUS
    <3> HIDE DEF t, left, new
    <3>3. mid = [token |-> t, usd |-> copy[q].usd]
      BY <2>1 DEF UserCopy
    <3> HIDE DEF mid
    <3>4. [mid EXCEPT !.usd = left] = [token |-> t, usd |-> left]
      BY <3>3
    <3> QED BY <3>1, <3>2, <3>4
  <2>3. new \in UserCopy /\ \A k \in Tokens : new.token[k] >= 0
    <3>1. copy[q].token \in [Tokens -> Int] /\ q.token \in Tokens
      BY <2>1, RequestFacts DEF UserCopy
    <3>2. \A k \in Tokens : copy[q].token[k] >= 0
      BY DEF WInv, Copies
    <3> HIDE DEF left
    <3> QED BY <2>1, <3>1, <3>2 DEF UserCopy
  <2> HIDE DEF left, new
  <2>4. copy' \in [Requests -> UserCopy] /\ Copies'
    BY <2>2, <2>3 DEF WInv, TypeOK, Copies
  <2> QED BY <1>4, <2>4 DEF Deduct, Prepares, WInv, TypeOK
<1>5. AddJob(q) => Prepares(q)
  BY DEF AddJob, Prepares, WInv, TypeOK, Copies
<1> QED BY <1>1, <1>2, <1>3, <1>4, <1>5

LEMMA PreparesKeeps ==
  ASSUME WInv, NEW q \in Requests, Prepares(q)
  PROVE  WInv'
<1> USE DEF WInv, Prepares, workerVars
<1>1. PICK l \in {"locked", "saved", "queued", "refused"} :
        cpc' = [cpc EXCEPT ![q] = l]
  OBVIOUS
<1>2. /\ cpc'[q] = l /\ \A p \in Requests \ {q} : cpc'[p] = cpc[p]
      /\ \A p \in Requests \ {q} : jstate'[p] = jstate[p]
  BY <1>1 DEF TypeOK
<1>3. jstate'[q] = jstate[q] \/ (jstate[q] = "none" /\ jstate'[q] = "waiting")
  BY DEF TypeOK, Created
<1>4. TypeOK'
  BY <1>1 DEF TypeOK
<1>5. Created'
  BY <1>1, <1>2 DEF TypeOK, Created
<1>6. Jobs'
  BY <1>2, <1>3 DEF Jobs
<1>7. (NoOverdraft /\ Copies /\ Working)'
  BY DEF NoOverdraft, Working
<1>8. OnlyCommittedIsSent'
  BY <1>2 DEF OnlyCommittedIsSent
<1>9. Undisturbed'
  BY <1>2, <1>3 DEF Undisturbed, Fresh
<1>10. Answered'
  BY <1>2, <1>3 DEF Answered, Settled
<1> QED BY <1>4, <1>5, <1>6, <1>7, <1>8, <1>9, <1>10

LEMMA CommitKeeps ==
  ASSUME WInv, NEW q \in Requests, Commit(q)
  PROVE  WInv'
<1> USE DEF WInv, Commit, EndTransaction, queueVars, workerVars
<1>1. /\ q.user \in Users
      /\ copy[q] \in UserCopy
      /\ \A k \in Tokens : copy[q].token[k] >= 0
      /\ copy[q].token \in [Tokens -> Int] /\ copy[q].usd \in Int
  BY RequestFacts DEF TypeOK, UserCopy, Copies
<1>2. /\ cpc'[q] = "done" /\ row'[q] = "pending"
      /\ \A p \in Requests \ {q} : cpc'[p] = cpc[p] /\ row'[p] = row[p]
      /\ cpc[q] = "queued" /\ row[q] = None
  BY DEF TypeOK, Created
<1>3. sent[q] = 0
  BY <1>2 DEF TypeOK, OnlyCommittedIsSent
<1>4. NoCopy \in UserCopy /\ \A k \in Tokens : NoCopy.token[k] = 0
  BY DEF NoCopy, UserCopy
<1>5. TypeOK'
  <2>1. token' \in [Users -> [Tokens -> Int]] /\ usd' \in [Users -> Int]
    BY <1>1 DEF TypeOK
  <2>2. copy' \in [Requests -> UserCopy]
    BY <1>4 DEF TypeOK
  <2> QED BY <1>2, <2>1, <2>2 DEF TypeOK, Statuses
<1>6. (NoOverdraft /\ Copies)'
  <2>1. NoOverdraft'
    BY <1>1 DEF NoOverdraft, TypeOK
  <2>2. Copies'
    BY <1>4 DEF Copies, TypeOK
  <2> QED BY <2>1, <2>2
<1>7. (Created /\ Jobs)'
  BY <1>2, WithdrawalAssumption DEF Created, Jobs, Statuses
<1>8. Working'
  BY <1>2, WithdrawalAssumption DEF Working, TypeOK
<1>9. (OnlyCommittedIsSent /\ Undisturbed)'
  BY <1>2, <1>3 DEF OnlyCommittedIsSent, Undisturbed, Fresh
<1>10. Answered'
  <2>1. ~Settled(q)
    BY <1>2, WithdrawalAssumption DEF Settled, Statuses
  <2> QED BY <1>2, <2>1 DEF Answered, Settled
<1> QED BY <1>5, <1>6, <1>7, <1>8, <1>9, <1>10

-----------------------------------------------------------------------------
(* WithdrawalProcessor                                                     *)

LEMMA TakeKeeps ==
  ASSUME WInv, NEW w \in Workers, NEW q \in Requests, Take(w, q)
  PROVE  WInv'
<1> USE DEF WInv, Take, userVars
<1>1. /\ wpc'[w] = "read" /\ wjob'[w] = q
      /\ \A v \in Workers \ {w} : wpc'[v] = wpc[v] /\ wjob'[v] = wjob[v]
      /\ jstate[q] = "waiting" /\ jstate'[q] = "active" /\ owner'[q] = w
      /\ \A p \in Requests \ {q} : jstate'[p] = jstate[p] /\ owner'[p] = owner[p]
  BY DEF TypeOK
<1>2. TypeOK'
  BY DEF TypeOK
<1>3. (NoOverdraft /\ Copies /\ OnlyCommittedIsSent)'
  BY DEF NoOverdraft, Copies, OnlyCommittedIsSent
<1>4. (Created /\ Jobs)'
  BY <1>1 DEF Created, Jobs
<1>5. Working'
  BY <1>1, WithdrawalAssumption DEF Working
<1>6. Undisturbed'
  <2>1. \A v \in Workers : wjob[v] = q => q \in touched
    BY <1>1, WithdrawalAssumption DEF Undisturbed, Jobs
  <2>2. q \notin touched => Fresh(q)
    BY <1>1 DEF Undisturbed
  <2> QED BY <1>1, <2>1, <2>2 DEF Undisturbed, Fresh
<1>7. Answered'
  BY <1>1 DEF Answered, Settled
<1> QED BY <1>2, <1>3, <1>4, <1>5, <1>6, <1>7

\* A step inside an attempt: place l, status x of the row, y transfers.
Goes(w, l, x, y) ==
  LET q == wjob[w] IN
  /\ q \in Requests /\ wpc[w] # "idle"
  /\ l \in {"read", "send", "wait", "save", "catch", "throw", "return"}
  /\ wpc' = [wpc EXCEPT ![w] = l]
  /\ x \in Statuses \cup {None} /\ row' = [row EXCEPT ![q] = x]
  /\ x = None <=> row[q] = None
  /\ y \in Nat /\ sent' = [sent EXCEPT ![q] = y]
  /\ (l \in {"send", "wait", "save", "catch"} \/ y > 0) => x # None
  /\ touched' \in {touched, touched \cup {q}}
  /\ q \notin touched' =>
       /\ y <= 1
       /\ (x = "completed" \/ l \in {"wait", "save"}) => y = 1
       /\ l = "send" => y = 0
       /\ l \in {"read", "throw"} => (y = 0 \/ x = "failed")
  /\ missed' \in {missed, missed \cup {q}}
  /\ q \notin touched' \cup missed' /\ l = "return"
       => x \in {"completed", "failed"}
  /\ UNCHANGED <<userVars, cpc, queueVars, wjob>>

LEMMA GoesKeeps ==
  ASSUME WInv, NEW w \in Workers, NEW l, NEW x, NEW y, Goes(w, l, x, y)
  PROVE  WInv'
<1> DEFINE q == wjob[w]
<1> USE DEF WInv, Goes, userVars, queueVars
<1>1. /\ q \in Requests
      /\ wpc'[w] = l /\ \A v \in Workers \ {w} : wpc'[v] = wpc[v]
      /\ row'[q] = x /\ sent'[q] = y
      /\ \A p \in Requests \ {q} : row'[p] = row[p] /\ sent'[p] = sent[p]
      /\ \A p \in Requests : row'[p] = None <=> row[p] = None
  BY DEF TypeOK
<1>2. TypeOK'
  BY DEF TypeOK
<1>3. (NoOverdraft /\ Copies)'
  BY DEF NoOverdraft, Copies
<1>4. (Created /\ Jobs)'
  BY <1>1 DEF Created, Jobs
<1>5. Working'
  <2>1. \A v \in Workers : wpc'[v] = "idle" <=> wjob'[v] = None
    BY <1>1, WithdrawalAssumption DEF Working
  <2>2. ASSUME NEW v \in Workers, wpc'[v] \in {"send", "wait", "save", "catch"}
        PROVE  row'[wjob'[v]] # None
    <3>1. wjob[v] \in Requests
      BY <2>1, <2>2 DEF TypeOK
    <3> QED BY <1>1, <2>2, <3>1 DEF Working
  <2> QED BY <2>1, <2>2 DEF Working
<1>6. OnlyCommittedIsSent'
  BY <1>1 DEF OnlyCommittedIsSent, Created
<1>7. Undisturbed'
  <2>1. ASSUME NEW p \in Requests \ touched', p # q
        PROVE  /\ sent'[p] = sent[p] /\ row'[p] = row[p] /\ p \notin touched
               /\ \A v \in Workers : wjob[v] = p => wpc'[v] = wpc[v]
    BY <1>1, <2>1
  <2>2. ASSUME q \notin touched'
        PROVE  /\ \A v \in Workers : wjob[v] = q => v = w
               /\ owner[q] = w /\ jstate[q] = "active"
    BY <1>1, <2>2, WithdrawalAssumption DEF Undisturbed, Jobs
  <2> QED BY <1>1, <2>1, <2>2 DEF Undisturbed, Fresh
<1>8. Answered'
  <2>1. ASSUME NEW p \in Requests \ (touched' \cup missed'), p # q
        PROVE  /\ row'[p] = row[p] /\ p \notin touched \cup missed
               /\ \A v \in Workers : wjob[v] = p => wpc'[v] = wpc[v]
    BY <1>1, <2>1
  <2>2. ASSUME q \notin touched'
        PROVE  /\ \A v \in Workers : wjob[v] = q => v = w
               /\ jstate[q] = "active"
    BY <1>1, <2>2, WithdrawalAssumption DEF Undisturbed, Jobs
  <2> QED BY <1>1, <2>1, <2>2 DEF Answered, Settled
<1> QED BY <1>2, <1>3, <1>4, <1>5, <1>6, <1>7, <1>8

LEMMA WorkSteps ==
  ASSUME WInv, NEW w \in Workers,
         \/ Read(w) \/ ReadThrows(w) \/ Send(w) \/ Confirmed(w)
         \/ SendThrows(w) \/ SaveCompleted(w) \/ SaveFailed(w) \/ SaveThrows(w)
  PROVE  WInv'
<1> DEFINE q == wjob[w]
<1>1. /\ q \in Requests /\ wpc[w] # "idle"
      /\ row[q] \in Statuses \cup {None} /\ sent[q] \in Nat
      /\ wpc[w] \in {"send", "wait", "save", "catch"} => row[q] # None
      /\ sent[q] > 0 => row[q] # None
      /\ row = [row EXCEPT ![q] = row[q]] /\ sent = [sent EXCEPT ![q] = sent[q]]
  <2>1. wpc[w] # "idle"
    BY DEF Read, ReadThrows, Send, Confirmed, SendThrows, SaveCompleted,
           SaveFailed, SaveThrows, Save
  <2>2. q \in Requests
    BY <2>1 DEF WInv, TypeOK, Working
  <2> QED BY <2>1, <2>2 DEF WInv, TypeOK, Working, OnlyCommittedIsSent, Created
<1>2. q \notin touched =>
        /\ sent[q] <= 1 /\ (row[q] = "completed" => sent[q] = 1)
        /\ wpc[w] \in {"read", "throw"} => Fresh(q)
        /\ wpc[w] = "send" => sent[q] = 0
        /\ wpc[w] \in {"wait", "save"} => sent[q] = 1
  BY <1>1 DEF WInv, Undisturbed
<1> USE DEF Goto
<1>3. ASSUME Read(w) PROVE WInv'
  <2>1. PICK l \in {"return", "send"} :
          /\ wpc' = [wpc EXCEPT ![w] = l]
          /\ l = "send" <=> row[q] \notin {None, "completed", "failed"}
    BY <1>3 DEF Read
  <2>2. Goes(w, l, row[q], sent[q])
    BY <1>1, <1>2, <1>3, <2>1 DEF Read, FindRow, Goes, Fresh
  <2> QED BY <2>2, GoesKeeps
<1>4. ASSUME ReadThrows(w) PROVE WInv'
  <2>1. Goes(w, "throw", row[q], sent[q])
    BY <1>1, <1>2, <1>4 DEF ReadThrows, Goes, Fresh
  <2> QED BY <2>1, GoesKeeps
<1>5. ASSUME Send(w) PROVE WInv'
  <2>1. Goes(w, "wait", row[q], sent[q] + 1)
    BY <1>1, <1>2, <1>5 DEF Send, Goes
  <2> QED BY <2>1, GoesKeeps
<1>6. ASSUME Confirmed(w) PROVE WInv'
  <2>1. Goes(w, "save", row[q], sent[q])
    BY <1>1, <1>2, <1>6 DEF Confirmed, Goes
  <2> QED BY <2>1, GoesKeeps
<1>7. ASSUME SendThrows(w) PROVE WInv'
  <2>1. Goes(w, "catch", row[q], sent[q])
    BY <1>1, <1>2, <1>7 DEF SendThrows, Goes
  <2> QED BY <2>1, GoesKeeps
<1>8. ASSUME SaveCompleted(w) PROVE WInv'
  <2>1. Goes(w, "return", "completed", sent[q])
    BY <1>1, <1>2, <1>8, WithdrawalAssumption
       DEF SaveCompleted, Save, Goes, Statuses
  <2> QED BY <2>1, GoesKeeps
<1>9. ASSUME SaveFailed(w) PROVE WInv'
  <2>1. Goes(w, "throw", "failed", sent[q])
    BY <1>1, <1>2, <1>9, WithdrawalAssumption
       DEF SaveFailed, Save, Goes, Statuses
  <2> QED BY <2>1, GoesKeeps
<1>10. ASSUME SaveThrows(w) PROVE WInv'
  <2>1. PICK l \in {"catch", "throw"} : wpc' = [wpc EXCEPT ![w] = l]
    BY <1>10 DEF SaveThrows
  <2>2. Goes(w, l, row[q], sent[q])
    BY <1>1, <1>10, <2>1 DEF SaveThrows, Goes
  <2> QED BY <2>2, GoesKeeps
<1> QED BY <1>3, <1>4, <1>5, <1>6, <1>7, <1>8, <1>9, <1>10

LEMMA EndJobKeeps ==
  ASSUME WInv, NEW w \in Workers, NEW s \in {"waiting", "completed", "failed"},
         NEW m \in Int, EndJob(w, s, m), wpc[w] \in {"throw", "return"},
         owner[wjob[w]] = w => m \in 0..Attempts,
         s = "waiting" => m < Attempts /\ wpc[w] = "throw",
         s = "completed" => wpc[w] = "return"
  PROVE  WInv'
<1> DEFINE q == wjob[w]
<1> USE DEF WInv, EndJob, userVars
<1>1. /\ q \in Requests
      /\ wpc'[w] = "idle" /\ wjob'[w] = None
      /\ \A v \in Workers \ {w} : wpc'[v] = wpc[v] /\ wjob'[v] = wjob[v]
      /\ \A p \in Requests \ {q} :
           jstate'[p] = jstate[p] /\ owner'[p] = owner[p] /\ made'[p] = made[p]
      /\ \/ UNCHANGED <<jstate, made, owner>>
         \/ /\ owner[q] = w /\ jstate[q] = "active"
            /\ jstate'[q] = s /\ made'[q] = m /\ owner'[q] = None
  BY WithdrawalAssumption DEF TypeOK, Working, Jobs
<1>2. TypeOK'
  <2>1. /\ made' \in [Requests -> 0..Attempts]
        /\ jstate' \in [Requests -> {"none", "waiting", "active", "completed",
                                    "failed"}]
        /\ owner' \in [Requests -> Workers \cup {None}]
    <3>1. CASE owner[q] = w
      BY <1>1, <3>1 DEF TypeOK
    <3>2. CASE owner[q] # w
      BY <3>2 DEF TypeOK
    <3> QED BY <3>1, <3>2
  <2> QED BY <2>1 DEF TypeOK
<1>3. (NoOverdraft /\ Copies /\ OnlyCommittedIsSent)'
  BY DEF NoOverdraft, Copies, OnlyCommittedIsSent
<1>4. Created'
  BY <1>1 DEF Created
<1>5. Jobs'
  BY <1>1 DEF Jobs
<1>6. Working'
  BY <1>1 DEF Working
<1>7. Undisturbed'
  <2>1. q \notin touched =>
          /\ \A v \in Workers : wjob[v] = q => v = w
          /\ wpc[w] = "throw" => Fresh(q)
    BY <1>1 DEF Undisturbed
  <2> QED BY <1>1, <2>1, WithdrawalAssumption DEF Undisturbed, Fresh
<1>8. Answered'
  BY <1>1, WithdrawalAssumption DEF Answered, Settled
<1> QED BY <1>2, <1>3, <1>4, <1>5, <1>6, <1>7, <1>8

LEMMA EndSteps ==
  ASSUME WInv, NEW w \in Workers, Return(w) \/ Rethrow(w)
  PROVE  WInv'
<1>1. wjob[w] \in Requests /\ made[wjob[w]] \in 0..Attempts
  BY DEF WInv, TypeOK, Working, Return, Rethrow
<1>2. CASE Return(w)
  BY <1>1, <1>2, EndJobKeeps DEF Return
<1>3. CASE Rethrow(w)
  <2> DEFINE m == made[wjob[w]] + 1
             s == IF m < Attempts THEN "waiting" ELSE "failed"
  <2>1. owner[wjob[w]] = w => m \in 0..Attempts
    BY <1>1, WithdrawalAssumption DEF WInv, Jobs
  <2>2. EndJob(w, s, m) /\ wpc[w] = "throw"
    BY <1>3 DEF Rethrow
  <2>3. /\ s \in {"waiting", "failed"} /\ (s = "waiting" => m < Attempts)
        /\ m \in Int
    BY <1>1
  <2> HIDE DEF m, s
  <2> QED BY <2>1, <2>2, <2>3, EndJobKeeps
<1> QED BY <1>2, <1>3

LEMMA CrashKeeps ==
  ASSUME WInv, NEW w \in Workers, Crash(w)
  PROVE  WInv'
<1> USE DEF WInv, Crash, userVars
<1>1. /\ wpc'[w] = "idle" /\ wjob'[w] = None
      /\ \A v \in Workers \ {w} : wpc'[v] = wpc[v] /\ wjob'[v] = wjob[v]
      /\ \A q \in Requests : owner'[q] = IF owner[q] = w THEN None ELSE owner[q]
  BY DEF TypeOK
<1>2. TypeOK'
  BY DEF TypeOK
<1>3. (NoOverdraft /\ Copies /\ OnlyCommittedIsSent /\ Created)'
  BY DEF NoOverdraft, Copies, OnlyCommittedIsSent, Created
<1>4. (Jobs /\ Working)'
  BY <1>1 DEF Jobs, Working
<1>5. Undisturbed'
  BY <1>1, WithdrawalAssumption DEF Undisturbed, Fresh
<1>6. Answered'
  BY <1>1, WithdrawalAssumption DEF Answered, Settled
<1> QED BY <1>2, <1>3, <1>4, <1>5, <1>6

-----------------------------------------------------------------------------
(* The stalled-job check and the administrator                             *)

LEMMA StallKeeps ==
  ASSUME WInv, NEW q \in Requests, Stall(q)
  PROVE  WInv'
<1> USE DEF WInv, Stall, userVars, workerVars
<1>1. /\ jstate[q] = "active" /\ jstate'[q] \in {"waiting", "failed"}
      /\ owner'[q] = None /\ touched' = touched \cup {q}
      /\ \A p \in Requests \ {q} : jstate'[p] = jstate[p] /\ owner'[p] = owner[p]
  BY DEF TypeOK
<1>2. TypeOK'
  <2>1. stalls' \in [Requests -> 0..MaxStalled]
    <3>1. CASE stalls[q] < MaxStalled
      <4>1. stalls[q] + 1 \in 0..MaxStalled
        BY <3>1, WithdrawalAssumption DEF TypeOK
      <4> QED BY <3>1, <4>1 DEF TypeOK
    <3>2. CASE ~(stalls[q] < MaxStalled)
      BY <3>2 DEF TypeOK
    <3> QED BY <3>1, <3>2
  <2>2. jstate' \in [Requests -> {"none", "waiting", "active", "completed",
                                 "failed"}]
    BY DEF TypeOK
  <2> QED BY <2>1, <2>2 DEF TypeOK
<1>3. (NoOverdraft /\ Copies /\ OnlyCommittedIsSent /\ Working)'
  BY DEF NoOverdraft, Copies, OnlyCommittedIsSent, Working
<1>4. (Created /\ Jobs)'
  BY <1>1 DEF Created, Jobs
<1>5. Undisturbed'
  BY <1>1 DEF Undisturbed, Fresh
<1>6. Answered'
  BY <1>1 DEF Answered, Settled
<1> QED BY <1>2, <1>3, <1>4, <1>5, <1>6

LEMMA AdminKeeps ==
  ASSUME WInv, NEW q \in Requests, NEW s \in AdminStatuses, Admin(q, s)
  PROVE  WInv'
<1> USE DEF WInv, Admin, userVars, queueVars, workerVars
<1>1. s \in Statuses /\ s # None
  BY WithdrawalAssumption DEF AdminStatuses, Statuses
<1>2. /\ row[q] # None /\ row'[q] = s /\ touched' = touched \cup {q}
      /\ \A p \in Requests \ {q} : row'[p] = row[p]
  BY DEF TypeOK
<1>3. TypeOK'
  BY <1>1 DEF TypeOK
<1>4. (NoOverdraft /\ Copies /\ OnlyCommittedIsSent /\ Jobs)'
  BY DEF NoOverdraft, Copies, OnlyCommittedIsSent, Jobs
<1>5. Created'
  BY <1>1, <1>2 DEF Created
<1>6. Working'
  <2>1. ASSUME NEW w \in Workers, wpc[w] \in {"send", "wait", "save", "catch"}
        PROVE  row'[wjob[w]] # None
    <3>1. wjob[w] \in Requests /\ row[wjob[w]] # None
      BY <2>1 DEF Working, TypeOK
    <3> QED BY <1>1, <1>2, <3>1
  <2> QED BY <2>1 DEF Working
<1>7. Undisturbed'
  BY <1>2 DEF Undisturbed, Fresh
<1>8. Answered'
  BY <1>2 DEF Answered, Settled
<1> QED BY <1>3, <1>4, <1>5, <1>6, <1>7, <1>8

LEMMA StepWInv == WInv /\ [Next]_vars => WInv'
<1> SUFFICES ASSUME WInv, [Next]_vars PROVE WInv'
  OBVIOUS
<1>1. CASE UNCHANGED vars
  BY <1>1 DEF WInv, TypeOK, NoOverdraft, Copies, Created, Jobs, Working,
              OnlyCommittedIsSent, Undisturbed, Fresh, Answered, Settled,
              vars, userVars,
              queueVars, workerVars
<1>2. ASSUME NEW q \in Requests, Create(q) \/ Abort(q) PROVE WInv'
  BY <1>2, PrepareSteps, PreparesKeeps, CommitKeeps DEF Create
<1>3. ASSUME NEW q \in Requests, Stall(q) PROVE WInv'
  BY <1>3, StallKeeps
<1>4. ASSUME NEW w \in Workers, NEW q \in Requests, Take(w, q) PROVE WInv'
  BY <1>4, TakeKeeps
<1>5. ASSUME NEW w \in Workers,
             Work(w) \/ ReadThrows(w) \/ SendThrows(w) \/ SaveThrows(w)
      PROVE  WInv'
  BY <1>5, WorkSteps, EndSteps DEF Work
<1>6. ASSUME NEW w \in Workers, Crash(w) PROVE WInv'
  BY <1>6, CrashKeeps
<1>7. ASSUME NEW q \in Requests, NEW s \in AdminStatuses, Admin(q, s)
      PROVE  WInv'
  BY <1>7, AdminKeeps
<1> QED BY <1>1, <1>2, <1>3, <1>4, <1>5, <1>6, <1>7 DEF Next

LEMMA AlwaysWInv == Spec => []WInv
  BY InitWInv, StepWInv, PTL DEF Spec

-----------------------------------------------------------------------------
\* Every variable keeps its type: no job is retried past its attempts, and
\* no handler runs without a job.
THEOREM TypeCorrect == Spec => []TypeOK
<1>1. WInv => TypeOK
  BY DEF WInv
<1> QED BY <1>1, AlwaysWInv, PTL

\* No token balance goes below zero, whatever requests a user makes at once:
\* createWithdrawal checks and deducts under the lock of the user's row.
THEOREM NeverOverdrawn == Spec => []NoOverdraft
<1>1. WInv => NoOverdraft
  BY DEF WInv
<1> QED BY <1>1, AlwaysWInv, PTL

\* The processor sends nothing for a request whose transaction has not
\* committed, though its job is in the queue before the commit.
THEOREM CommittedOnly == Spec => []OnlyCommittedIsSent
<1>1. WInv => OnlyCommittedIsSent
  BY DEF WInv
<1> QED BY <1>1, AlwaysWInv, PTL

\* However often the queue retries it, a withdrawal leaves the hot wallet at
\* most once, unless it met a stall, an administrator or a failed save.
THEOREM SentAtMostOnce == Spec => []SentOnce
<1>1. WInv => SentOnce
  BY DEF WInv, TypeOK, Undisturbed, SentOnce
<1> QED BY <1>1, AlwaysWInv, PTL

\* With the same exceptions, a row the processor completed has been paid.
THEOREM CompletedPaid == Spec => []CompletedIsPaid
<1>1. WInv => CompletedIsPaid
  BY DEF WInv, Undisturbed, CompletedIsPaid
<1> QED BY <1>1, AlwaysWInv, PTL

\* With the same exceptions, a row is left pending by a completed job only if a
\* worker looked for it before the request's transaction had committed.
THEOREM PendingQueued == Spec => []PendingIsQueued
<1>1. WInv => PendingIsQueued
  BY DEF WInv, Answered, Settled, PendingIsQueued
<1> QED BY <1>1, AlwaysWInv, PTL

-----------------------------------------------------------------------------
(* The abstract ledger                                                     *)

\* Between its lock and the end of its transaction a request holds the lock of
\* its user's row, and its copy differs from the row by its own total, which
\* the row can pay.
Held(q) ==
  cpc[q] \in {"locked", "saved", "queued"} =>
    /\ lock[q.user] = q
    /\ cpc[q] = "locked" => copy[q].token = token[q.user]
    /\ cpc[q] # "locked" =>
         /\ token[q.user][q.token] >= Total(q)
         /\ copy[q].token =
              [token[q.user] EXCEPT ![q.token] = @ - Total(q)]

Locked == \A q \in Requests : Held(q)

LInv == WInv /\ Locked

LEMMA InitLocked == Init => Locked
  BY DEF Init, Locked, Held

\* A step of one request's transaction leaves the others' as they were.
LEMMA OthersHeld ==
  ASSUME LInv, NEW q \in Requests, NEW p \in Requests \ {q},
         cpc'[p] = cpc[p], copy'[p] = copy[p], UNCHANGED token,
         \A u \in Users : lock'[u] = lock[u] \/ lock[u] \in {q, None}
  PROVE  Held(p)'
  BY RequestFacts DEF LInv, Locked, Held

LEMMA PrepareHeld ==
  ASSUME LInv, NEW q \in Requests,
         RefuseInvalid(q) \/ LockUser(q) \/ Abort(q) \/ Deduct(q) \/ AddJob(q)
  PROVE  Locked'
<1> USE DEF LInv, WInv, TypeOK, userVars
<1>0. q.user \in Users /\ q.token \in Tokens
  BY RequestFacts
<1>1. ASSUME NEW p \in Requests \ {q} PROVE Held(p)'
  <2>1. /\ cpc'[p] = cpc[p] /\ copy'[p] = copy[p] /\ UNCHANGED token
        /\ \A u \in Users : lock'[u] = lock[u] \/ lock[u] \in {q, None}
    BY DEF RefuseInvalid, LockUser, Abort, EndTransaction, Deduct, AddJob
  <2> QED BY <2>1, OthersHeld
<1>2. ASSUME LockUser(q) PROVE Held(q)'
  BY <1>0, <1>2 DEF LockUser, Held
<1>3. ASSUME Deduct(q) PROVE Held(q)'
  <2> DEFINE left == copy[q].token[q.token] - Total(q)
             new == [copy[q].token EXCEPT ![q.token] = left]
  <2>1. /\ lock[q.user] = q /\ copy[q].token = token[q.user]
        /\ left \in Int /\ left >= 0 /\ Total(q) \in Nat
        /\ copy[q] \in UserCopy
    <3>1. cpc[q] = "locked" /\ left >= 0
      BY <1>3 DEF Deduct
    <3>2. copy[q] \in UserCopy /\ Held(q)
      BY DEF Locked
    <3>3. copy[q].token[q.token] \in Int /\ Total(q) \in Nat
      BY <1>0, <3>2, RequestFacts DEF UserCopy
    <3> QED BY <3>1, <3>2, <3>3 DEF Held
  <2>2. copy'[q].token = new
    <3>1. copy'[q] = [[copy[q] EXCEPT !.token = new] EXCEPT !.usd = left]
      BY <1>3 DEF Deduct
    <3> HIDE DEF new, left
    <3> QED BY <2>1, <3>1 DEF UserCopy
  <2>3. /\ cpc'[q] = "saved" /\ UNCHANGED <<token, lock>>
        /\ token[q.user][q.token] \in Int
    BY <1>0, <1>3 DEF Deduct
  <2> QED BY <2>1, <2>2, <2>3 DEF Held
<1>4. ASSUME AddJob(q) PROVE Held(q)'
  BY <1>4 DEF AddJob, Locked, Held
<1>5. ASSUME RefuseInvalid(q) \/ Abort(q) PROVE Held(q)'
  BY <1>5 DEF RefuseInvalid, Abort, EndTransaction, Held
<1> QED BY <1>1, <1>2, <1>3, <1>4, <1>5 DEF Locked

\* The commit writes the copy, under the lock: no other request has a copy of
\* that row.
LEMMA CommitPlaces ==
  ASSUME LInv, NEW q \in Requests, Commit(q)
  PROVE  Locked' /\ Ledger!Place(q)
<1> USE DEF LInv, WInv, TypeOK, Commit, EndTransaction
<1>1. /\ q.user \in Users /\ q.token \in Tokens
      /\ lock[q.user] = q /\ token[q.user][q.token] >= Total(q)
      /\ copy[q].token = [token[q.user] EXCEPT ![q.token] = @ - Total(q)]
  BY RequestFacts DEF Locked, Held
<1>2. ASSUME NEW p \in Requests PROVE Held(p)'
  <2>1. CASE p = q
    BY <2>1 DEF Held
  <2>2. CASE p # q /\ cpc[p] \in {"locked", "saved", "queued"}
    <3>1. p.user \in Users /\ lock[p.user] = p
      BY <2>2, RequestFacts DEF Locked, Held
    <3>2. p.user # q.user
      BY <1>1, <2>2, <3>1
    <3>3. /\ cpc'[p] = cpc[p] /\ copy'[p] = copy[p]
          /\ token'[p.user] = token[p.user] /\ lock'[p.user] = lock[p.user]
      BY <2>2, <3>1, <3>2
    <3> QED BY <3>3 DEF Locked, Held
  <2>3. CASE p # q /\ cpc[p] \notin {"locked", "saved", "queued"}
    BY <2>3 DEF Held
  <2> QED BY <2>1, <2>2, <2>3
<1>3. Ledger!Place(q)
  <2>1. row[q] = None
    BY DEF Created
  <2>2. token' = [token EXCEPT ![q.user][q.token] = @ - Total(q)]
    BY <1>1
  <2> QED BY <1>1, <2>1, <2>2 DEF Ledger!Place, Ledger!Total, Total
<1> QED BY <1>2, <1>3 DEF Locked

\* No other step touches a balance, a copy or a lock.
LEMMA OthersReport ==
  ASSUME LInv, UNCHANGED <<userVars, cpc>>,
         UNCHANGED row \/ \E q \in Requests, s \in Statuses :
                             row[q] # None /\ row' = [row EXCEPT ![q] = s]
  PROVE  Locked' /\ [Ledger!LedgerNext]_(Ledger!ledgerVars)
<1> USE DEF userVars
<1>1. Locked'
  <2>1. ASSUME NEW q \in Requests PROVE Held(q)'
    <3>1. Held(q)
      BY DEF LInv, Locked
    <3>2. UNCHANGED <<token, copy, lock, cpc>>
      OBVIOUS
    <3> QED BY <3>1, <3>2 DEF Held
  <2> QED BY <2>1 DEF Locked
<1>2. CASE UNCHANGED row
  BY <1>1, <1>2 DEF Ledger!ledgerVars
<1>3. ASSUME NEW q \in Requests, NEW s \in Statuses,
             row[q] # None, row' = [row EXCEPT ![q] = s]
      PROVE  Ledger!LedgerNext
  BY <1>3 DEF Statuses, Ledger!LedgerNext, Ledger!Report
<1> QED BY <1>1, <1>2, <1>3

LEMMA StepLedger ==
  LInv /\ [Next]_vars => Locked' /\ [Ledger!LedgerNext]_(Ledger!ledgerVars)
<1> SUFFICES ASSUME LInv, [Next]_vars
             PROVE  Locked' /\ [Ledger!LedgerNext]_(Ledger!ledgerVars)
  OBVIOUS
<1> DEFINE Outcome == \/ UNCHANGED row
                      \/ \E q \in Requests, s \in Statuses :
                           row[q] # None /\ row' = [row EXCEPT ![q] = s]
<1>1. CASE UNCHANGED vars
  BY <1>1, OthersReport DEF vars
<1>2. ASSUME NEW q \in Requests, Create(q) \/ Abort(q), ~Commit(q)
      PROVE  Locked' /\ UNCHANGED <<token, row>>
  <2>1. RefuseInvalid(q) \/ LockUser(q) \/ Abort(q) \/ Deduct(q) \/ AddJob(q)
    BY <1>2 DEF Create
  <2> QED BY <2>1, PrepareHeld
          DEF RefuseInvalid, LockUser, Abort, Deduct, AddJob, userVars
<1>3. ASSUME NEW q \in Requests, Commit(q)
      PROVE  Locked' /\ Ledger!LedgerNext
  BY <1>3, CommitPlaces DEF Ledger!LedgerNext
<1>4. ASSUME NEW w \in Workers, SaveCompleted(w) \/ SaveFailed(w)
      PROVE  UNCHANGED <<userVars, cpc>> /\ Outcome
  <2>1. wjob[w] \in Requests /\ row[wjob[w]] # None
    BY <1>4 DEF LInv, WInv, TypeOK, Working, SaveCompleted, SaveFailed, Save
  <2> QED BY <1>4, <2>1 DEF SaveCompleted, SaveFailed, Save, Statuses
<1>5. ASSUME NEW w \in Workers,
             \/ Work(w) /\ ~SaveCompleted(w) /\ ~SaveFailed(w)
             \/ Crash(w) \/ ReadThrows(w) \/ SendThrows(w) \/ SaveThrows(w)
      PROVE  UNCHANGED <<userVars, cpc>> /\ Outcome
  BY <1>5 DEF Work, Read, Send, Confirmed, Return, Rethrow, EndJob, Crash,
              ReadThrows, SendThrows, SaveThrows
<1>6. ASSUME NEW w \in Workers, NEW q \in Requests, Take(w, q)
      PROVE  UNCHANGED <<userVars, cpc>> /\ Outcome
  BY <1>6 DEF Take
<1>7. ASSUME NEW q \in Requests, Stall(q)
      PROVE  UNCHANGED <<userVars, cpc>> /\ Outcome
  BY <1>7 DEF Stall
<1>8. ASSUME NEW q \in Requests, NEW s \in AdminStatuses, Admin(q, s)
      PROVE  UNCHANGED <<userVars, cpc>> /\ Outcome
  BY <1>8 DEF Admin, AdminStatuses, Statuses
<1>9. CASE UNCHANGED <<userVars, cpc>> /\ Outcome
  BY <1>9, OthersReport
<1> HIDE DEF Outcome
<1> QED BY <1>1, <1>2, <1>3, <1>4, <1>5, <1>6, <1>7, <1>8, <1>9
        DEF Next, Ledger!ledgerVars

\* Whatever requests, workers and administrators do at once, every step of the
\* withdrawals is a step of the abstract ledger or leaves balances and rows
\* alone: a token balance pays each withdrawal once and moves for nothing else.
THEOREM Refinement == Spec => ImplementsLedger
<1>1. Init => LInv /\ Ledger!LedgerInit
  BY InitWInv, InitLocked DEF LInv, Init, Ledger!LedgerInit
<1>2. LInv /\ [Next]_vars => LInv'
  BY StepWInv, StepLedger DEF LInv
<1>3. LInv /\ [Next]_vars => [Ledger!LedgerNext]_(Ledger!ledgerVars)
  BY StepLedger
<1> QED BY <1>1, <1>2, <1>3, PTL
        DEF Spec, ImplementsLedger, Ledger!LedgerSpec

-----------------------------------------------------------------------------
(* What a token balance is                                                 *)

Placed(u, k) == {q \in Requests : row[q] # None /\ q.user = u /\ q.token = k}
Withdrawn    == {q \in Requests : row[q] # None}
Totals       == [q \in Requests |-> Total(q)]

\* A token balance is the start less the amounts and fees of the withdrawals placed
\* on it: none is taken twice, none is taken from another balance, none comes back.
TokensAddUp ==
  \A u \in Users, k \in Tokens :
    token[u][k] = InitialToken - SumFunctionOnSet(Totals, Placed(u, k))

\* The sums are over finite sets: withdrawals are placed one by one.
TokenInv == IsFiniteSet(Withdrawn) /\ TokensAddUp

LEMMA TotalsAre == Totals \in [Requests -> Int]
  BY RequestFacts DEF Totals

LEMMA InitTokens == Init => TokenInv
<1> SUFFICES ASSUME Init PROVE TokenInv
  OBVIOUS
<1>1. Withdrawn = {} /\ \A u \in Users, k \in Tokens : Placed(u, k) = {}
  BY DEF Init, Withdrawn, Placed
<1>2. IsFiniteSet(Withdrawn)
  BY <1>1, FS_EmptySet
<1>3. SumFunctionOnSet(Totals, {}) = 0
  BY TotalsAre, SumEmpty
<1>4. \A u \in Users, k \in Tokens : token[u][k] = InitialToken
  BY DEF Init
<1>5. InitialToken = InitialToken - 0
  BY WithdrawalAssumption
<1> QED BY <1>1, <1>2, <1>3, <1>4, <1>5 DEF TokenInv, TokensAddUp

LEMMA PlaceAddsUp ==
  ASSUME LInv, TokenInv, NEW q \in Requests, Ledger!Place(q)
  PROVE  TokenInv'
<1> PICK T \in [Requests -> Int] : T = Totals
  BY TotalsAre
<1>1. /\ token \in [Users -> [Tokens -> Int]] /\ q.user \in Users /\ q.token \in Tokens
      /\ Total(q) \in Nat /\ InitialToken \in Int
      /\ row \in [Requests -> Statuses \cup {None}] /\ "pending" # None
  BY RequestFacts, WithdrawalAssumption DEF LInv, WInv, TypeOK, Statuses
<1>2. /\ row[q] = None /\ row' = [row EXCEPT ![q] = "pending"]
      /\ token' = [token EXCEPT ![q.user][q.token] = @ - Total(q)]
  BY DEF Ledger!Place, Ledger!Total, Total
<1>3. Withdrawn' = Withdrawn \cup {q}
  BY <1>1, <1>2 DEF Withdrawn
<1>4. IsFiniteSet(Withdrawn) /\ IsFiniteSet(Withdrawn')
  BY <1>3, FS_AddElement DEF TokenInv
<1>5. T[q] = Total(q)
  BY DEF Totals
<1>6. ASSUME NEW u \in Users, NEW k \in Tokens
      PROVE  token'[u][k] = InitialToken - SumFunctionOnSet(T, Placed(u, k)')
  <2> PICK S : S = Placed(u, k)
    OBVIOUS
  <2>1. S \in SUBSET Requests /\ q \notin S /\ S \subseteq Withdrawn
    BY <1>2 DEF Placed, Withdrawn
  <2>2. IsFiniteSet(S)
    BY <1>4, <2>1, FS_Subset
  <2>3. token[u][k] = InitialToken - SumFunctionOnSet(T, S)
    BY DEF TokenInv, TokensAddUp
  <2>4. CASE u = q.user /\ k = q.token
    <3>1. Placed(u, k)' = S \cup {q}
      BY <1>1, <1>2, <2>4 DEF Placed
    <3>2. SumFunctionOnSet(T, S \cup {q}) = SumFunctionOnSet(T, S) + T[q]
      BY <2>1, <2>2, SumAdd
    <3>3. token'[u][k] = token[u][k] - Total(q)
      BY <1>1, <1>2, <2>4
    <3>4. SumFunctionOnSet(T, S) \in Int
      BY <2>1, <2>2, SumType
    <3> QED BY <1>1, <1>5, <2>3, <3>1, <3>2, <3>3, <3>4
  <2>5. CASE ~(u = q.user /\ k = q.token)
    <3>1. Placed(u, k)' = S
      BY <1>1, <1>2, <2>5 DEF Placed
    <3>2. token'[u][k] = token[u][k]
      BY <1>1, <1>2, <2>5
    <3> QED BY <2>3, <3>1, <3>2
  <2> QED BY <2>4, <2>5
<1>7. Totals' = Totals
  BY DEF Totals, Total
<1> QED BY <1>4, <1>6, <1>7 DEF TokenInv, TokensAddUp

LEMMA TokenStep ==
  ASSUME LInv, TokenInv, [Next]_vars
  PROVE  TokenInv'
<1>1. ASSUME UNCHANGED token,
             \A q \in Requests : row'[q] = None <=> row[q] = None
      PROVE  TokenInv'
  <2>1. Withdrawn' = Withdrawn /\ \A u \in Users, k \in Tokens : Placed(u, k)' = Placed(u, k)
    BY <1>1 DEF Withdrawn, Placed
  <2>2. Totals' = Totals
    BY DEF Totals, Total
  <2> QED BY <1>1, <2>1, <2>2 DEF TokenInv, TokensAddUp
<1>2. ASSUME NEW q \in Requests, Ledger!Report(q)
      PROVE  UNCHANGED token /\ \A p \in Requests : row'[p] = None <=> row[p] = None
  <2>1. row \in [Requests -> Statuses \cup {None}]
    BY DEF LInv, WInv, TypeOK
  <2>2. PICK s \in Statuses : row' = [row EXCEPT ![q] = s]
    BY <1>2 DEF Ledger!Report, Statuses
  <2>3. s # None /\ row[q] # None
    BY <1>2, WithdrawalAssumption DEF Ledger!Report
  <2> QED BY <1>2, <2>1, <2>2, <2>3 DEF Ledger!Report
<1>3. [Ledger!LedgerNext]_(Ledger!ledgerVars)
  BY StepLedger
<1> QED BY <1>1, <1>2, <1>3, PlaceAddsUp DEF Ledger!LedgerNext, Ledger!ledgerVars

\* Whatever requests, workers and administrators do at once, a token balance is the
\* start less the withdrawals placed on it: it follows from the refinement.
THEOREM TokensConserved == Spec => []TokensAddUp
<1>1. Init => LInv /\ TokenInv
  BY InitWInv, InitLocked, InitTokens DEF LInv
<1>2. LInv /\ TokenInv /\ [Next]_vars => LInv' /\ TokenInv'
  BY StepWInv, StepLedger, TokenStep DEF LInv
<1>3. TokenInv => TokensAddUp
  BY DEF TokenInv
<1> QED BY <1>1, <1>2, <1>3, PTL DEF Spec
=============================================================================
