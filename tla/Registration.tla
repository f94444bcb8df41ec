---------------------------- MODULE Registration ----------------------------
(***************************************************************************)
(* register of auth/auth.service.ts: two look-ups, the insert, the list of *)
(* addresses that the EVM scanner watches, and the mail with the code, one *)
(* after the other and outside any transaction.  Any error is answered as  *)
(* a failure, also one that comes after the account was made.              *)
(***************************************************************************)
EXTENDS Integers, FiniteSets

CONSTANT Requests \* the registrations of a behaviour

ASSUME RegistrationAssumption ==
  \A r \in Requests : {"id", "name", "email"} \subseteq DOMAIN r

VARIABLES users,  \* the table of users, each by its request
          listed, \* whose EVM address is in deposit_addresses_set
          mailed, \* who has been sent the first code
          at,     \* where each request is, or its answer
          met,    \* pairs of requests that were in progress at once (history)
          lostAt  \* the step at which an error ended a request (history)

registrationVars == <<users, listed, mailed, at, met, lostAt>>

Steps == {"checkName", "checkEmail", "save", "list", "mail"}
Answers == {"success", "exists", "failure"}

RegistrationTypeOK ==
  /\ users \subseteq Requests
  /\ listed \subseteq users /\ mailed \subseteq users
  /\ at \in [Requests -> Steps \cup Answers \cup {"new"}]
  /\ met \subseteq SUBSET Requests
  /\ lostAt \in [Requests -> Steps \cup {"none"}]

RegistrationInit ==
  /\ users = {} /\ listed = {} /\ mailed = {} /\ met = {}
  /\ at = [r \in Requests |-> "new"]
  /\ lostAt = [r \in Requests |-> "none"]

-----------------------------------------------------------------------------
Registering(r) == at[r] \in Steps
Move(r, l) == at' = [at EXCEPT ![r] = l]

Submit(r) ==
  /\ at[r] = "new"
  /\ Move(r, "checkName")
  /\ met' = met \cup {{r, q} : q \in {p \in Requests : Registering(p)}}
  /\ UNCHANGED <<users, listed, mailed, lostAt>>

CheckName(r) ==
  /\ at[r] = "checkName"
  /\ Move(r, IF \E u \in users : u.name = r.name THEN "exists"
             ELSE "checkEmail")
  /\ UNCHANGED <<users, listed, mailed, met, lostAt>>

\* Mutant: only the name is looked up.
EmailFree(r) == TRUE

EmailUnused(r) == \A u \in users : u.email # r.email

CheckEmail(r) ==
  /\ at[r] = "checkEmail"
  /\ Move(r, IF EmailUnused(r) THEN "save" ELSE "exists")
  /\ UNCHANGED <<users, listed, mailed, met, lostAt>>

\* The column username is unique, email is not.
Unique(r) == \A u \in users : u.name # r.name

\* Mutant: the new address is left to the next start of the scanner.
AfterSaveUnlisted(r) == IF Unique(r) THEN "mail" ELSE "failure"

AfterSave(r) == IF Unique(r) THEN "list" ELSE "failure"

SaveUser(r) ==
  /\ at[r] = "save"
  /\ users' = IF Unique(r) THEN users \cup {r} ELSE users
  /\ lostAt' = IF Unique(r) THEN lostAt ELSE [lostAt EXCEPT ![r] = "save"]
  /\ Move(r, AfterSave(r))
  /\ UNCHANGED <<listed, mailed, met>>

ListAddress(r) ==
  /\ at[r] = "list"
  /\ listed' = listed \cup {r}
  /\ Move(r, "mail")
  /\ UNCHANGED <<users, mailed, met, lostAt>>

SendMail(r) ==
  /\ at[r] = "mail"
  /\ mailed' = mailed \cup {r}
  /\ Move(r, "success")
  /\ UNCHANGED <<users, listed, met, lostAt>>

\* An error at any step: the handler catches it and answers a failure.
RegistrationFails(r) ==
  /\ Registering(r)
  /\ Move(r, "failure")
  /\ lostAt' = [lostAt EXCEPT ![r] = at[r]]
  /\ UNCHANGED <<users, listed, mailed, met>>

\* A start of the scanner lists every user of the table.
ListAll ==
  /\ listed # users
  /\ listed' = users
  /\ UNCHANGED <<users, mailed, at, met, lostAt>>

RegistrationNext ==
  \/ ListAll
  \/ \E r \in Requests :
       \/ Submit(r) \/ CheckName(r) \/ CheckEmail(r) \/ SaveUser(r)
       \/ ListAddress(r) \/ SendMail(r) \/ RegistrationFails(r)

RegistrationSpec == RegistrationInit /\ [][RegistrationNext]_registrationVars

-----------------------------------------------------------------------------
\* Two accounts share an address only if their registrations were in progress
\* at once: only the name has an index behind its look-up.
EmailTwiceNeedsRace ==
  \A u, w \in users :
    u # w => u.name # w.name /\ (u.email = w.email => {u, w} \in met)

\* Who is told of success can go on: the account is there, its address is
\* watched and the code is on its way.
SuccessIsComplete ==
  \A r \in Requests :
    at[r] = "success" => r \in users \cap listed \cap mailed

\* Who is told of a failure has no account, unless the list or the mail failed,
\* and an account whose address nobody watches is one whose owner was never
\* told of success.
FailureWithAccount ==
  \A r \in users :
    /\ at[r] = "failure" => lostAt[r] \in {"list", "mail"}
    /\ r \notin listed => at[r] \in {"list", "failure"}
=============================================================================
