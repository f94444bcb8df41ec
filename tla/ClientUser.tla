----------------------------- MODULE ClientUser -----------------------------
(***************************************************************************)
(* The user that a browser shows (contexts/UserContext.tsx).  It is        *)
(* fetched at load, at login and when a game is closed, and kept up to     *)
(* date by the messages that the server sends to the room of the user      *)
(* (deposit.gateway.ts), which the socket joins anew whenever the user or  *)
(* the network changes.                                                    *)
(***************************************************************************)
EXTENDS Integers, SequencesExt

CONSTANTS Members,    \* users
          Asks,       \* slots for the fetches of fetchUserInfo
          Writers,    \* slots for the calls that save a row without locking it
          MaxBalance, \* bound on a balance
          Start,      \* the balances of a user at the beginning
          MaxMoves,   \* bound on the changes of balances
          MaxVisits,  \* bound on logins, fetches, switches and lost connections
          Nobody, Ghost \* no user; the answer "Unauthorized" taken for a user

Fields == {"realBalance", "testBalance"}
Balances == [Fields -> 0 .. MaxBalance]

ASSUME ClientAssumption ==
  /\ Nobody \notin Members /\ Ghost \notin Members \cup {Nobody}
  /\ MaxBalance \in Nat /\ MaxMoves \in Nat /\ MaxVisits \in Nat
  /\ Start \in Balances

VARIABLES rows,      \* the balances of each user at the server
          promised,  \* and as the transaction that has locked the row will leave
                     \* them; the same when none has
          writer,    \* the copy of each call that saves without a lock
          jwt,      \* the user whose token is stored
          isLoggedIn,
          member,   \* the user that is shown
          balances, \* and the balances it is shown with
          room,     \* the room of the socket, at the server
          joining,  \* the room it has asked to join
          inbox,    \* messages on their way
          asking,      \* what each fetch has under way
          moves, visits,
          unsure,   \* balances that may be out of date (history)
          touched,  \* balances that changed unannounced, or whose message came,
                    \* since a fetch was answered, or for which a transaction was
                    \* open when it was (history)
          crossed   \* a login or a logout overtook the fetch that set the user,
                    \* or somebody logged in while a user was shown, whom a failed
                    \* checkAuth had logged out (history)

serverVars == <<rows, promised, writer, moves>>
pageVars   == <<jwt, isLoggedIn, member, balances, room, joining, asking, visits, crossed>>
mailVars   == <<inbox, unsure, touched>>
clientVars == <<serverVars, pageVars, mailVars>>

NoAsk == [step |-> "free", who |-> Nobody, for |-> "check", late |-> FALSE]
Zero == [k \in Fields |-> 0]
NoCopy == [step |-> "free", who |-> Nobody, kind |-> "realBalance", copy |-> Zero,
           dirty |-> {}]

ClientInit ==
  /\ rows = [u \in Members |-> Start] /\ promised = rows
  /\ writer = [w \in Writers |-> NoCopy]
  /\ jwt \in Members \cup {Nobody}
  /\ isLoggedIn = FALSE /\ member = Nobody /\ balances = Zero
  /\ room = Nobody /\ joining = Nobody /\ inbox = << >>
  /\ asking = [a \in Asks |-> NoAsk]
  /\ moves = 0 /\ visits = 0 /\ unsure = {}
  /\ touched = [a \in Asks |-> {}] /\ crossed = FALSE

-----------------------------------------------------------------------------
Heard(m) == IF m.pair THEN Fields ELSE {m.kind}
Touched(K) == [a \in Asks |-> touched[a] \cup K]
Unheard == UNION {Heard(inbox[i]) : i \in DOMAIN inbox}

\* Users this browser does not ask about are left alone.
Watched(u) == u = member \/ \E a \in Asks : asking[a].who = u
Unlocked(u) == promised[u] = rows[u]
Move == moves < MaxMoves /\ moves' = moves + 1

\* What a browser that shows u, or has fetched u, misses when the balances K change.
Miss(u, K) ==
  /\ unsure' = IF member = u THEN unsure \cup K ELSE unsure
  /\ touched' = [a \in Asks |-> IF asking[a].who = u THEN touched[a] \cup K ELSE touched[a]]

\* A message goes to the sockets in the room of the user.
News(how, k, b) == [pair |-> how = "pair", kind |-> k, now |-> b]

\* handleGameCallback, creditUser and createWithdrawal lock the row, save it and
\* send the message, of both balances for a withdrawal and of the one that changed
\* otherwise, before their transaction commits.
Announce(u, k, v) ==
  /\ Move /\ Watched(u) /\ Unlocked(u) /\ v # rows[u][k]
  /\ promised' = [promised EXCEPT ![u][k] = v]
  /\ \E how \in {"pair", "one"} :
       LET m == News(how, k, promised'[u]) IN
       IF room = u
       THEN inbox' = Append(inbox, m) /\ unsure' = unsure \ Heard(m) /\ UNCHANGED touched
       ELSE Miss(u, {k}) /\ UNCHANGED inbox
  /\ UNCHANGED <<rows, writer, pageVars>>

CommitMove(u) ==
  /\ ~Unlocked(u)
  /\ rows' = [rows EXCEPT ![u] = promised[u]]
  /\ UNCHANGED <<promised, writer, moves, pageVars, mailVars>>

\* The commit fails: nobody takes the message back.
RollBack(u) ==
  /\ ~Unlocked(u)
  /\ promised' = [promised EXCEPT ![u] = rows[u]]
  /\ Miss(u, {k \in Fields : promised[u][k] # rows[u][k]})
  /\ UNCHANGED <<rows, writer, moves, inbox, pageVars>>

\* handleMoneyCallback, placeBet, claims and administrators read the row and save
\* their copy of it without a lock: save reads the row again and updates the columns
\* that differ, waiting for a transaction that holds the row.
ReadRow(w, u, k, v) ==
  /\ Move /\ Watched(u) /\ writer[w].step = "free"
  /\ writer' = [writer EXCEPT ![w] = [step |-> "read", who |-> u, kind |-> k,
                                      copy |-> [rows[u] EXCEPT ![k] = v], dirty |-> {}]]
  /\ UNCHANGED <<rows, promised, pageVars, mailVars>>

ReloadRow(w) ==
  /\ writer[w].step = "read"
  /\ writer' = [writer EXCEPT ![w].step = "reloaded",
                  ![w].dirty = {k \in Fields : writer[w].copy[k] # rows[writer[w].who][k]}]
  /\ UNCHANGED <<rows, promised, moves, pageVars, mailVars>>

Overwritten(w) == [k \in Fields |-> IF k \in writer[w].dirty THEN writer[w].copy[k]
                                    ELSE rows[writer[w].who][k]]

UpdateRow(w) ==
  /\ writer[w].step = "reloaded" /\ Unlocked(writer[w].who)
  /\ rows' = [rows EXCEPT ![writer[w].who] = Overwritten(w)]
  /\ promised' = [promised EXCEPT ![writer[w].who] = Overwritten(w)]
  /\ writer' = [writer EXCEPT ![w].step = "saved"]
  /\ UNCHANGED <<moves, pageVars, mailVars>>

\* Balances of each user that a call has saved and not yet told.
Telling(u) == {w \in Writers : writer[w].step = "saved" /\ writer[w].who = u}
Owed == [u \in Members |-> UNION {writer[w].dirty : w \in Telling(u)}]

\* The message then tells the copy, which may be out of date; claims, administrators
\* and calls cut off after the save send none.
TellCopy(w) ==
  /\ writer[w].step = "saved"
  /\ writer' = [writer EXCEPT ![w] = NoCopy]
  /\ \E how \in {"pair", "one", "none"} :
       LET u == writer[w].who
           m == News(how, writer[w].kind, writer[w].copy)
           old == {k \in Heard(m) : m.now[k] # promised[u][k]}
           missed == writer[w].dirty \ Heard(m)
       IN IF how # "none" /\ room = u
          THEN /\ inbox' = Append(inbox, m)
               /\ unsure' = (unsure \ Heard(m)) \cup old \cup missed
               /\ touched' = [a \in Asks |-> IF asking[a].who = u
                                THEN touched[a] \cup missed ELSE touched[a]]
          ELSE Miss(u, writer[w].dirty) /\ UNCHANGED inbox
  /\ UNCHANGED <<rows, promised, moves, pageVars>>

\* Mutant: a bet or a withdrawal sets the one balance that changed and clears
\* the other.
HearingOne(m) == [k \in Fields |-> IF k = m.kind THEN m.now[k] ELSE 0]

\* newRealBalance || prev.realBalance: a balance of 0 is not taken over.
Hearing(m) == [k \in Fields |-> IF m.pair
                 THEN IF m.now[k] = 0 THEN balances[k] ELSE m.now[k]
                 ELSE IF k = m.kind THEN m.now[k] ELSE balances[k]]

Hear ==
  /\ inbox # << >>
  /\ LET m == Head(inbox) IN
       /\ balances' = Hearing(m)
       /\ unsure' = unsure \cup {k \in Heard(m) : m.pair /\ m.now[k] = 0}
       /\ touched' = Touched(Heard(m))
  /\ inbox' = Tail(inbox)
  /\ UNCHANGED <<serverVars, jwt, isLoggedIn, member, room, joining, asking, visits, crossed>>

\* The effect of user and network: the socket disconnects, connects and asks for
\* the room of the user, if there is one.
Join(u) ==
  /\ joining' = u
  /\ room' = Nobody /\ inbox' = << >>

JoinArrives ==
  /\ joining # Nobody
  /\ room' = joining /\ joining' = Nobody
  /\ UNCHANGED <<serverVars, jwt, isLoggedIn, member, balances, inbox, asking, visits,
                 unsure, touched, crossed>>

Visit == visits < MaxVisits /\ visits' = visits + 1

SwitchNetwork ==
  /\ Visit /\ member \in Members
  /\ Join(member)
  /\ unsure' = unsure \cup Unheard /\ touched' = Touched(Unheard)
  /\ UNCHANGED <<serverVars, jwt, isLoggedIn, member, balances, asking, crossed>>

\* The socket reconnects by itself, but does not ask for the room again.
ConnectionLost ==
  /\ Visit /\ room # Nobody
  /\ room' = Nobody /\ inbox' = << >>
  /\ unsure' = unsure \cup Unheard /\ touched' = Touched(Unheard)
  /\ UNCHANGED <<serverVars, jwt, isLoggedIn, member, balances, joining, asking, crossed>>

BeginFetch(a, u, for) ==
  /\ asking[a].step = "free"
  /\ asking' = [q \in Asks |->
       IF q = a THEN [step |-> "sent", who |-> u, for |-> for, late |-> FALSE]
       ELSE IF jwt' # jwt /\ asking[q].step # "free" THEN [asking[q] EXCEPT !.late = TRUE]
       ELSE asking[q]]

\* checkAuth, when a page is loaded.
CheckAuth(a) ==
  /\ Visit /\ jwt # Nobody /\ member = Nobody
  /\ isLoggedIn' = TRUE /\ jwt' = jwt
  /\ BeginFetch(a, jwt, "check")
  /\ UNCHANGED <<serverVars, member, balances, room, joining, inbox, unsure, touched, crossed>>

\* login or verifyEmail, once the server has answered with a token.
Login(a, u) ==
  /\ Visit /\ ~isLoggedIn
  /\ isLoggedIn' = TRUE /\ jwt' = u
  /\ BeginFetch(a, u, "login")
  /\ crossed' = (member # Nobody)
  /\ UNCHANGED <<serverVars, member, balances, room, joining, inbox, unsure, touched>>

\* setUserBalance, when a game is closed or winnings were claimed.
Refresh(a) ==
  /\ Visit /\ jwt # Nobody /\ member \in Members
  /\ jwt' = jwt
  /\ BeginFetch(a, jwt, "refresh")
  /\ UNCHANGED <<serverVars, isLoggedIn, member, balances, room, joining, inbox, unsure,
                 touched, crossed>>

\* Mutant: logout leaves the user.
AfterLogoutKeeps == member

AfterLogout == Nobody

Logout ==
  /\ isLoggedIn
  /\ isLoggedIn' = FALSE /\ jwt' = Nobody
  /\ member' = AfterLogout /\ balances' = Zero /\ unsure' = {} /\ crossed' = FALSE
  /\ Join(Nobody)
  /\ asking' = [a \in Asks |-> IF asking[a].step = "free" THEN asking[a]
                            ELSE [asking[a] EXCEPT !.late = TRUE]]
  /\ touched' = Touched(Unheard)
  /\ UNCHANGED <<serverVars, visits>>

\* The server reads the row as it was committed, or finds the token expired.
ServerAnswers(a) ==
  /\ asking[a].step = "sent"
  /\ \/ asking' = [asking EXCEPT ![a] = [step |-> "answered", who |-> @.who, for |-> @.for,
                                   late |-> @.late, rows |-> rows[@.who]]]
     \/ /\ asking[a].for # "login"
        /\ asking' = [asking EXCEPT ![a].step = "unauthorized"]
  /\ touched' = [touched EXCEPT ![a] =
                   {k \in Fields : promised[asking[a].who][k] # rows[asking[a].who][k]}]
  /\ UNCHANGED <<serverVars, jwt, isLoggedIn, member, balances, room, joining, inbox, visits,
                 unsure, crossed>>

\* setUser: a new user means a new room.
SetUser(a, u, b) ==
  /\ member' = u /\ balances' = b
  /\ touched' = [Touched(IF u = member THEN {} ELSE Unheard) EXCEPT ![a] = {}]
  /\ IF u = member THEN UNCHANGED <<room, joining, inbox>>
     ELSE Join(IF u \in Members THEN u ELSE Nobody)

\* What the fetch found may be older than messages that came meanwhile, and a
\* message on its way may be older than what it found.
UserArrives(a) ==
  /\ asking[a].step = "answered"
  /\ SetUser(a, asking[a].who, asking[a].rows)
  /\ unsure' = touched[a] \cup (unsure \cap Unheard)
  /\ crossed' = asking[a].late
  /\ asking' = [asking EXCEPT ![a] = NoAsk]
  /\ UNCHANGED <<serverVars, jwt, isLoggedIn, visits>>

\* Only checkAuth looks for "Unauthorized"; setUserBalance shows it as a user.
Unauthorized(a) ==
  /\ asking[a].step = "unauthorized"
  /\ IF asking[a].for = "check"
     THEN /\ jwt' = Nobody /\ isLoggedIn' = FALSE /\ SetUser(a, Nobody, Zero)
     ELSE /\ SetUser(a, Ghost, Zero) /\ UNCHANGED <<jwt, isLoggedIn>>
  /\ unsure' = {} /\ crossed' = FALSE
  /\ asking' = [q \in Asks |-> IF q = a THEN NoAsk
               ELSE IF jwt' # jwt /\ asking[q].step # "free" THEN [asking[q] EXCEPT !.late = TRUE]
               ELSE asking[q]]
  /\ UNCHANGED <<serverVars, visits>>

\* The request fails: checkAuth forgets the user, the others only report it.
AskFails(a) ==
  /\ asking[a].step # "free"
  /\ IF asking[a].for = "check"
     THEN SetUser(a, Nobody, Zero) /\ isLoggedIn' = FALSE /\ unsure' = {} /\ crossed' = FALSE
     ELSE /\ touched' = [touched EXCEPT ![a] = {}]
          /\ UNCHANGED <<member, balances, room, joining, inbox, isLoggedIn, unsure, crossed>>
  /\ asking' = [asking EXCEPT ![a] = NoAsk]
  /\ UNCHANGED <<serverVars, jwt, visits>>

ClientNext ==
  \/ \E u \in Members : CommitMove(u) \/ RollBack(u)
  \/ \E u \in Members, k \in Fields, v \in 0 .. MaxBalance :
       Announce(u, k, v) \/ \E w \in Writers : ReadRow(w, u, k, v)
  \/ \E w \in Writers : ReloadRow(w) \/ UpdateRow(w) \/ TellCopy(w)
  \/ Hear \/ JoinArrives \/ SwitchNetwork \/ ConnectionLost \/ Logout
  \/ \E a \in Asks : \/ CheckAuth(a) \/ Refresh(a) \/ \E u \in Members : Login(a, u)
                     \/ ServerAnswers(a) \/ UserArrives(a) \/ Unauthorized(a)
                     \/ AskFails(a)

ClientSpec == ClientInit /\ [][ClientNext]_clientVars

-----------------------------------------------------------------------------
\* With no message on its way a balance that is shown is the one at the server,
\* while no transaction holds it, unless it changed unannounced or while the socket
\* was in no room, its message was lost with a connection, was a 0 after a bet or a
\* withdrawal, told a copy that was out of date, or announced a change that was rolled
\* back, or it changed, or was about to, across the answer to a fetch; or a call has
\* saved it and not yet told it.
ViewIsCurrent ==
  member \in Members /\ inbox = << >>
    => \A k \in Fields \ (unsure \cup Owed[member]) :
         promised[member][k] = rows[member][k] => balances[k] = rows[member][k]

\* The user that is shown is the one whose token is stored, unless a login or a
\* logout overtook the fetch that set it, or a failed checkAuth let somebody else
\* log in.
ShownIsLoggedIn ==
  member \in Members => member = jwt \/ crossed
=============================================================================
