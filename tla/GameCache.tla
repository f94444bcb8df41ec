----------------------------- MODULE GameCache -----------------------------
(***************************************************************************)
(* fetchGames of contexts/GameCacheContext.tsx and the page of slots,      *)
(* whose effect calls it for the provider that is chosen and again         *)
(* whenever the cache has changed.  A call knows the cache as it was when  *)
(* the page was last rendered.  A request that fails is stored like a list *)
(* (fetchGameListAsync of lib/api throws nothing and looks at no status),  *)
(* and a page that gets one to show crashes until it is loaded anew.       *)
(***************************************************************************)
EXTENDS Integers, FiniteSets

CONSTANTS Shops,       \* providers
          Requests,    \* slots for the requests under way
          MaxEdition,  \* bound on the editions of a provider's list
          MaxChoices,  \* bound on choices of a provider and on searches
          MaxTroubles  \* bound on requests that fail and entries that expire

ASSUME GameCacheAssumption ==
  MaxEdition \in Nat \ {0} /\ MaxChoices \in Nat /\ MaxTroubles \in Nat

VARIABLES edition,  \* the edition of each provider's list at the server
          entries,  \* gameCache; an entry that is missing is Absent
          dirty,    \* the cache or the provider was set since the last render
          view,     \* gameCache at the last render
          provider, \* currentProvider
          page,     \* games: the provider and the edition the page shows
          fetched,  \* what each slot has under way
          choices, troubles,
          overlapped \* slots whose request met another one for its provider
                     \* (history)

gameVars == <<edition, entries, dirty, view, provider, page, fetched, choices,
              troubles, overlapped>>

\* Edition 0 is the empty list.  A request that fails leaves undefined, or the body
\* of the error.
Undefined == -1
ErrorBody == -2
Games == ErrorBody .. MaxEdition
Entry == [games: Games, fresh: BOOLEAN, loading: BOOLEAN]
Absent == [games |-> 0, fresh |-> FALSE, loading |-> FALSE]
Unused == [shop |-> CHOOSE p \in Shops : TRUE, byPage |-> FALSE, answer |-> 0,
           step |-> "free"]

GameTypeOK ==
  /\ edition \in [Shops -> 1 .. MaxEdition]
  /\ entries \in [Shops -> Entry] /\ view \in [Shops -> Entry]
  /\ dirty \in BOOLEAN /\ provider \in Shops
  /\ page \in [shop: Shops, games: Games]
  /\ fetched \in [Requests -> [shop: Shops, byPage: BOOLEAN, answer: Games,
                                step: {"free", "sent", "answered"}]]
  /\ choices \in 0 .. MaxChoices /\ troubles \in 0 .. MaxTroubles
  /\ overlapped \subseteq Requests

GameInit ==
  /\ edition = [p \in Shops |-> 1]
  /\ entries = [p \in Shops |-> Absent] /\ view = entries
  /\ dirty = TRUE /\ provider \in Shops
  /\ page = [shop |-> provider, games |-> 0]
  /\ fetched = [r \in Requests |-> Unused]
  /\ choices = 0 /\ troubles = 0 /\ overlapped = {}

-----------------------------------------------------------------------------
UnderWay(p) == {r \in Requests : fetched[r].step # "free" /\ fetched[r].shop = p}

\* The page reads the length of what it shows, and no error boundary catches that
\* there is none.
crashed == page.games < 0

\* The calls that send no request: the entry is fresh, or it is loading.
AnswersAtOnce(v, p) == v[p].fresh \/ v[p].loading

\* Mutant: an entry is emptied while it is loading.
KeptNone(g) == 0

\* cached?.games || []
Kept(g) == IF g = Undefined THEN 0 ELSE g

\* fetchGames called with the cache v.
FetchList(v, p, byPage) ==
  IF AnswersAtOnce(v, p)
  THEN /\ page' = IF byPage THEN [shop |-> p, games |-> v[p].games] ELSE page
       /\ UNCHANGED <<entries, fetched, overlapped>>
  ELSE LET r == CHOOSE q \in Requests : fetched[q] = Unused IN
         /\ \E q \in Requests : fetched[q] = Unused
         /\ fetched' = [fetched EXCEPT ![r] =
              [shop |-> p, byPage |-> byPage, answer |-> 0, step |-> "sent"]]
         /\ entries' = [entries EXCEPT ![p] =
              [games |-> Kept(v[p].games), fresh |-> FALSE, loading |-> TRUE]]
         /\ overlapped' = IF UnderWay(p) = {} THEN overlapped \ {r}
                          ELSE overlapped \cup UnderWay(p) \cup {r}
         /\ UNCHANGED page

Render ==
  /\ dirty /\ ~crashed
  /\ view' = entries
  /\ FetchList(entries, provider, TRUE)
  /\ dirty' = (entries' # entries)
  /\ UNCHANGED <<edition, provider, choices, troubles>>

ChooseProvider(p) ==
  /\ p # provider /\ ~crashed /\ choices < MaxChoices
  /\ choices' = choices + 1
  /\ provider' = p /\ dirty' = TRUE
  /\ UNCHANGED <<edition, entries, view, page, fetched, troubles, overlapped>>

\* Another component calls fetchGames; it catches what it cannot show.
Search(p) ==
  /\ ~crashed /\ choices < MaxChoices
  /\ choices' = choices + 1
  /\ FetchList(view, p, FALSE)
  /\ dirty' = (dirty \/ entries' # entries)
  /\ UNCHANGED <<edition, view, provider, troubles>>

\* The user loads the page anew: the cache and the requests are gone.
ReloadPage ==
  /\ crashed
  /\ entries' = [p \in Shops |-> Absent] /\ view' = entries'
  /\ dirty' = TRUE /\ provider' \in Shops
  /\ page' = [shop |-> provider', games |-> 0]
  /\ fetched' = [r \in Requests |-> Unused] /\ overlapped' = {}
  /\ UNCHANGED <<edition, choices, troubles>>

ServerSends(r) ==
  /\ fetched[r].step = "sent"
  /\ fetched' = [fetched EXCEPT ![r].answer = edition[fetched[r].shop],
                                ![r].step = "answered"]
  /\ UNCHANGED <<edition, entries, dirty, view, provider, page, choices, troubles,
                 overlapped>>

\* Mutant: the effect of the page depends on the provider alone.
RunsAgainNot == dirty

\* The cache was set, so the effect of the page runs again.
RunsAgain == TRUE

EndFetch(r, games) ==
  /\ ~crashed
  /\ entries' = [entries EXCEPT ![fetched[r].shop] =
                    [games |-> games, fresh |-> TRUE, loading |-> FALSE]]
  /\ page' = IF fetched[r].byPage
             THEN [shop |-> fetched[r].shop, games |-> games] ELSE page
  /\ fetched' = [fetched EXCEPT ![r] = Unused]
  /\ overlapped' = overlapped \ {r}
  /\ dirty' = RunsAgain

ListArrives(r) ==
  /\ fetched[r].step = "answered"
  /\ EndFetch(r, fetched[r].answer)
  /\ UNCHANGED <<edition, view, provider, choices, troubles>>

\* The request fails, or the server answers with an error: the time is noted as if
\* a list had come.
ListFails(r) ==
  /\ fetched[r].step # "free" /\ troubles < MaxTroubles
  /\ troubles' = troubles + 1
  /\ \E g \in {Undefined, ErrorBody} : EndFetch(r, g)
  /\ UNCHANGED <<edition, view, provider, choices>>

\* CACHE_DURATION is over.
ExpireEntry(p) ==
  /\ entries[p].fresh /\ troubles < MaxTroubles
  /\ troubles' = troubles + 1
  /\ entries' = [entries EXCEPT ![p].fresh = FALSE]
  /\ view' = [view EXCEPT ![p].fresh = FALSE]
  /\ UNCHANGED <<edition, dirty, provider, page, fetched, choices, overlapped>>

ListChanges(p) ==
  /\ edition[p] < MaxEdition
  /\ edition' = [edition EXCEPT ![p] = @ + 1]
  /\ UNCHANGED <<entries, dirty, view, provider, page, fetched, choices, troubles,
                 overlapped>>

Answering(r) == ServerSends(r) \/ ListArrives(r)

GameNext ==
  \/ Render \/ ReloadPage
  \/ \E p \in Shops : \/ ChooseProvider(p) \/ Search(p) \/ ExpireEntry(p)
                      \/ ListChanges(p)
  \/ \E r \in Requests : Answering(r) \/ ListFails(r)

\* React renders what was set, and requests are answered or fail.
GameFairness == WF_gameVars(Render) /\ \A r \in Requests : WF_gameVars(Answering(r))

GameSpec == GameInit /\ [][GameNext]_gameVars /\ GameFairness

-----------------------------------------------------------------------------
EndsCrossed(r, p) == /\ fetched[r].step = "answered" /\ fetched'[r].step = "free"
                     /\ fetched[r].shop = p /\ r \in overlapped
BeginsLate(r, p)  == /\ fetched[r].step = "free" /\ fetched'[r].step = "sent"
                     /\ fetched'[r].shop = p /\ view'[p] # entries[p]

\* The list of a provider goes back to an older one only when a request for it ends
\* that met another one for it, or when a call begins one that knows an older cache,
\* or with the whole page.
OlderNeedsOverlap ==
  [][\A p \in Shops : entries'[p].games \in 0 .. entries[p].games - 1 =>
       \/ \E r \in Requests : EndsCrossed(r, p) \/ BeginsLate(r, p)
       \/ crashed]_gameVars

\* In whatever order the answers come, the page ends up with the games of the
\* provider that is chosen, unless a failed request has crashed it.
PageSettles ==
  <>[](crashed \/ /\ page.shop = provider /\ page.games > 0
                  /\ page.games = entries[provider].games)
=============================================================================
