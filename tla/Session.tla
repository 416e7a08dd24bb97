------------------------------- MODULE Session -------------------------------
(***************************************************************************)
(* The session of the client: the tokens and the saved user in the         *)
(* browser's storage, shared by the open pages, and in each page the       *)
(* signed-in user, the calls that createProtectedClient wraps, and the     *)
(* refresh they share (frontend/src/composables/useSocialClient.ts,        *)
(* useAuth.ts, App.vue).                                                   *)
(*                                                                         *)
(* One action is what a page does from one event (a load, a click, an      *)
(* answer) until all its promise continuations have run: nothing else runs *)
(* in the page in between.  Loading a page again drops all that it waited  *)
(* for.  A token is the user it is of; the server may refuse any of them,  *)
(* be it that the hour of the token is over or that no key of it is found  *)
(* (module Auth).                                                          *)
(***************************************************************************)
EXTENDS Naturals, FiniteSets

CONSTANTS
    Users, None,
    FirstUser,      \* the user of an earlier visit
    Pages,          \* tabs of the same browser
    CallsOf,        \* the protected calls each page may have under way at once
    MaxEvents       \* bound on loads, logins, logouts and expiries

ASSUME SessionAssumption == 
    /\ None \notin Users /\ FirstUser \in Users /\ MaxEvents \in Nat
    /\ DOMAIN CallsOf = Pages

VARIABLES
    jar,        \* id: cookie id_token; refresh: refresh_token; saved: auth_user;
                \* the user of each, or None
    pg,         \* of each page: user, does a login run, the refresh under way
                \* (the user of its token), and where each call is
    events,     \* loads, logins, logouts and expiries so far
    signedOut,  \* history: the page that logged out last, None after a login
    late,       \* history: pages that awaited an answer at that logout or login
    mixed       \* history: that login kept the refresh token of another user

sessionVars == <<jar, pg, events, signedOut, late, mixed>>

Blank(p) == [user |-> None, login |-> FALSE, refresh |-> None, call |-> [k \in CallsOf[p] |-> "idle"]]

\* The storage as an earlier visit may have left it.
SignedOutJar == [id |-> None, refresh |-> None, saved |-> None]
SignedInJars == [id : {FirstUser, None}, refresh : {FirstUser, None}, saved : {FirstUser}]

SessionInit ==
    /\ jar \in {SignedOutJar} \cup SignedInJars
    /\ pg = [p \in Pages |-> Blank(p)]
    /\ events = 0
    /\ signedOut = None /\ late = {} /\ mixed = FALSE

-----------------------------------------------------------------------------
Event == events < MaxEvents /\ events' = events + 1
KeepHistory == UNCHANGED <<signedOut, late, mixed>>
Refreshing == {p \in Pages : pg[p].refresh # None}

\* App.vue loads a page, or loads it again: restoreSession shows the saved
\* user while there is an id token.  Its getProfile always throws a
\* TypeError, for the generated UserServiceClient has no such method: the
\* saved user is never replaced and no refresh follows.
Load(p) ==
    /\ Event
    /\ pg' = [pg EXCEPT ![p] = [Blank(p) EXCEPT !.user = IF jar.id = None THEN None ELSE jar.saved]]
    /\ UNCHANGED jar /\ KeepHistory

\* The page is loaded with the code of the OAuth redirect.
LoadWithCode(p) ==
    /\ Event
    /\ pg' = [pg EXCEPT ![p] = [Blank(p) EXCEPT !.login = TRUE]]
    /\ UNCHANGED jar /\ KeepHistory

\* Mutant of SignedIn: saveUser is forgotten.
MutSignedIn(u, refresh) == [jar EXCEPT !.id = u, !.refresh = refresh]

\* The storage after the login of u.
SignedIn(u, refresh) == [id |-> u, refresh |-> refresh, saved |-> u]

\* The login is answered; a refresh token in the answer replaces the old one.
LoginOk(p) ==
    /\ pg[p].login
    /\ \E u \in Users : \E refresh \in {u, jar.refresh} :
         /\ jar' = SignedIn(u, refresh)
         /\ pg' = [pg EXCEPT ![p].login = FALSE, ![p].user = u]
         /\ mixed' = (refresh \notin {u, None})
    /\ signedOut' = None /\ late' = Refreshing
    /\ UNCHANGED events

LoginFailed(p) ==
    /\ pg[p].login
    /\ pg' = [pg EXCEPT ![p].login = FALSE]
    /\ UNCHANGED <<jar, events>> /\ KeepHistory

\* Mutant of AfterLogout: the refresh token is left.
MutAfterLogout == [SignedOutJar EXCEPT !.refresh = jar.refresh]

\* clearAccessToken and clearUser.
AfterLogout == SignedOutJar

\* logout: nothing that is in flight is cancelled.
Logout(p) ==
    /\ Event
    /\ pg[p].user # None
    /\ jar' = AfterLogout
    /\ pg' = [pg EXCEPT ![p].user = None]
    /\ signedOut' = p /\ late' = Refreshing /\ mixed' = FALSE

\* A component makes a protected call.
AppCall(p, k) ==
    /\ pg[p].call[k] = "idle"
    /\ pg' = [pg EXCEPT ![p].call[k] = "first"]
    /\ UNCHANGED <<jar, events>> /\ KeepHistory

InFlight(p, k) == pg[p].call[k] \in {"first", "retry"}

\* The call ends: with a result, or with any error but UNAUTHENTICATED.
ReplyOk(p, k) ==
    /\ InFlight(p, k)
    /\ pg' = [pg EXCEPT ![p].call[k] = "idle"]
    /\ UNCHANGED <<jar, events>> /\ KeepHistory

\* The server refuses the token: handleUnauthenticated.  The first time, and while there is an id token, the
\* call joins the refresh of the page, or starts it if there is a refresh token.
ReplyUnauth(p, k) ==
    /\ InFlight(p, k)
    /\ LET g == pg[p]
           token == IF g.refresh # None THEN g.refresh ELSE jar.refresh
           joins == g.call[k] = "first" /\ jar.id # None /\ token # None
       IN  pg' = [pg EXCEPT ![p].refresh = IF joins THEN token ELSE @,
                            ![p].call[k] = IF joins THEN "wait" ELSE "idle"]
    /\ UNCHANGED <<jar, events>> /\ KeepHistory

\* Mutant of Resumed: only one of the calls that wait goes on.
MutResumed(g, r) ==
    LET waiting == {k \in DOMAIN g.call : g.call[k] = "wait"}
    IN  [g EXCEPT !.refresh = None, !.call[CHOOSE k \in waiting : TRUE] = r]

\* The refresh of a page is over: every call that waits goes on with r.
Resumed(g, r) ==
    [g EXCEPT !.refresh = None, !.call = [k \in DOMAIN @ |-> IF @[k] = "wait" THEN r ELSE @[k]]]

\* refreshAccessToken is answered: every call that waits is sent once more.
RefreshOk(p) ==
    /\ pg[p].refresh # None
    /\ jar' = [jar EXCEPT !.id = pg[p].refresh]
    /\ pg' = [pg EXCEPT ![p] = Resumed(@, "retry")]
    /\ UNCHANGED events /\ KeepHistory

\* refreshAccessToken fails, or is answered without an id token: the waiting
\* calls end with their error.  A failure deletes both tokens, whichever
\* they are by now; the answer without a token leaves them.
RefreshFailed(p) ==
    /\ pg[p].refresh # None
    /\ jar' \in {[jar EXCEPT !.id = None, !.refresh = None], jar}
    /\ pg' = [pg EXCEPT ![p] = Resumed(@, "idle")]
    /\ UNCHANGED events /\ KeepHistory

\* The cookie of the id token expires after a day, that of the refresh token
\* after thirty.
Expire ==
    /\ Event
    /\ \/ jar.id # None /\ jar' = [jar EXCEPT !.id = None]
       \/ jar.refresh # None /\ jar' = [jar EXCEPT !.refresh = None]
    /\ UNCHANGED pg /\ KeepHistory

LoginAnswered(p) == LoginOk(p) \/ LoginFailed(p)
CallAnswered(p, k) == ReplyOk(p, k) \/ ReplyUnauth(p, k)
RefreshAnswered(p) == RefreshOk(p) \/ RefreshFailed(p)

SessionNext ==
    \/ \E p \in Pages : Load(p) \/ LoadWithCode(p) \/ Logout(p)
    \/ \E p \in Pages : LoginAnswered(p) \/ RefreshAnswered(p)
    \/ \E p \in Pages : \E k \in CallsOf[p] : AppCall(p, k) \/ CallAnswered(p, k)
    \/ Expire

\* The browser settles every request, with an answer or with an error.
SessionFairness ==
    \A p \in Pages :
        /\ WF_sessionVars(LoginAnswered(p)) /\ WF_sessionVars(RefreshAnswered(p))
        /\ \A k \in CallsOf[p] : WF_sessionVars(CallAnswered(p, k))

SessionSpec == SessionInit /\ [][SessionNext]_sessionVars /\ SessionFairness

-----------------------------------------------------------------------------
\* After a logout (useAuth.ts) no refresh token and no saved user comes back,
\* in any page, until a login, and the page that logged out shows nobody; an
\* id token comes back only from a refresh that a page had under way.
LogoutHolds ==
    signedOut # None =>
        /\ jar.refresh = None /\ jar.saved = None /\ pg[signedOut].user = None
        /\ jar.id # None => late # {}

\* The saved user, whom the next load shows (restoreSession), is the user of
\* the id token, unless a page had a refresh of the earlier session under way
\* when the present one began, or the login kept the other user's token.
SavedIsTokenUser ==
    jar.id # None /\ jar.saved # None => jar.id = jar.saved \/ late # {} \/ mixed

\* Every protected call ends, although several wait for one refresh and are
\* sent again after it (handleUnauthenticated).
EveryCallEnds ==
    \A p \in Pages : \A k \in CallsOf[p] : pg[p].call[k] # "idle" ~> pg[p].call[k] = "idle"

\* A page loaded while the refresh token and the saved user are there shows
\* the user ("Sessão restaurada automaticamente").
RestoresWhenPossible ==
    [][\A p \in Pages : Load(p) /\ jar.refresh # None /\ jar.saved # None => pg'[p].user # None]_sessionVars
=============================================================================
