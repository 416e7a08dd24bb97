---------------------------- MODULE ClientProofs ----------------------------
(***************************************************************************)
(* Proofs about the client: its session (Session), for any users, pages    *)
(* and calls and any number of events, and its post store (PostStore).     *)
(***************************************************************************)
EXTENDS PostStore, Session, FiniteSetTheorems, WellFoundedInduction, TLAPS

Known == Users \cup {None}
CallState == {"idle", "first", "wait", "retry"}
PageState(p) == [user : Known, login : BOOLEAN, refresh : Known, call : [CallsOf[p] -> CallState]]

SessionType ==
    /\ jar \in [id : Known, refresh : Known, saved : Known]
    /\ DOMAIN pg = Pages /\ pg = [p \in Pages |-> pg[p]]
    /\ \A p \in Pages : pg[p] \in PageState(p)
    /\ signedOut \in Pages \cup {None}

\* After a logout there is no token to start a refresh with: the refreshes
\* under way are those that were under way then.
OldRefreshes == signedOut # None => \A p \in Pages : pg[p].refresh # None => p \in late

\* Unless a refresh of an earlier session was under way when the present
\* one began, or its login kept another's refresh token, every refresh token
\* in use is the saved user's.
OwnRefreshes ==
    late = {} /\ ~mixed =>
        jar.refresh \in {None, jar.saved} /\ \A p \in Pages : pg[p].refresh \in {None, jar.saved}

\* A call waits only for a refresh that is under way.
WaitersServed == \A p \in Pages : \A k \in CallsOf[p] : pg[p].call[k] = "wait" => pg[p].refresh # None

SessionInv ==
    SessionType /\ LogoutHolds /\ SavedIsTokenUser /\ OldRefreshes /\ OwnRefreshes /\ WaitersServed

LEMMA SessionInitInv == SessionInit => SessionInv
  <1> SUFFICES ASSUME SessionInit PROVE SessionInv
    OBVIOUS
  <1>1. FirstUser \in Users
    BY SessionAssumption
  <1>2. \/ jar = [id |-> None, refresh |-> None, saved |-> None]
        \/ jar \in [id : {FirstUser, None}, refresh : {FirstUser, None}, saved : {FirstUser}]
    BY DEF SessionInit, SignedOutJar, SignedInJars
  <1>3. \A p \in Pages : /\ pg[p].user = None /\ pg[p].refresh = None /\ pg[p] \in PageState(p)
                         /\ \A k \in CallsOf[p] : pg[p].call[k] = "idle"
    BY DEF SessionInit, Blank, PageState, CallState, Known
  <1>4. SessionType
    BY <1>1, <1>2, <1>3 DEF SessionType, SessionInit, Known
  <1> QED
    BY <1>2, <1>3, <1>4 DEF SessionInv, LogoutHolds, SavedIsTokenUser, OldRefreshes, OwnRefreshes, WaitersServed, SessionInit

-----------------------------------------------------------------------------
\* A step of page p that leaves the storage and the history alone: it shows
\* nobody new but the saved user, and uses no refresh token but its own and
\* the stored one.
LEMMA PageStep ==
    ASSUME SessionInv, NEW p \in Pages, NEW g \in PageState(p), UNCHANGED <<jar, signedOut, late, mixed>>,
           pg' = [pg EXCEPT ![p] = g],
           g.user \in {None, pg[p].user} \/ g.user = jar.saved,
           g.refresh \in {None, pg[p].refresh, jar.refresh},
           \A k \in CallsOf[p] : g.call[k] = "wait" => g.refresh # None
    PROVE  SessionInv'
  <1>1. SessionType
    BY DEF SessionInv
  <1>2. pg'[p] = g /\ \A q \in Pages : q # p => pg'[q] = pg[q]
    BY <1>1 DEF SessionType
  <1>3. SessionType'
    BY <1>1, <1>2 DEF SessionType
  <1>4. LogoutHolds'
    BY <1>1, <1>2 DEF SessionType, SessionInv, LogoutHolds
  <1>5. SavedIsTokenUser'
    BY DEF SessionInv, SavedIsTokenUser
  <1>6. OldRefreshes'
    BY <1>2 DEF SessionInv, OldRefreshes, LogoutHolds
  <1>7. OwnRefreshes'
    BY <1>2 DEF SessionInv, OwnRefreshes
  <1>8. WaitersServed'
    BY <1>2 DEF SessionInv, WaitersServed
  <1> QED
    BY <1>3, <1>4, <1>5, <1>6, <1>7, <1>8 DEF SessionInv

LEMMA LoadStep ==
    ASSUME SessionInv, NEW p \in Pages, Load(p) \/ LoadWithCode(p) \/ LoginFailed(p)
    PROVE  SessionInv'
  <1>1. SessionType
    BY DEF SessionInv
  <1>2. /\ Blank(p) \in PageState(p) /\ Blank(p).user = None /\ Blank(p).refresh = None
        /\ \A k \in CallsOf[p] : Blank(p).call[k] = "idle"
    BY DEF Blank, PageState, CallState, Known
  <1>3. CASE Load(p)
    <2> DEFINE g == [Blank(p) EXCEPT !.user = IF jar.id = None THEN None ELSE jar.saved]
    <2>1. jar.saved \in Known
      BY <1>1 DEF SessionType
    <2>2. /\ g \in PageState(p) /\ g.user \in {None, jar.saved} /\ g.refresh = None
          /\ \A k \in CallsOf[p] : g.call[k] = "idle"
      BY <1>2, <2>1 DEF PageState, Known
    <2>3. pg' = [pg EXCEPT ![p] = g] /\ UNCHANGED <<jar, signedOut, late, mixed>>
      BY <1>3 DEF Load, KeepHistory
    <2> HIDE DEF g
    <2> QED
      BY <2>2, <2>3, PageStep
  <1>4. CASE LoadWithCode(p)
    <2> DEFINE g == [Blank(p) EXCEPT !.login = TRUE]
    <2>1. /\ g \in PageState(p) /\ g.user = None /\ g.refresh = None
          /\ \A k \in CallsOf[p] : g.call[k] = "idle"
      BY <1>2 DEF PageState
    <2>2. pg' = [pg EXCEPT ![p] = g] /\ UNCHANGED <<jar, signedOut, late, mixed>>
      BY <1>4 DEF LoadWithCode, KeepHistory
    <2> HIDE DEF g
    <2> QED
      BY <2>1, <2>2, PageStep
  <1>5. CASE LoginFailed(p)
    <2> DEFINE g == [pg[p] EXCEPT !.login = FALSE]
    <2>1. pg[p] \in PageState(p)
      BY <1>1 DEF SessionType
    <2>2. g \in PageState(p) /\ g.user = pg[p].user /\ g.refresh = pg[p].refresh /\ g.call = pg[p].call
      BY <2>1 DEF PageState
    <2>3. pg' = [pg EXCEPT ![p] = g] /\ UNCHANGED <<jar, signedOut, late, mixed>>
      BY <1>5 DEF LoginFailed, KeepHistory
    <2>4. \A k \in CallsOf[p] : g.call[k] = "wait" => g.refresh # None
      BY <2>2 DEF SessionInv, WaitersServed
    <2> HIDE DEF g
    <2> QED
      BY <2>2, <2>3, <2>4, PageStep
  <1> QED
    BY <1>3, <1>4, <1>5

\* A call begins, ends, or is refused: the refresh it then joins or starts
\* is the page's own, or of the stored token.
LEMMA CallStep ==
    ASSUME SessionInv, NEW p \in Pages, NEW k \in CallsOf[p],
           AppCall(p, k) \/ ReplyOk(p, k) \/ ReplyUnauth(p, k)
    PROVE  SessionInv'
  <1>1. SessionType
    BY DEF SessionInv
  <1>2. pg[p] \in PageState(p) /\ jar.refresh \in Known
    BY <1>1 DEF SessionType
  <1>3. PICK r, c : /\ pg' = [pg EXCEPT ![p].refresh = r, ![p].call[k] = c]
                    /\ r \in {pg[p].refresh, jar.refresh} /\ c \in CallState
                    /\ pg[p].refresh # None => r = pg[p].refresh
                    /\ c = "wait" => r # None
    <2>1. CASE AppCall(p, k)
      <3>1. pg' = [pg EXCEPT ![p].call[k] = "first"]
        BY <2>1 DEF AppCall
      <3>2. "first" \in CallState /\ "first" # "wait"
        BY DEF CallState
      <3>3. pg' = [pg EXCEPT ![p].refresh = pg[p].refresh, ![p].call[k] = "first"]
        BY <1>1, <1>2, <3>1 DEF SessionType, PageState
      <3> QED
        BY <3>2, <3>3
    <2>2. CASE ReplyOk(p, k)
      <3>1. pg' = [pg EXCEPT ![p].call[k] = "idle"]
        BY <2>2 DEF ReplyOk
      <3>2. "idle" \in CallState /\ "idle" # "wait"
        BY DEF CallState
      <3>3. pg' = [pg EXCEPT ![p].refresh = pg[p].refresh, ![p].call[k] = "idle"]
        BY <1>1, <1>2, <3>1 DEF SessionType, PageState
      <3> QED
        BY <3>2, <3>3
    <2>3. CASE ReplyUnauth(p, k)
      <3> DEFINE token == IF pg[p].refresh # None THEN pg[p].refresh ELSE jar.refresh
                 joins == pg[p].call[k] = "first" /\ jar.id # None /\ token # None
                 r == IF joins THEN token ELSE pg[p].refresh
                 c == IF joins THEN "wait" ELSE "idle"
      <3>1. pg' = [pg EXCEPT ![p].refresh = r, ![p].call[k] = c]
        BY <2>3 DEF ReplyUnauth
      <3>2. r \in {pg[p].refresh, jar.refresh} /\ (pg[p].refresh # None => r = pg[p].refresh)
        OBVIOUS
      <3>3. c \in CallState /\ (c = "wait" => r # None)
        BY DEF CallState
      <3> HIDE DEF r, c
      <3> QED
        BY <3>1, <3>2, <3>3
    <2> QED
      BY <2>1, <2>2, <2>3
  <1>4. UNCHANGED <<jar, signedOut, late, mixed>>
    BY DEF AppCall, ReplyOk, ReplyUnauth, KeepHistory
  <1> DEFINE g == [pg[p] EXCEPT !.refresh = r, !.call[k] = c]
  <1>5. g \in PageState(p) /\ g.user = pg[p].user /\ g.refresh = r /\ g.call = [pg[p].call EXCEPT ![k] = c]
    BY <1>2, <1>3 DEF PageState
  <1>6. pg' = [pg EXCEPT ![p] = g]
    BY <1>1, <1>2, <1>3 DEF SessionType, PageState
  <1>7. \A j \in CallsOf[p] : g.call[j] = "wait" => g.refresh # None
    BY <1>2, <1>3, <1>5 DEF SessionInv, WaitersServed, PageState
  <1> HIDE DEF g
  <1> QED
    BY <1>3, <1>4, <1>5, <1>6, <1>7, PageStep

-----------------------------------------------------------------------------
LEMMA LoginInv == ASSUME SessionInv, NEW p \in Pages, LoginOk(p) PROVE SessionInv'
  <1>1. SessionType /\ pg[p] \in PageState(p)
    BY DEF SessionInv, SessionType
  <1>2. PICK u \in Users, refresh \in Known :
          /\ refresh \in {u, jar.refresh} /\ jar' = SignedIn(u, refresh)
          /\ pg' = [pg EXCEPT ![p].login = FALSE, ![p].user = u]
          /\ mixed' = (refresh \notin {u, None})
    BY <1>1 DEF LoginOk, SessionType, Known
  <1>3. signedOut' = None /\ late' = {q \in Pages : pg[q].refresh # None}
    BY DEF LoginOk, Refreshing
  <1>4. jar' = [id |-> u, refresh |-> refresh, saved |-> u] /\ refresh \in Known
    BY <1>1, <1>2 DEF SignedIn, SessionType, Known
  <1>5. /\ \A q \in Pages : q # p => pg'[q] = pg[q]
        /\ pg'[p] \in PageState(p) /\ pg'[p].refresh = pg[p].refresh /\ pg'[p].call = pg[p].call
    BY <1>1, <1>2 DEF SessionType, PageState, Known
  <1>6. SessionType'
    <2>1. jar' \in [id : Known, refresh : Known, saved : Known]
      BY <1>4 DEF Known
    <2>2. DOMAIN pg' = Pages /\ pg' = [q \in Pages |-> pg'[q]]
      BY <1>1, <1>2 DEF SessionType
    <2> QED
      BY <1>1, <1>3, <1>5, <2>1, <2>2 DEF SessionType
  <1>7. LogoutHolds' /\ SavedIsTokenUser' /\ OldRefreshes'
    BY <1>3, <1>4 DEF LogoutHolds, SavedIsTokenUser, OldRefreshes
  <1>8. OwnRefreshes'
    <2>1. ~mixed' => jar'.refresh \in {None, jar'.saved}
      <3>1. CASE refresh \in {u, None}
        BY <1>4, <3>1
      <3>2. CASE refresh \notin {u, None}
        <4>1. mixed'
          BY <1>2, <3>2
        <4> QED
          BY <4>1
      <3> QED
        BY <3>1, <3>2
    <2>2. late' = {} => \A q \in Pages : pg'[q].refresh = None
      BY <1>3, <1>5
    <2> QED
      BY <2>1, <2>2 DEF OwnRefreshes
  <1>9. WaitersServed'
    BY <1>5 DEF SessionInv, WaitersServed
  <1> QED
    BY <1>6, <1>7, <1>8, <1>9 DEF SessionInv

LEMMA LogoutInv == ASSUME SessionInv, NEW p \in Pages, Logout(p) PROVE SessionInv'
  <1>1. SessionType /\ pg[p] \in PageState(p)
    BY DEF SessionInv, SessionType
  <1>2. /\ jar' = [id |-> None, refresh |-> None, saved |-> None]
        /\ pg' = [pg EXCEPT ![p].user = None]
        /\ signedOut' = p /\ late' = {q \in Pages : pg[q].refresh # None} /\ mixed' = FALSE
    BY DEF Logout, AfterLogout, SignedOutJar, Refreshing
  <1>3. /\ \A q \in Pages : q # p => pg'[q] = pg[q]
        /\ pg'[p] \in PageState(p) /\ pg'[p].refresh = pg[p].refresh /\ pg'[p].call = pg[p].call
        /\ pg'[p].user = None
    BY <1>1, <1>2 DEF SessionType, PageState, Known
  <1>4. SessionType'
    <2>1. jar' \in [id : Known, refresh : Known, saved : Known]
      BY <1>2 DEF Known
    <2>2. DOMAIN pg' = Pages /\ pg' = [q \in Pages |-> pg'[q]]
      BY <1>1, <1>2 DEF SessionType
    <2> QED
      BY <1>1, <1>2, <1>3, <2>1, <2>2 DEF SessionType
  <1>5. LogoutHolds' /\ SavedIsTokenUser'
    BY <1>2, <1>3 DEF LogoutHolds, SavedIsTokenUser
  <1>6. OldRefreshes' /\ OwnRefreshes'
    BY <1>2, <1>3 DEF OldRefreshes, OwnRefreshes
  <1>7. WaitersServed'
    BY <1>3 DEF SessionInv, WaitersServed
  <1> QED
    BY <1>4, <1>5, <1>6, <1>7 DEF SessionInv

\* A step that ends the refresh of page p, and stores its token, deletes
\* those that are stored, or leaves them.
LEMMA RefreshStep ==
    ASSUME SessionInv, NEW p \in Pages, RefreshOk(p) \/ RefreshFailed(p)
    PROVE  SessionInv'
  <1>1. SessionType /\ pg[p] \in PageState(p)
    BY DEF SessionInv, SessionType
  <1>2. pg[p].refresh # None /\ pg[p].refresh \in Users
    BY <1>1 DEF RefreshOk, RefreshFailed, PageState, Known
  <1>3. UNCHANGED <<signedOut, late, mixed>>
    BY DEF RefreshOk, RefreshFailed, KeepHistory
  <1>4. \/ jar' = [jar EXCEPT !.id = pg[p].refresh]
        \/ jar' = [jar EXCEPT !.id = None, !.refresh = None]
        \/ jar' = jar
    BY DEF RefreshOk, RefreshFailed
  <1>5. PICK r \in CallState : r # "wait" /\ pg' = [pg EXCEPT ![p] = Resumed(pg[p], r)]
    <2>1. "retry" \in CallState \ {"wait"} /\ "idle" \in CallState \ {"wait"}
      BY DEF CallState
    <2> QED
      BY <2>1 DEF RefreshOk, RefreshFailed
  <1>6. /\ \A q \in Pages : q # p => pg'[q] = pg[q]
        /\ pg'[p] = Resumed(pg[p], r)
    BY <1>1, <1>5 DEF SessionType
  <1>7. /\ pg'[p] \in PageState(p) /\ pg'[p].refresh = None /\ pg'[p].user = pg[p].user
        /\ \A k \in CallsOf[p] : pg'[p].call[k] # "wait"
    <2>1. Resumed(pg[p], r) =
            [pg[p] EXCEPT !.refresh = None,
                          !.call = [k \in CallsOf[p] |-> IF pg[p].call[k] = "wait" THEN r ELSE pg[p].call[k]]]
      BY <1>1 DEF Resumed, PageState
    <2> DEFINE resumed == [k \in CallsOf[p] |-> IF pg[p].call[k] = "wait" THEN r ELSE pg[p].call[k]]
    <2>2. pg[p].call \in [CallsOf[p] -> CallState]
      BY <1>1 DEF PageState
    <2>3. resumed \in [CallsOf[p] -> CallState] /\ \A k \in CallsOf[p] : resumed[k] # "wait"
      BY <1>5, <2>2
    <2>4. pg'[p] = [pg[p] EXCEPT !.refresh = None, !.call = resumed]
      BY <1>6, <2>1
    <2> HIDE DEF resumed
    <2> QED
      BY <1>1, <2>3, <2>4 DEF PageState, Known
  <1>8. SessionType'
    <2>1. jar' \in [id : Known, refresh : Known, saved : Known]
      <3>1. pg[p].refresh \in Known
        BY <1>2 DEF Known
      <3>2. jar \in [id : Known, refresh : Known, saved : Known] /\ None \in Known
        BY <1>1 DEF SessionType, Known
      <3> QED
        BY <1>4, <3>1, <3>2
    <2>2. DOMAIN pg' = Pages /\ pg' = [q \in Pages |-> pg'[q]]
      BY <1>1, <1>5 DEF SessionType
    <2> QED
      BY <1>1, <1>3, <1>6, <1>7, <2>1, <2>2 DEF SessionType
  <1>9. jar'.saved = jar.saved /\ jar'.refresh \in {None, jar.refresh} /\ jar'.id \in {None, jar.id, pg[p].refresh}
    BY <1>1, <1>4 DEF SessionType
  <1>10. LogoutHolds'
    <2>1. signedOut # None => late # {}
      BY <1>2 DEF SessionInv, OldRefreshes
    <2>2. signedOut # None => pg'[signedOut].user = None
      BY <1>1, <1>6, <1>7 DEF SessionInv, LogoutHolds, SessionType
    <2> QED
      BY <1>3, <1>9, <2>1, <2>2 DEF SessionInv, LogoutHolds
  <1>11. SavedIsTokenUser'
    BY <1>2, <1>3, <1>9 DEF SessionInv, OwnRefreshes, SavedIsTokenUser
  <1>12. OldRefreshes' /\ OwnRefreshes'
    BY <1>3, <1>6, <1>7, <1>9 DEF SessionInv, OldRefreshes, OwnRefreshes
  <1>13. WaitersServed'
    BY <1>6, <1>7 DEF SessionInv, WaitersServed
  <1> QED
    BY <1>8, <1>10, <1>11, <1>12, <1>13 DEF SessionInv

LEMMA ExpireInv == ASSUME SessionInv, Expire PROVE SessionInv'
  <1>1. SessionType
    BY DEF SessionInv
  <1>2. UNCHANGED <<pg, signedOut, late, mixed>>
    BY DEF Expire, KeepHistory
  <1>3. /\ jar' \in [id : Known, refresh : Known, saved : Known]
        /\ jar'.saved = jar.saved /\ jar'.refresh \in {None, jar.refresh}
        /\ jar'.id \in {None, jar.id}
    <2>1. CASE jar' = [jar EXCEPT !.id = None]
      BY <1>1, <2>1 DEF SessionType, Known
    <2>2. CASE jar' = [jar EXCEPT !.refresh = None]
      BY <1>1, <2>2 DEF SessionType, Known
    <2> QED
      BY <2>1, <2>2 DEF Expire
  <1>4. SessionType'
    BY <1>1, <1>2, <1>3 DEF SessionType
  <1>5. LogoutHolds' /\ SavedIsTokenUser'
    BY <1>2, <1>3 DEF SessionInv, LogoutHolds, SavedIsTokenUser
  <1>6. OldRefreshes' /\ OwnRefreshes' /\ WaitersServed'
    BY <1>2, <1>3 DEF SessionInv, OldRefreshes, OwnRefreshes, WaitersServed
  <1> QED
    BY <1>4, <1>5, <1>6 DEF SessionInv

LEMMA SessionNextInv == SessionInv /\ [SessionNext]_sessionVars => SessionInv'
  <1> SUFFICES ASSUME SessionInv, [SessionNext]_sessionVars PROVE SessionInv'
    OBVIOUS
  <1>1. ASSUME NEW p \in Pages, Load(p) \/ LoadWithCode(p) \/ LoginFailed(p) PROVE SessionInv'
    BY <1>1, LoadStep
  <1>2. ASSUME NEW p \in Pages, LoginOk(p) PROVE SessionInv'
    BY <1>2, LoginInv
  <1>3. ASSUME NEW p \in Pages, Logout(p) PROVE SessionInv'
    BY <1>3, LogoutInv
  <1>4. ASSUME NEW p \in Pages, RefreshOk(p) \/ RefreshFailed(p) PROVE SessionInv'
    BY <1>4, RefreshStep
  <1>5. ASSUME NEW p \in Pages, NEW k \in CallsOf[p], AppCall(p, k) \/ ReplyOk(p, k) \/ ReplyUnauth(p, k)
        PROVE  SessionInv'
    BY <1>5, CallStep
  <1>6. CASE Expire
    BY <1>6, ExpireInv
  <1>7. CASE UNCHANGED sessionVars
    BY <1>7 DEF sessionVars, SessionInv, SessionType, LogoutHolds, SavedIsTokenUser, OldRefreshes, OwnRefreshes,
                WaitersServed
  <1> QED
    BY <1>1, <1>2, <1>3, <1>4, <1>5, <1>6, <1>7 DEF SessionNext, LoginAnswered, CallAnswered, RefreshAnswered

LEMMA SessionSpecInv == SessionSpec => []SessionInv
  BY SessionInitInv, SessionNextInv, PTL DEF SessionSpec

-----------------------------------------------------------------------------
\* After a logout no refresh token and no saved user comes back until a
\* login, and an id token comes back only from a refresh that some page had
\* under way when the user logged out.
THEOREM LogoutIsFinal == SessionSpec => []LogoutHolds
  <1>1. SessionInv => LogoutHolds
    BY DEF SessionInv
  <1> QED
    BY <1>1, SessionSpecInv, PTL

\* The user whom the next load shows is the user of the id token, unless a
\* refresh crossed a login or a login kept another user's refresh token.
THEOREM SavedUserIsTokenUser == SessionSpec => []SavedIsTokenUser
  <1>1. SessionInv => SavedIsTokenUser
    BY DEF SessionInv
  <1> QED
    BY <1>1, SessionSpecInv, PTL

\* No call waits for a refresh that is over: handleUnauthenticated joins a
\* refresh under way or starts one, and its end releases every waiting call.
THEOREM NoForgottenWaiter == SessionSpec => []WaitersServed
  <1>1. SessionInv => WaitersServed
    BY DEF SessionInv
  <1> QED
    BY <1>1, SessionSpecInv, PTL

-----------------------------------------------------------------------------
(* The post store (PostStore), for any posts, slots, references, limits and *)
(* numbers of calls.                                                        *)

Ops == {"idle", "fetch", "more", "create", "delete", "like"}

\* What a call in flight carries, as far as the marks of the store go.
CallShape ==
    /\ call = [s \in Slots |-> call[s]] /\ DOMAIN call = Slots /\ DOMAIN likeVersions = AnyId
    /\ \A s \in Slots :
         /\ "op" \in DOMAIN call[s] /\ call[s].op \in Ops
         /\ call[s].op \in {"like", "delete"} => "id" \in DOMAIN call[s] /\ call[s].id \in AnyId
         /\ call[s].op = "like" => "version" \in DOMAIN call[s]

\* The guards admit one load, and one like of a post, at a time.
OneLoad == \A s, t \in Loads : s = t
OneLike == \A s, t \in Running({"like"}) : call[s].id = call[t].id => s = t

\* A mark of the store stands for a call in flight.
Marks ==
    /\ "isLoading" \in flags <=> Loads # {}
    /\ "isCreating" \in flags => Running({"create"}) # {}
    /\ "isDeleting" \in flags => Running({"delete"}) # {}
    /\ pendingLikes = {call[s].id : s \in Running({"like"})}

MarksInv == CallShape /\ OneLoad /\ OneLike /\ Marks /\ VersionsAgree

\* Without a call there is no mark.
LEMMA MarksInit == Init => MarksInv
  <1> SUFFICES ASSUME Init PROVE MarksInv
    OBVIOUS
  <1>1. \A s \in Slots : call[s] = Idle /\ "op" \in DOMAIN call[s] /\ call[s].op = "idle"
    BY DEF Init, Idle
  <1>2. CallShape
    BY <1>1 DEF Init, CallShape, Ops
  <1>3. Loads = {} /\ Running({"create"}) = {} /\ Running({"delete"}) = {} /\ Running({"like"}) = {}
    BY <1>1 DEF Loads, Running
  <1>4. pendingLikes = {} /\ flags = {}
    BY DEF Init
  <1> QED
    BY <1>2, <1>3, <1>4 DEF MarksInv, OneLoad, OneLike, Marks, VersionsAgree

\* The server answers, or an answer is lost: the marks do not move.
LEMMA ServeMarks ==
    ASSUME MarksInv, NEW s \in Slots, Serve(s) \/ ServeCached(s)
    PROVE  MarksInv'
  <1>1. CallShape
    BY DEF MarksInv
  <1>2. UNCHANGED <<flags, likeVersions, pendingLikes>>
    BY DEF Serve, ServeFeed, ServeCached, ServeCreate, ServeDelete, ServeLike, Fail, LoseAnswer, pageState, likeMarks
  <1>3. PICK st, a : call' = [call EXCEPT ![s].st = st, ![s].ans = a] \/ call' = [call EXCEPT ![s].st = st]
    BY DEF Serve, ServeFeed, ServeCached, ServeCreate, ServeDelete, ServeLike, Fail, LoseAnswer, Answer
  <1>4. /\ \A t \in Slots : t # s => call'[t] = call[t]
        /\ call'[s] = [call[s] EXCEPT !.st = st, !.ans = a] \/ call'[s] = [call[s] EXCEPT !.st = st]
        /\ call' = [t \in Slots |-> call'[t]] /\ DOMAIN call' = Slots
    BY <1>1, <1>3 DEF CallShape
  <1>5. /\ DOMAIN call'[s] = DOMAIN call[s] /\ call'[s].op = call[s].op
        /\ "id" \in DOMAIN call[s] => call'[s].id = call[s].id
        /\ "version" \in DOMAIN call[s] => call'[s].version = call[s].version
    BY <1>1, <1>4 DEF CallShape
  <1>6. \A t \in Slots :
          /\ DOMAIN call'[t] = DOMAIN call[t] /\ call'[t].op = call[t].op
          /\ call[t].op \in {"like", "delete"} => call'[t].id = call[t].id
          /\ call[t].op = "like" => call'[t].version = call[t].version
    BY <1>1, <1>4, <1>5 DEF CallShape
  <1>7. CallShape'
    BY <1>1, <1>2, <1>4, <1>6 DEF CallShape
  <1>8. \A ops : Running(ops)' = Running(ops)
    BY <1>6 DEF Running
  <1>9. OneLoad' /\ OneLike'
    BY <1>6, <1>8 DEF MarksInv, OneLoad, OneLike, Loads, Running
  <1>10. Marks'
    BY <1>2, <1>6, <1>8 DEF MarksInv, Marks, Loads, Running
  <1>11. VersionsAgree'
    BY <1>2, <1>6, <1>8 DEF MarksInv, VersionsAgree, Current, Running
  <1> QED
    BY <1>7, <1>9, <1>10, <1>11 DEF MarksInv

\* Call r takes the idle slot s: what runs afterwards.
LEMMA BeginCalls ==
    ASSUME MarksInv, NEW s \in Slots, call[s] = Idle, NEW r, call' = [call EXCEPT ![s] = r],
           "op" \in DOMAIN r, r.op \in Ops,
           r.op \in {"like", "delete"} => "id" \in DOMAIN r /\ r.id \in AnyId,
           r.op = "like" => "version" \in DOMAIN r, DOMAIN likeVersions' = AnyId
    PROVE  /\ CallShape' /\ call[s].op = "idle"
           /\ call'[s] = r /\ \A t \in Slots : t # s => call'[t] = call[t]
  <1>1. CallShape
    BY DEF MarksInv
  <1>2. call'[s] = r /\ \A t \in Slots : t # s => call'[t] = call[t]
    BY <1>1 DEF CallShape
  <1>3. call' = [t \in Slots |-> call'[t]] /\ DOMAIN call' = Slots
    BY <1>1 DEF CallShape
  <1>4. call[s].op = "idle"
    BY DEF Idle
  <1> QED
    BY <1>1, <1>2, <1>3, <1>4 DEF CallShape

LEMMA BeginMarks ==
    ASSUME MarksInv, NEW s \in Slots, Begin(s)
    PROVE  MarksInv'
  <1>1. call[s] = Idle /\ CallShape
    BY DEF Begin, MarksInv
  <1>2. ASSUME NEW op \in {"fetch", "more"}, BeginLoad(s, op) PROVE MarksInv'
    <2>1. PICK r : /\ r = [op |-> op, st |-> "sent", ans |-> << >>, page |-> IF op = "fetch" THEN 1 ELSE page + 1]
                   /\ call' = [call EXCEPT ![s] = r]
      BY <1>2 DEF BeginLoad
    <2>2. "op" \in DOMAIN r /\ r.op \in {"fetch", "more"} /\ r.op \in Ops
      BY <2>1 DEF Ops
    <2>a. call' = [call EXCEPT ![s] = r]
      BY <2>1
    <2>3. /\ "isLoading" \notin flags /\ flags' = flags \cup {"isLoading"}
          /\ UNCHANGED <<likeVersions, pendingLikes>>
      BY <1>2 DEF BeginLoad, Raise, likeMarks
    <2>4. DOMAIN likeVersions' = AnyId
      BY <1>1, <2>3 DEF CallShape
    <2>5. /\ CallShape' /\ call[s].op = "idle"
          /\ call'[s] = r /\ \A t \in Slots : t # s => call'[t] = call[t]
      BY <1>1, <2>a, <2>2, <2>4, BeginCalls
    <2>6. /\ Loads = {} /\ Loads' = {s} /\ Running({"like"})' = Running({"like"}) /\ s \notin Running({"like"})
          /\ Running({"create"})' = Running({"create"}) /\ Running({"delete"})' = Running({"delete"})
      <3>1. Loads = {}
        BY <2>3 DEF MarksInv, Marks
      <3>2. Loads' = Loads \cup {s}
        BY <2>2, <2>5 DEF Loads, Running
      <3>3. /\ Running({"like"})' = Running({"like"}) /\ s \notin Running({"like"})
            /\ Running({"create"})' = Running({"create"}) /\ Running({"delete"})' = Running({"delete"})
        BY <2>2, <2>5 DEF Running
      <3> QED
        BY <3>1, <3>2, <3>3
    <2>7. \A t \in Running({"like"}) : call'[t] = call[t]
      BY <2>5, <2>6 DEF Running
    <2>8. OneLoad' /\ OneLike'
      BY <2>6, <2>7 DEF MarksInv, OneLoad, OneLike
    <2>9. Marks'
      BY <2>3, <2>6, <2>7 DEF MarksInv, Marks
    <2>10. VersionsAgree'
      BY <2>3, <2>6, <2>7 DEF MarksInv, VersionsAgree, Current
    <2> QED
      BY <2>5, <2>8, <2>9, <2>10 DEF MarksInv
  <1>3. ASSUME CriarPost(s) \/ \E i \in AnyId : RemovePost(s, i) PROVE MarksInv'
    <2>1. PICK r : /\ call' = [call EXCEPT ![s] = r]
                   /\ "op" \in DOMAIN r /\ r.op \in {"create", "delete"}
                   /\ r.op = "create" => flags' = flags \cup {"isCreating"}
                   /\ r.op = "delete" => flags' = flags \cup {"isDeleting"} /\ "id" \in DOMAIN r /\ r.id \in AnyId
      <3>1. CASE CriarPost(s)
        <4>1. PICK r : r = [op |-> "create", st |-> "sent", ans |-> << >>] /\ call' = [call EXCEPT ![s] = r]
          BY <3>1 DEF CriarPost
        <4>2. "op" \in DOMAIN r /\ r.op = "create"
          BY <4>1
        <4>3. flags' = flags \cup {"isCreating"}
          BY <3>1 DEF CriarPost, Raise
        <4> QED
          BY <4>1, <4>2, <4>3
      <3>2. CASE \E i \in AnyId : RemovePost(s, i)
        <4>1. PICK i \in AnyId : RemovePost(s, i)
          BY <3>2
        <4>2. PICK r : /\ r = [op |-> "delete", st |-> "sent", id |-> i, index |-> IndexOf(i),
                               obj |-> posts[IndexOf(i)], ans |-> << >>]
                       /\ call' = [call EXCEPT ![s] = r]
          BY <4>1 DEF RemovePost, Page
        <4>3. "op" \in DOMAIN r /\ r.op = "delete" /\ "id" \in DOMAIN r /\ r.id \in AnyId
          BY <4>2
        <4>4. flags' = flags \cup {"isDeleting"}
          BY <4>1 DEF RemovePost, Raise
        <4> QED
          BY <4>2, <4>3, <4>4
      <3> QED
        BY <1>3, <3>1, <3>2
    <2>2. UNCHANGED <<likeVersions, pendingLikes>>
      BY <1>3 DEF CriarPost, RemovePost, likeMarks
    <2>3. DOMAIN likeVersions' = AnyId /\ r.op \in Ops
      BY <1>1, <2>1, <2>2 DEF CallShape, Ops
    <2>4. /\ CallShape' /\ call[s].op = "idle"
          /\ call'[s] = r /\ \A t \in Slots : t # s => call'[t] = call[t]
      BY <1>1, <2>1, <2>3, BeginCalls
    <2>5. /\ Loads' = Loads /\ Running({"like"})' = Running({"like"}) /\ s \notin Running({"like"})
          /\ Running({"create"}) \subseteq Running({"create"})'
          /\ Running({"delete"}) \subseteq Running({"delete"})'
          /\ r.op = "create" => s \in Running({"create"})'
          /\ r.op = "delete" => s \in Running({"delete"})'
      BY <2>1, <2>4 DEF Loads, Running
    <2>6. \A t \in Running({"like"}) : call'[t] = call[t]
      BY <2>4, <2>5 DEF Running
    <2>7. OneLoad' /\ OneLike'
      BY <2>5, <2>6 DEF MarksInv, OneLoad, OneLike
    <2>8. Marks'
      BY <2>1, <2>2, <2>5, <2>6 DEF MarksInv, Marks
    <2>9. VersionsAgree'
      BY <2>2, <2>5, <2>6 DEF MarksInv, VersionsAgree, Current
    <2> QED
      BY <2>4, <2>7, <2>8, <2>9 DEF MarksInv
  <1>4. ASSUME NEW i \in AnyId, ToggleLike(s, i) PROVE MarksInv'
    <2>1. PICK r : /\ r = [op |-> "like", st |-> "sent", id |-> i, obj |-> posts[IndexOf(i)],
                           prev |-> heap[posts[IndexOf(i)]], version |-> likeVersions[i] + 1, ans |-> << >>]
                   /\ call' = [call EXCEPT ![s] = r]
      BY <1>4 DEF ToggleLike, Page
    <2>2. /\ "op" \in DOMAIN r /\ r.op = "like" /\ "id" \in DOMAIN r /\ r.id = i
          /\ "version" \in DOMAIN r /\ r.version = likeVersions[i] + 1
      BY <2>1
    <2>a. call' = [call EXCEPT ![s] = r]
      BY <2>1
    <2>3. /\ i \notin pendingLikes /\ pendingLikes' = pendingLikes \cup {i}
          /\ likeVersions' = [likeVersions EXCEPT ![i] = @ + 1] /\ flags' = flags
      BY <1>4 DEF ToggleLike, MayLike
    <2>4. /\ DOMAIN likeVersions' = AnyId /\ r.op \in Ops /\ likeVersions'[i] = likeVersions[i] + 1
          /\ \A j \in AnyId : j # i => likeVersions'[j] = likeVersions[j]
      BY <1>1, <2>2, <2>3 DEF CallShape, Ops
    <2>5. /\ CallShape' /\ call[s].op = "idle"
          /\ call'[s] = r /\ \A t \in Slots : t # s => call'[t] = call[t]
      BY <1>1, <2>a, <2>2, <2>4, BeginCalls
    <2>6. /\ Loads' = Loads /\ Running({"like"})' = Running({"like"}) \cup {s} /\ s \notin Running({"like"})
          /\ Running({"create"})' = Running({"create"}) /\ Running({"delete"})' = Running({"delete"})
      BY <2>2, <2>5 DEF Loads, Running
    <2>7. \A t \in Running({"like"}) : call'[t] = call[t] /\ call[t].id \in AnyId /\ call[t].id # i
      <3> SUFFICES ASSUME NEW t \in Running({"like"}) PROVE call'[t] = call[t] /\ call[t].id \in AnyId /\ call[t].id # i
        OBVIOUS
      <3>1. t \in Slots /\ call[t].op = "like"
        BY DEF Running
      <3>2. call[t].id \in pendingLikes
        BY DEF MarksInv, Marks
      <3> QED
        BY <1>1, <2>3, <2>5, <2>6, <3>1, <3>2 DEF CallShape
    <2>8. OneLoad' /\ OneLike'
      BY <2>2, <2>5, <2>6, <2>7 DEF MarksInv, OneLoad, OneLike
    <2>9. Marks'
      <3>1. pendingLikes' = {call'[t].id : t \in Running({"like"})'}
        BY <2>2, <2>3, <2>5, <2>6, <2>7 DEF MarksInv, Marks
      <3> QED
        BY <2>3, <2>6, <3>1 DEF MarksInv, Marks
    <2>10. VersionsAgree'
      BY <2>2, <2>4, <2>5, <2>6, <2>7 DEF MarksInv, VersionsAgree, Current
    <2> QED
      BY <2>5, <2>8, <2>9, <2>10 DEF MarksInv
  <1> QED
    BY <1>2, <1>3, <1>4 DEF Begin

LEMMA EndMarks ==
    ASSUME MarksInv, NEW s \in Slots, End(s)
    PROVE  MarksInv'
  <1>1. CallShape
    BY DEF MarksInv
  <1>2. call' = [call EXCEPT ![s] = Idle] /\ likeVersions' = likeVersions
    BY DEF End, EndLoad, EndCreate, EndRemove, EndLike, Page, Done, likeMarks
  <1>3. /\ call'[s] = Idle /\ \A t \in Slots : t # s => call'[t] = call[t]
        /\ call' = [t \in Slots |-> call'[t]] /\ DOMAIN call' = Slots
    BY <1>1, <1>2 DEF CallShape
  <1>4. "op" \in DOMAIN Idle /\ Idle.op = "idle"
    BY DEF Idle
  <1>5. CallShape'
    BY <1>1, <1>2, <1>3, <1>4 DEF CallShape, Ops
  <1>6. \A ops : "idle" \notin ops => Running(ops)' = Running(ops) \ {s}
    BY <1>3, <1>4 DEF Running
  <1>7. \/ s \in Loads /\ flags' = flags \ {"isLoading"} /\ pendingLikes' = pendingLikes
        \/ s \in Running({"create"}) /\ flags' = flags \ {"isCreating"} /\ pendingLikes' = pendingLikes
        \/ s \in Running({"delete"}) /\ flags' = flags \ {"isDeleting"} /\ pendingLikes' = pendingLikes
        \/ s \in Running({"like"}) /\ flags' = flags /\ pendingLikes' = pendingLikes \ {call[s].id}
    BY DEF End, EndLoad, EndCreate, EndRemove, EndLike, Back, Lower, likeMarks, Loads, Running
  <1>8. /\ Loads' = Loads \ {s} /\ Running({"create"})' = Running({"create"}) \ {s}
        /\ Running({"delete"})' = Running({"delete"}) \ {s}
    BY <1>6 DEF Loads
  <1>9. \A t \in Running({"like"})' : t # s /\ t \in Running({"like"}) /\ call'[t] = call[t]
    BY <1>3, <1>4 DEF Running
  <1>10. OneLoad' /\ OneLike'
    BY <1>8, <1>9 DEF MarksInv, OneLoad, OneLike
  <1>11. VersionsAgree'
    BY <1>2, <1>9 DEF MarksInv, VersionsAgree, Current
  <1>12. pendingLikes' = {call'[t].id : t \in Running({"like"})'}
    <2>1. CASE s \in Running({"like"}) /\ pendingLikes' = pendingLikes \ {call[s].id}
      BY <1>6, <1>9, <2>1 DEF MarksInv, Marks, OneLike
    <2>2. CASE s \notin Running({"like"}) /\ pendingLikes' = pendingLikes
      BY <1>6, <1>9, <2>2 DEF MarksInv, Marks
    <2> QED
      BY <1>7, <2>1, <2>2 DEF Running, Loads
  <1>13. Marks'
    <2>1. CASE s \in Loads /\ flags' = flags \ {"isLoading"}
      <3>1. Loads' = {}
        BY <1>8, <2>1 DEF MarksInv, OneLoad
      <3>2. Running({"create"})' = Running({"create"}) /\ Running({"delete"})' = Running({"delete"})
        <4>1. s \notin Running({"create"}) /\ s \notin Running({"delete"})
          BY <2>1 DEF Loads, Running
        <4> QED
          BY <1>8, <4>1
      <3> QED
        BY <1>12, <2>1, <3>1, <3>2 DEF MarksInv, Marks
    <2>2. CASE s \in Running({"create"}) /\ flags' = flags \ {"isCreating"}
      <3>1. Loads' = Loads /\ Running({"delete"})' = Running({"delete"})
        <4>1. s \notin Loads /\ s \notin Running({"delete"})
          BY <2>2 DEF Loads, Running
        <4> QED
          BY <1>8, <4>1
      <3> QED
        BY <1>12, <2>2, <3>1 DEF MarksInv, Marks
    <2>3. CASE s \in Running({"delete"}) /\ flags' = flags \ {"isDeleting"}
      <3>1. Loads' = Loads /\ Running({"create"})' = Running({"create"})
        <4>1. s \notin Loads /\ s \notin Running({"create"})
          BY <2>3 DEF Loads, Running
        <4> QED
          BY <1>8, <4>1
      <3> QED
        BY <1>12, <2>3, <3>1 DEF MarksInv, Marks
    <2>4. CASE s \in Running({"like"}) /\ flags' = flags
      <3>1. /\ Loads' = Loads /\ Running({"create"})' = Running({"create"})
            /\ Running({"delete"})' = Running({"delete"})
        <4>1. s \notin Loads /\ s \notin Running({"create"}) /\ s \notin Running({"delete"})
          BY <2>4 DEF Loads, Running
        <4> QED
          BY <1>8, <4>1
      <3> QED
        BY <1>12, <2>4, <3>1 DEF MarksInv, Marks
    <2> QED
      BY <1>7, <2>1, <2>2, <2>3, <2>4
  <1> QED
    BY <1>5, <1>10, <1>11, <1>13 DEF MarksInv

LEMMA MarksNext == MarksInv /\ [Next]_vars => MarksInv'
  <1> SUFFICES ASSUME MarksInv, [Next]_vars PROVE MarksInv'
    OBVIOUS
  <1>1. ASSUME NEW s \in Slots, Begin(s) PROVE MarksInv'
    BY <1>1, BeginMarks
  <1>2. ASSUME NEW s \in Slots, Serve(s) \/ ServeCached(s) PROVE MarksInv'
    BY <1>2, ServeMarks
  <1>3. ASSUME NEW s \in Slots, End(s) PROVE MarksInv'
    BY <1>3, EndMarks
  <1>4. CASE UNCHANGED <<pageState, call>>
    BY <1>4 DEF pageState, likeMarks, MarksInv, CallShape, OneLoad, OneLike, Marks, VersionsAgree, Loads,
                Running, Current
  <1>5. CASE UNCHANGED vars
    BY <1>4, <1>5 DEF vars
  <1> QED
    BY <1>1, <1>2, <1>3, <1>4, <1>5 DEF Next

LEMMA MarksSpec == Spec => []MarksInv
  BY MarksInit, MarksNext, PTL DEF Spec

-----------------------------------------------------------------------------
\* No flag and no pending mark outlives its calls, whichever of them fail
\* and in whatever order they end.
THEOREM NoStuckFlagHolds == Spec => []NoStuckFlag
  <1>1. MarksInv => NoStuckFlag
    <2> SUFFICES ASSUME MarksInv PROVE Cardinality(Loads) <= 1
      BY DEF MarksInv, Marks, NoStuckFlag
    <2>1. CASE Loads = {}
      BY <2>1, FS_EmptySet
    <2>2. CASE Loads # {}
      <3>1. PICK s \in Loads : TRUE
        BY <2>2
      <3>2. Loads = {s}
        BY <3>1 DEF MarksInv, OneLoad
      <3>3. Cardinality(Loads) = 1
        BY <3>2, FS_Singleton, Zenon
      <3> QED
        BY <3>3
    <2> QED
      BY <2>1, <2>2
  <1> QED
    BY <1>1, MarksSpec, PTL

\* The like version never decides anything: the pending mark before it lets
\* one like of a post run at a time.
THEOREM VersionsAgreeHolds == Spec => []VersionsAgree
  <1>1. MarksInv => VersionsAgree
    BY DEF MarksInv
  <1> QED
    BY <1>1, MarksSpec, PTL

-----------------------------------------------------------------------------
\* What a call in flight is: the locals of its action and its answer, which
\* is about the post the call is about.
PostType == [id : AnyId, liked : BOOLEAN, count : Int]
CallStates == {"sent", "ok", "failed", "signedOut"}
LoadCall ==
    {c \in [op : {"fetch", "more"}, st : CallStates, ans : Seq(PostType), page : Nat \ {0}] :
        (c.op = "fetch" => c.page = 1) /\ (c.st # "ok" => c.ans = << >>)}
CreateCall ==
    {c \in [op : {"create"}, st : CallStates, ans : Seq(PostType)] :
        c.st = "ok" => \E i \in AnyId : c.ans = <<NewPost(i)>>}
DeleteCall == [op : {"delete"}, st : CallStates, id : AnyId, index : Nat \ {0}, obj : Objs, ans : {<< >>}]
LikeCall ==
    {c \in [op : {"like"}, st : CallStates, id : AnyId, obj : Objs, prev : PostType, version : Int,
            ans : PostType \cup {<< >>}] :
        c.prev.id = c.id /\ (c.st = "ok" => c.ans \in PostType /\ c.ans.id = c.id)}
CallType == {Idle} \cup LoadCall \cup CreateCall \cup DeleteCall \cup LikeCall

\* A call about a post refers to an object of that post, which the heap keeps.
Refers ==
    \A s \in Slots : call[s].op \in {"like", "delete"} =>
        call[s].obj \in DOMAIN heap /\ heap[call[s].obj].id = call[s].id

HeapType ==
    /\ DOMAIN heap \subseteq Objs /\ \A o \in DOMAIN heap : heap[o] \in PostType
    /\ posts \in Seq(DOMAIN heap) /\ call \in [Slots -> CallType] /\ Refers

ServerType ==
    /\ table \in Seq(Ids) /\ IsInjective(table)
    /\ myLikes \subseteq Range(table) /\ others \in [Ids -> Nat] /\ unborn \subseteq Ids \ Range(table)

RestType ==
    /\ flags \subseteq {"isLoading", "isCreating", "isDeleting"}
    /\ page \in Nat \ {0} /\ hasMore \in BOOLEAN
    /\ likeVersions \in [AnyId -> 0 .. calls] /\ pendingLikes \subseteq AnyId /\ calls \in 0 .. MaxCalls
    /\ overlap \subseteq AnyId /\ excused \subseteq AnyId /\ shifted \in BOOLEAN

TypeInv == HeapType /\ ServerType /\ RestType

-----------------------------------------------------------------------------
LEMMA ConcatSeq ==
    ASSUME NEW S, NEW q \in Seq(S), NEW r \in Seq(S)
    PROVE  /\ q \o r \in Seq(S) /\ DOMAIN (q \o r) = 1 .. Len(q) + Len(r)
           /\ \A j \in 1 .. Len(q) + Len(r) : (q \o r)[j] = IF j <= Len(q) THEN q[j] ELSE r[j - Len(q)]
  OBVIOUS

LEMMA RemoveAtSeq ==
    ASSUME NEW S, NEW q \in Seq(S), NEW k \in DOMAIN q
    PROVE  /\ RemoveAt(q, k) \in Seq(S) /\ Len(RemoveAt(q, k)) = Len(q) - 1
           /\ DOMAIN RemoveAt(q, k) = 1 .. Len(q) - 1
           /\ \A j \in 1 .. Len(q) - 1 : RemoveAt(q, k)[j] = IF j < k THEN q[j] ELSE q[j + 1]
  <1> DEFINE a == SubSeq(q, 1, k - 1)
             b == SubSeq(q, k + 1, Len(q))
  <1>1. Len(q) \in Nat /\ k \in 1 .. Len(q)
    OBVIOUS
  <1>2. a \in Seq(S) /\ Len(a) = k - 1 /\ \A j \in 1 .. k - 1 : a[j] = q[j]
    BY <1>1
  <1>3. b \in Seq(S) /\ Len(b) = Len(q) - k /\ \A j \in 1 .. Len(q) - k : b[j] = q[j + k]
    BY <1>1
  <1>4. RemoveAt(q, k) = a \o b
    BY DEF RemoveAt
  <1> HIDE DEF a, b
  <1>5. /\ a \o b \in Seq(S) /\ Len(a \o b) = Len(q) - 1 /\ DOMAIN (a \o b) = 1 .. Len(q) - 1
        /\ \A j \in 1 .. Len(q) - 1 : (a \o b)[j] = IF j < k THEN a[j] ELSE b[j - (k - 1)]
    <2>1. /\ a \o b \in Seq(S) /\ DOMAIN (a \o b) = 1 .. Len(a) + Len(b)
          /\ \A j \in 1 .. Len(a) + Len(b) : (a \o b)[j] = IF j <= Len(a) THEN a[j] ELSE b[j - Len(a)]
      BY <1>2, <1>3, ConcatSeq
    <2>2. Len(a) = k - 1 /\ Len(a) + Len(b) = Len(q) - 1 /\ \A j \in 1 .. Len(q) - 1 : j <= k - 1 <=> j < k
      <3>1. Len(a) = k - 1 /\ Len(b) = Len(q) - k
        BY <1>2, <1>3
      <3>2. Len(a) + Len(b) = Len(q) - 1
        BY <1>1, <3>1
      <3>3. \A j \in 1 .. Len(q) - 1 : j <= k - 1 <=> j < k
        BY <1>1
      <3> QED
        BY <3>1, <3>2, <3>3
    <2>3. Len(a \o b) = Len(q) - 1
      BY <1>1, <1>2, <1>3
    <2> QED
      BY <2>1, <2>2, <2>3
  <1>6. ASSUME NEW j \in 1 .. Len(q) - 1 PROVE (a \o b)[j] = IF j < k THEN q[j] ELSE q[j + 1]
    <2>1. CASE j < k
      BY <1>1, <1>2, <1>5, <2>1
    <2>2. CASE ~(j < k)
      <3>1. j - (k - 1) \in 1 .. Len(q) - k /\ (j - (k - 1)) + k = j + 1
        BY <1>1, <2>2
      <3> QED
        BY <1>3, <1>5, <2>2, <3>1
    <2> QED
      BY <2>1, <2>2
  <1> QED
    BY <1>4, <1>5, <1>6

LEMMA InsertAtSeq ==
    ASSUME NEW S, NEW q \in Seq(S), NEW k \in 1 .. Len(q) + 1, NEW e \in S
    PROVE  /\ InsertAt(q, k, e) \in Seq(S) /\ DOMAIN InsertAt(q, k, e) = 1 .. Len(q) + 1
           /\ \A j \in 1 .. Len(q) + 1 :
                InsertAt(q, k, e)[j] = IF j < k THEN q[j] ELSE IF j = k THEN e ELSE q[j - 1]
  <1> DEFINE a == SubSeq(q, 1, k - 1)
             b == SubSeq(q, k, Len(q))
  <1>1. Len(q) \in Nat
    OBVIOUS
  <1>2. a \in Seq(S) /\ Len(a) = k - 1 /\ \A j \in 1 .. k - 1 : a[j] = q[j]
    BY <1>1
  <1>3. b \in Seq(S) /\ Len(b) = Len(q) - k + 1 /\ \A j \in 1 .. Len(q) - k + 1 : b[j] = q[j + k - 1]
    BY <1>1
  <1>4. InsertAt(q, k, e) = (a \o <<e>>) \o b
    BY DEF InsertAt
  <1> HIDE DEF a, b
  <1>5. PICK c : c = a \o <<e>>
    OBVIOUS
  <1>6. c \in Seq(S) /\ Len(c) = k /\ \A j \in 1 .. k : c[j] = IF j < k THEN q[j] ELSE e
    BY <1>2, <1>5
  <1>7. InsertAt(q, k, e) = c \o b
    BY <1>4, <1>5
  <1>8. /\ c \o b \in Seq(S) /\ DOMAIN (c \o b) = 1 .. Len(q) + 1
        /\ \A j \in 1 .. Len(q) + 1 : (c \o b)[j] = IF j <= k THEN c[j] ELSE b[j - k]
    BY <1>1, <1>3, <1>6
  <1>9. ASSUME NEW j \in 1 .. Len(q) + 1 PROVE (c \o b)[j] = IF j < k THEN q[j] ELSE IF j = k THEN e ELSE q[j - 1]
    <2>1. CASE j <= k
      BY <1>1, <1>6, <1>8, <2>1
    <2>2. CASE ~(j <= k)
      <3>1. j - k \in 1 .. Len(q) - k + 1 /\ (j - k) + k - 1 = j - 1 /\ ~(j < k) /\ j # k
        BY <1>1, <2>2
      <3> QED
        BY <1>3, <1>8, <2>2, <3>1
    <2> QED
      BY <2>1, <2>2
  <1> QED
    BY <1>7, <1>8, <1>9

\* Room gives Fresh its references: new ones, one for each post.
LEMMA FreshRefs ==
    ASSUME NEW n \in Nat, Room(n)
    PROVE  Fresh(n) \in [1 .. n -> Objs \ DOMAIN heap] /\ IsInjective(Fresh(n))
  <1> DEFINE free == Objs \ DOMAIN heap
  <1>1. IsFiniteSet(free)
    BY FS_Subset, StoreAssumption
  <1>2. PICK f : f \in [1 .. Cardinality(free) -> free] /\ IsInjective(f)
    <2>1. PICK f \in Bijection(1 .. Cardinality(free), free) : TRUE
      BY <1>1, FS_NatBijection, FS_CardinalityType DEF ExistsBijection
    <2> QED
      BY <2>1 DEF Bijection, Injection, IsInjective
  <1>3. Cardinality(free) \in Nat
    BY <1>1, FS_CardinalityType
  <1> DEFINE g == [k \in 1 .. n |-> f[k]]
  <1>4. n <= Cardinality(free)
    BY DEF Room
  <1> HIDE DEF free
  <1>5. g \in [1 .. n -> free] /\ IsInjective(g)
    BY <1>2, <1>3, <1>4 DEF IsInjective
  <1> QED
    BY <1>5 DEF Fresh, free

-----------------------------------------------------------------------------
\* The kind of a call tells what it carries.
LEMMA CallKinds ==
    ASSUME NEW c \in CallType
    PROVE  /\ c.op \in {"fetch", "more"} => c \in LoadCall
           /\ c.op = "create" => c \in CreateCall
           /\ c.op = "delete" => c \in DeleteCall
           /\ c.op = "like" => c \in LikeCall
           /\ c.op \in {"idle", "fetch", "more", "create", "delete", "like"}
           /\ c.op = "idle" <=> c = Idle
  <1>1. /\ \A d \in LoadCall : d.op \in {"fetch", "more"}
        /\ \A d \in CreateCall : d.op = "create"
        /\ \A d \in DeleteCall : d.op = "delete"
        /\ \A d \in LikeCall : d.op = "like"
        /\ Idle.op = "idle"
    BY DEF LoadCall, CreateCall, DeleteCall, LikeCall, Idle
  <1> QED
    BY <1>1 DEF CallType

LEMMA PageHeap ==
    ASSUME NEW h, NEW ps, NEW cs, Page(h, ps, cs)
    PROVE  /\ posts' = ps /\ call' = cs
           /\ \A o : o \in DOMAIN heap' <=> \/ o \in Range(ps)
                                            \/ \E s \in Slots : cs[s].op \in {"like", "delete"} /\ o = cs[s].obj
           /\ \A o \in DOMAIN heap' : heap'[o] = h[o]
  BY DEF Page

LEMMA PageKeeps ==
    ASSUME NEW h, NEW ps, NEW cs, Page(h, ps, cs), ps \in Seq(DOMAIN h),
           \A s \in Slots : cs[s].op \in {"like", "delete"} => cs[s].obj \in DOMAIN h
    PROVE  DOMAIN heap' \subseteq DOMAIN h
  <1>1. Range(ps) \subseteq DOMAIN h
    BY DEF Range
  <1> QED
    BY <1>1, PageHeap

\* The page after a step keeps its types when the heap it takes its objects
\* from has them.
LEMMA PageTypes ==
    ASSUME NEW h, NEW ps, NEW cs, Page(h, ps, cs),
           DOMAIN h \subseteq Objs, \A o \in DOMAIN h : h[o] \in PostType,
           ps \in Seq(DOMAIN h), cs \in [Slots -> CallType],
           \A s \in Slots : cs[s].op \in {"like", "delete"} => cs[s].obj \in DOMAIN h /\ h[cs[s].obj].id = cs[s].id
    PROVE  HeapType'
  <1>1. posts' = ps /\ call' = cs
    BY PageHeap
  <1>2. /\ \A o \in DOMAIN heap' : \/ o \in Range(ps)
                                   \/ \E s \in Slots : cs[s].op \in {"like", "delete"} /\ o = cs[s].obj
        /\ Range(ps) \subseteq DOMAIN heap'
        /\ \A s \in Slots : cs[s].op \in {"like", "delete"} => cs[s].obj \in DOMAIN heap'
        /\ \A o \in DOMAIN heap' : heap'[o] = h[o]
    BY PageHeap
  <1>3. Range(ps) \subseteq DOMAIN h /\ ps \in Seq(Range(ps))
    BY DEF Range
  <1>4. DOMAIN heap' \subseteq DOMAIN h
    BY <1>2, <1>3
  <1>5. posts' \in Seq(DOMAIN heap')
    BY <1>1, <1>2, <1>3
  <1>6. Refers'
    BY <1>1, <1>2 DEF Refers
  <1> QED
    BY <1>1, <1>2, <1>4, <1>5, <1>6 DEF HeapType

\* A step that leaves list and objects alone.
LEMMA KeepTypes ==
    ASSUME HeapType, UNCHANGED <<heap, posts>>, NEW s \in Slots, NEW c \in CallType,
           call' = [call EXCEPT ![s] = c],
           c.op \in {"like", "delete"} => call[s].op = c.op /\ c.obj = call[s].obj /\ c.id = call[s].id
    PROVE  HeapType'
  <1>1. call' \in [Slots -> CallType] /\ call'[s] = c /\ \A t \in Slots : t # s => call'[t] = call[t]
    BY DEF HeapType
  <1>2. Refers'
    BY <1>1 DEF HeapType, Refers
  <1> QED
    BY <1>1, <1>2 DEF HeapType

LEMMA FeedPageFacts ==
    ASSUME ServerType, NEW num \in Nat \ {0}, NEW limit \in Nat
    PROVE  /\ FeedPage(num, limit) \in Seq(PostType) /\ Len(FeedPage(num, limit)) <= limit
           /\ DOMAIN FeedPage(num, limit) = 1 .. Len(FeedPage(num, limit))
           /\ \A k \in DOMAIN FeedPage(num, limit) :
                /\ (num - 1) * limit + k \in DOMAIN table
                /\ FeedPage(num, limit)[k] = ServerPost(table[(num - 1) * limit + k])
  <1>1. PICK m \in Nat : m = (num - 1) * limit
    <2>1. num - 1 \in Nat
      OBVIOUS
    <2> QED
      BY <2>1
  <1>2. num * limit = m + limit
    BY <1>1
  <1>3. PICK n \in Int : n = IF num * limit < Len(table) THEN num * limit ELSE Len(table)
    BY <1>2 DEF ServerType
  <1>4. n <= m + limit /\ n <= Len(table) /\ Len(table) \in Nat /\ DOMAIN table = 1 .. Len(table)
    BY <1>2, <1>3 DEF ServerType
  <1>5. PICK ids : ids = SubSeq(table, m + 1, n)
    OBVIOUS
  <1>6. FeedPage(num, limit) = [k \in DOMAIN ids |-> ServerPost(ids[k])]
    BY <1>1, <1>3, <1>5 DEF FeedPage
  <1>7. /\ ids \in Seq(Ids) /\ Len(ids) = IF m + 1 <= n THEN n - m ELSE 0
        /\ \A k \in 1 .. Len(ids) : m + k \in 1 .. Len(table) /\ ids[k] = table[m + k] /\ ids[k] \in Ids
    <2>1. table \in Seq(Ids)
      BY DEF ServerType
    <2> QED
      BY <1>4, <1>5, <2>1
  <1>8. \A i \in Ids : ServerPost(i) \in PostType
    BY DEF ServerPost, PostWith, PostType, AnyId, ServerType
  <1>9. /\ FeedPage(num, limit) \in Seq(PostType) /\ Len(FeedPage(num, limit)) = Len(ids)
        /\ DOMAIN FeedPage(num, limit) = 1 .. Len(ids)
    <2>1. DOMAIN ids = 1 .. Len(ids) /\ Len(ids) \in Nat
      BY <1>7
    <2>2. FeedPage(num, limit) \in [1 .. Len(ids) -> PostType]
      BY <1>6, <1>7, <1>8, <2>1
    <2> QED
      BY <2>1, <2>2
  <1>10. Len(ids) <= limit
    BY <1>4, <1>7
  <1> QED
    BY <1>1, <1>4, <1>6, <1>7, <1>9, <1>10

\* An outdated page is a sequence of different posts that exist or did.
LEMMA OldPageFacts ==
    ASSUME NEW limit \in Nat, NEW a \in OldPages(limit)
    PROVE  /\ a \in Seq(PostType) /\ DOMAIN a = 1 .. Len(a)
           /\ \A k \in DOMAIN a : a[k].id \in Ids \ unborn
           /\ \A j, k \in DOMAIN a : a[j].id = a[k].id => j = k
  <1> DEFINE rows == {PostWith(i, liked, n) : i \in Ids \ unborn, liked \in BOOLEAN, n \in 0 .. OldLikes}
  <1>1. a \in SeqOf(rows, limit) /\ \A j, k \in DOMAIN a : a[j].id = a[k].id => j = k
    BY DEF OldPages
  <1>2. \A x \in rows : x \in PostType /\ x.id \in Ids \ unborn
    BY StoreAssumption DEF PostWith, PostType, AnyId
  <1> HIDE DEF rows
  <1>3. PICK m \in 0 .. limit : a \in [1 .. m -> rows]
    BY <1>1 DEF SeqOf
  <1>4. a \in Seq(rows) /\ DOMAIN a = 1 .. Len(a)
    BY <1>3
  <1>5. \A k \in DOMAIN a : a[k] \in rows
    BY <1>3
  <1>6. a \in [1 .. Len(a) -> PostType]
    BY <1>2, <1>3, <1>4, <1>5
  <1> QED
    BY <1>1, <1>2, <1>4, <1>5, <1>6

-----------------------------------------------------------------------------
\* A new post comes first, the others move down by one.
LEMMA TableCreate ==
    ASSUME ServerType, NEW i \in unborn, table' = <<i>> \o table
    PROVE  /\ table' \in Seq(Ids) /\ IsInjective(table') /\ Range(table') = Range(table) \cup {i}
           /\ i \in Ids /\ i \notin Range(table)
  <1>2. i \in Ids /\ i \notin Range(table) /\ table \in Seq(Ids)
    BY DEF ServerType
  <1>3. /\ table' \in Seq(Ids) /\ DOMAIN table' = 1 .. Len(table) + 1
        /\ \A j \in DOMAIN table' : table'[j] = IF j = 1 THEN i ELSE table[j - 1]
    BY <1>2
  <1>4. \A j \in DOMAIN table : table[j] # i
    BY <1>2 DEF Range
  <1>5. IsInjective(table')
    <2> SUFFICES ASSUME NEW a \in DOMAIN table', NEW b \in DOMAIN table', table'[a] = table'[b] PROVE a = b
      BY DEF IsInjective
    <2>1. Len(table) \in Nat /\ DOMAIN table = 1 .. Len(table) /\ \A j, l \in DOMAIN table : table[j] = table[l] => j = l
      <3>1. IsInjective(table)
        BY DEF ServerType
      <3> QED
        BY <1>2, <3>1 DEF IsInjective
    <2>2. a # 1 => a - 1 \in DOMAIN table /\ table'[a] = table[a - 1]
      BY <1>3, <2>1
    <2>3. b # 1 => b - 1 \in DOMAIN table /\ table'[b] = table[b - 1]
      BY <1>3, <2>1
    <2>4. (a = 1 => table'[a] = i) /\ (b = 1 => table'[b] = i) /\ a \in Int /\ b \in Int
      BY <1>3, <2>1
    <2> QED
      BY <1>4, <2>1, <2>2, <2>3, <2>4
  <1>6. Range(table') = Range(table) \cup {i}
    <2>1. \A j \in DOMAIN table : j + 1 \in DOMAIN table' /\ table'[j + 1] = table[j]
      BY <1>2, <1>3
    <2>2. 1 \in DOMAIN table' /\ table'[1] = i
      BY <1>2, <1>3
    <2>3. \A j \in DOMAIN table' : table'[j] = i \/ \E l \in DOMAIN table : table'[j] = table[l]
      BY <1>2, <1>3
    <2>4. Range(table') \subseteq Range(table) \cup {i}
      BY <2>3 DEF Range
    <2>5. Range(table) \subseteq Range(table') /\ i \in Range(table')
      BY <2>1, <2>2 DEF Range
    <2> QED
      BY <2>4, <2>5
  <1> QED
    BY <1>2, <1>3, <1>5, <1>6

\* A deleted post leaves the table, and none of the others moves down.
LEMMA TableDelete ==
    ASSUME ServerType, NEW k \in DOMAIN table, table' = RemoveAt(table, k)
    PROVE  /\ table' \in Seq(Ids) /\ IsInjective(table') /\ Range(table') = Range(table) \ {table[k]}
           /\ \A q \in DOMAIN table' : \E r \in DOMAIN table : q <= r /\ table'[q] = table[r]
  <1>1. table \in Seq(Ids) /\ IsInjective(table)
    BY DEF ServerType
  <1>2. /\ table' \in Seq(Ids) /\ DOMAIN table' = 1 .. Len(table) - 1
        /\ \A j \in DOMAIN table' : table'[j] = IF j < k THEN table[j] ELSE table[j + 1]
    BY RemoveAtSeq DEF ServerType
  <1>3. Len(table) \in Nat /\ DOMAIN table = 1 .. Len(table)
    BY DEF ServerType
  <1>4. IsInjective(table')
    <2> SUFFICES ASSUME NEW a \in DOMAIN table', NEW b \in DOMAIN table', table'[a] = table'[b] PROVE a = b
      BY DEF IsInjective
    <2> QED
      BY <1>1, <1>2, <1>3 DEF IsInjective
  <1>5. Range(table') = Range(table) \ {table[k]}
    <2>1. \A j \in DOMAIN table' : table'[j] # table[k] /\ \E l \in DOMAIN table : table'[j] = table[l]
      BY <1>1, <1>2, <1>3 DEF IsInjective
    <2>2. \A l \in DOMAIN table : table[l] # table[k] => \E j \in DOMAIN table' : table'[j] = table[l]
      <3> SUFFICES ASSUME NEW l \in DOMAIN table, l # k PROVE \E j \in DOMAIN table' : table'[j] = table[l]
        OBVIOUS
      <3>1. CASE l < k
        BY <1>2, <1>3, <3>1
      <3>2. CASE l > k
        <4>1. l - 1 \in DOMAIN table' /\ table'[l - 1] = table[l]
          BY <1>2, <1>3, <3>2
        <4> QED
          BY <4>1
      <3> QED
        BY <1>3, <3>1, <3>2
    <2> QED
      BY <2>1, <2>2 DEF Range
  <1>6. \A q \in DOMAIN table' : \E r \in DOMAIN table : q <= r /\ table'[q] = table[r]
    BY <1>2, <1>3
  <1> QED
    BY <1>2, <1>4, <1>5, <1>6

LEMMA TypeInit == Init => TypeInv
  <1> SUFFICES ASSUME Init PROVE TypeInv
    OBVIOUS
  <1>1. ServerType
    BY StoreAssumption DEF Init, ServerType
  <1>2. Idle \in CallType /\ Idle.op = "idle"
    BY DEF CallType, Idle
  <1>3. call \in [Slots -> CallType] /\ \A s \in Slots : call[s].op = "idle"
    BY <1>2 DEF Init
  <1>4. DOMAIN heap = {} /\ posts \in Seq(DOMAIN heap)
    BY DEF Init
  <1>5. HeapType
    BY <1>3, <1>4 DEF HeapType, Refers
  <1>6. RestType
    <2>1. calls = 0 /\ MaxCalls \in Nat /\ likeVersions \in [AnyId -> 0 .. calls]
      BY StoreAssumption DEF Init
    <2>2. hasMore \in BOOLEAN /\ shifted \in BOOLEAN
      BY DEF Init
    <2> QED
      BY <2>1, <2>2 DEF Init, RestType
  <1> QED
    BY <1>1, <1>5, <1>6 DEF TypeInv

\* The server keeps its table free of duplicates, and its likes to its posts.
LEMMA ServerTypeNext ==
    ASSUME ServerType, [Next]_vars
    PROVE  ServerType'
  <1>1. ASSUME NEW i \in unborn, Insert(i), UNCHANGED <<myLikes, others>> PROVE ServerType'
    <2>1. table' = <<i>> \o table /\ unborn' = unborn \ {i}
      BY <1>1 DEF Insert
    <2>2. table' \in Seq(Ids) /\ IsInjective(table') /\ Range(table') = Range(table) \cup {i}
      BY <2>1, TableCreate
    <2> QED
      BY <1>1, <2>1, <2>2 DEF ServerType
  <1>2. ASSUME NEW i, Delete(i), UNCHANGED <<others, unborn>> PROVE ServerType'
    <2>1. PICK k \in DOMAIN table : table' = RemoveAt(table, k) /\ myLikes' = myLikes \ {table[k]}
      BY <1>2 DEF Delete, Cascade
    <2>2. table' \in Seq(Ids) /\ IsInjective(table') /\ Range(table') = Range(table) \ {table[k]}
      BY <2>1, TableDelete
    <2> QED
      BY <1>2, <2>1, <2>2 DEF ServerType
  <1>3. ASSUME NEW i, Toggle(i), UNCHANGED <<table, others, unborn>> PROVE ServerType'
    <2>1. Contains(table, i) /\ myLikes' = IF i \in myLikes THEN myLikes \ {i} ELSE myLikes \cup {i}
      BY <1>3 DEF Toggle
    <2>2. i \in Range(table)
      BY <2>1 DEF Contains, Range, ServerType
    <2> QED
      BY <1>3, <2>1, <2>2 DEF ServerType
  <1>4. CASE UNCHANGED server
    BY <1>4 DEF server, ServerType
  <1>5. ASSUME NEW s \in Slots, Begin(s) PROVE UNCHANGED server
    BY <1>5 DEF Begin, BeginLoad, CriarPost, RemovePost, ToggleLike
  <1>6. ASSUME NEW s \in Slots, End(s) PROVE UNCHANGED server
    BY <1>6 DEF End, EndLoad, EndCreate, EndRemove, EndLike
  <1>7. ASSUME NEW s \in Slots, ServeFeed(s) \/ ServeCached(s) \/ Fail(s) \/ LoseAnswer(s) PROVE UNCHANGED server
    BY <1>7 DEF ServeFeed, ServeCached, Fail, LoseAnswer
  <1>8. ASSUME NEW s \in Slots, ServeCreate(s) \/ ServeDelete(s) \/ ServeLike(s) PROVE ServerType'
    BY <1>1, <1>2, <1>3, <1>8 DEF ServeCreate, ServeDelete, ServeLike
  <1>9. ASSUME NEW i \in Ids, OtherUserLikes(i) PROVE ServerType'
    <2>1. PICK n \in Nat : others' = [others EXCEPT ![i] = n]
      BY <1>9 DEF OtherUserLikes
    <2>2. others' \in [Ids -> Nat]
      BY <2>1 DEF ServerType
    <2> QED
      BY <1>9, <2>2 DEF OtherUserLikes, ServerType
  <1>10. ASSUME NEW i \in Ids, OtherTabLikes(i) \/ OtherDelete(i) \/ OtherCreate(i) PROVE ServerType'
    BY <1>1, <1>2, <1>3, <1>10 DEF OtherTabLikes, OtherDelete, OtherCreate
  <1>11. CASE UNCHANGED vars
    BY <1>4, <1>11 DEF vars
  <1> QED
    BY <1>4, <1>5, <1>6, <1>7, <1>8, <1>9, <1>10, <1>11 DEF Next, Serve, OtherPages

-----------------------------------------------------------------------------
\* find and findIndex return the first place of a listed post.
LEMMA IndexOfPlace ==
    ASSUME HeapType, NEW i, Places(i) # {}
    PROVE  IndexOf(i) \in Places(i) /\ IndexOf(i) \in DOMAIN posts /\ heap[posts[IndexOf(i)]].id = i
  <1>1. Places(i) \in SUBSET Nat
    BY DEF Places, HeapType
  <1>2. \E k \in Places(i) : \A j \in Places(i) : k <= j
    <2>1. PICK R : R = {p \in Nat \X Nat : p[1] < p[2]}
      OBVIOUS
    <2>2. IsWellFoundedOn(R, Nat)
      BY <2>1, NatLessThanWellFounded DEF OpToRel
    <2>3. PICK k \in Places(i) : \A j \in Places(i) : ~ (<<j, k>> \in R)
      BY <1>1, <2>2, WFMin
    <2>4. \A j \in Places(i) : ~ (j < k)
      BY <1>1, <2>1, <2>3
    <2> QED
      BY <1>1, <2>4
  <1>3. IndexOf(i) \in Places(i)
    BY <1>2 DEF IndexOf
  <1> QED
    BY <1>3 DEF Places

LEMMA BeginTypes ==
    ASSUME HeapType, RestType, NEW s \in Slots, Begin(s)
    PROVE  HeapType'
  <1>1. ASSUME NEW op \in {"fetch", "more"}, BeginLoad(s, op) PROVE HeapType'
    <2>1. PICK c : /\ c = [op |-> op, st |-> "sent", ans |-> << >>, page |-> IF op = "fetch" THEN 1 ELSE page + 1]
                   /\ call' = [call EXCEPT ![s] = c]
      BY <1>1 DEF BeginLoad
    <2>2. c \in LoadCall /\ c.op \in {"fetch", "more"}
      BY <2>1 DEF LoadCall, CallStates, RestType
    <2>3. c \in CallType
      BY <2>2 DEF CallType
    <2>4. call' = [call EXCEPT ![s] = c]
      BY <2>1
    <2>5. UNCHANGED <<heap, posts>>
      BY <1>1 DEF BeginLoad
    <2> QED
      BY <2>2, <2>3, <2>4, <2>5, KeepTypes
  <1>2. ASSUME CriarPost(s) PROVE HeapType'
    <2>1. PICK c : c = [op |-> "create", st |-> "sent", ans |-> << >>] /\ call' = [call EXCEPT ![s] = c]
      BY <1>2 DEF CriarPost
    <2>2. c \in CreateCall /\ c.op = "create"
      <3>1. c \in [op : {"create"}, st : CallStates, ans : Seq(PostType)] /\ c.st = "sent"
        BY <2>1 DEF CallStates
      <3> QED
        BY <3>1 DEF CreateCall
    <2>3. c \in CallType
      BY <2>2 DEF CallType
    <2>4. call' = [call EXCEPT ![s] = c]
      BY <2>1
    <2>5. UNCHANGED <<heap, posts>>
      BY <1>2 DEF CriarPost
    <2> QED
      BY <2>2, <2>3, <2>4, <2>5, KeepTypes
  <1>3. ASSUME NEW i \in AnyId, RemovePost(s, i) PROVE HeapType'
    <2>1. PICK k : k = IndexOf(i)
      OBVIOUS
    <2>2. k \in DOMAIN posts /\ heap[posts[k]].id = i
      BY <1>3, <2>1, IndexOfPlace DEF RemovePost
    <2>3. PICK c : c = [op |-> "delete", st |-> "sent", id |-> i, index |-> k, obj |-> posts[k], ans |-> << >>]
      OBVIOUS
    <2>4. posts[k] \in DOMAIN heap /\ posts[k] \in Objs /\ k \in Nat \ {0}
      BY <2>2 DEF HeapType
    <2>5. c \in DeleteCall /\ c.op = "delete" /\ c.obj = posts[k] /\ c.id = i
      BY <2>3, <2>4 DEF DeleteCall, CallStates
    <2>6. PICK ps : ps = RemoveAt(posts, k)
      OBVIOUS
    <2>7. ps \in Seq(DOMAIN heap)
      BY <2>2, <2>6, RemoveAtSeq DEF HeapType
    <2>8. PICK cs : cs = [call EXCEPT ![s] = c]
      OBVIOUS
    <2>9. cs \in [Slots -> CallType] /\ cs[s] = c /\ \A t \in Slots : t # s => cs[t] = call[t]
      BY <2>5, <2>8 DEF HeapType, CallType
    <2>10. \A t \in Slots : cs[t].op \in {"like", "delete"} => cs[t].obj \in DOMAIN heap /\ heap[cs[t].obj].id = cs[t].id
      BY <2>2, <2>4, <2>5, <2>9 DEF HeapType, Refers
    <2>11. Page(heap, ps, cs)
      BY <1>3, <2>1, <2>3, <2>6, <2>8 DEF RemovePost, Unlisted
    <2> QED
      BY <2>7, <2>9, <2>10, <2>11, PageTypes DEF HeapType
  <1>4. ASSUME NEW i \in AnyId, ToggleLike(s, i) PROVE HeapType'
    <2>1. PICK o : o = posts[IndexOf(i)]
      OBVIOUS
    <2>2. o \in DOMAIN heap /\ o \in Objs /\ heap[o].id = i /\ heap[o] \in PostType
      <3>1. IndexOf(i) \in DOMAIN posts /\ heap[posts[IndexOf(i)]].id = i
        BY <1>4, IndexOfPlace DEF ToggleLike, MayLike
      <3>2. posts[IndexOf(i)] \in DOMAIN heap
        BY <3>1 DEF HeapType
      <3> QED
        BY <2>1, <3>1, <3>2 DEF HeapType
    <2>3. PICK p : p = [heap[o] EXCEPT !.liked = ~@, !.count = IF heap[o].liked THEN @ - 1 ELSE @ + 1]
      OBVIOUS
    <2>4. p \in PostType /\ p.id = i
      <3>1. PICK liked \in BOOLEAN : liked = ~ heap[o].liked
        OBVIOUS
      <3>2. PICK count \in Int : count = IF heap[o].liked THEN heap[o].count - 1 ELSE heap[o].count + 1
        BY <2>2 DEF PostType
      <3>3. p = [heap[o] EXCEPT !.liked = liked, !.count = count]
        BY <2>2, <2>3, <3>1, <3>2 DEF PostType
      <3> QED
        BY <2>2, <3>3 DEF PostType
    <2>5. PICK h : h = [heap EXCEPT ![o] = p]
      OBVIOUS
    <2>6. /\ DOMAIN h = DOMAIN heap /\ h[o] = p /\ \A x \in DOMAIN heap : x # o => h[x] = heap[x]
          /\ \A x \in DOMAIN h : h[x] \in PostType /\ h[x].id = heap[x].id
      BY <2>2, <2>4, <2>5 DEF HeapType
    <2>7. PICK c : c = [op |-> "like", st |-> "sent", id |-> i, obj |-> o, prev |-> heap[o],
                        version |-> likeVersions[i] + 1, ans |-> << >>]
      OBVIOUS
    <2>8. c \in LikeCall /\ c.op = "like" /\ c.obj = o /\ c.id = i
      <3>1. likeVersions[i] + 1 \in Int
        BY DEF RestType
      <3> QED
        BY <2>2, <2>7, <3>1 DEF LikeCall, CallStates
    <2>9. PICK cs : cs = [call EXCEPT ![s] = c]
      OBVIOUS
    <2>10. cs \in [Slots -> CallType] /\ cs[s] = c /\ \A t \in Slots : t # s => cs[t] = call[t]
      BY <2>8, <2>9 DEF HeapType, CallType
    <2>11. \A t \in Slots : cs[t].op \in {"like", "delete"} => cs[t].obj \in DOMAIN h /\ h[cs[t].obj].id = cs[t].id
      BY <2>2, <2>4, <2>6, <2>8, <2>10 DEF HeapType, Refers
    <2>12. Page(h, posts, cs)
      <3>1. [heap EXCEPT ![o].liked = ~@, ![o].count = IF heap[o].liked THEN @ - 1 ELSE @ + 1] = h
        BY <2>2, <2>3, <2>5 DEF PostType
      <3> QED
        BY <1>4, <2>1, <2>7, <2>9, <3>1 DEF ToggleLike
    <2>13. posts \in Seq(DOMAIN h)
      BY <2>6 DEF HeapType
    <2> QED
      BY <2>6, <2>10, <2>11, <2>12, <2>13, PageTypes DEF HeapType
  <1> QED
    BY <1>1, <1>2, <1>3, <1>4 DEF Begin

\* An answer of the server fits its call.
LEMMA ServeTypes ==
    ASSUME HeapType, ServerType, NEW s \in Slots, Serve(s) \/ ServeCached(s)
    PROVE  HeapType'
  <1>1. call[s] \in CallType /\ UNCHANGED <<heap, posts>>
    BY DEF HeapType, Serve, ServeFeed, ServeCached, ServeCreate, ServeDelete, ServeLike, Fail, LoseAnswer, pageState
  <1>2. ASSUME ServeFeed(s) \/ ServeCached(s) PROVE HeapType'
    <2>1. call[s] \in LoadCall
      BY <1>1, <1>2, CallKinds DEF ServeFeed, ServeCached, Pending
    <2>2. PICK limit \in Nat : limit = Limit(s)
      BY StoreAssumption DEF Limit
    <2>3. PICK a \in Seq(PostType) : Answer(s, a)
      <3>1. FeedPage(call[s].page, limit) \in Seq(PostType)
        BY <2>1, FeedPageFacts DEF LoadCall
      <3>2. << >> \in Seq(PostType)
        OBVIOUS
      <3>3. \A x \in OldPages(limit) : x \in Seq(PostType)
        BY OldPageFacts
      <3> QED
        BY <1>2, <2>2, <3>1, <3>2, <3>3 DEF ServeFeed, ServeCached
    <2>4. PICK c : c = [call[s] EXCEPT !.st = "ok", !.ans = a]
      OBVIOUS
    <2>5. c \in LoadCall /\ c.op \in {"fetch", "more"}
      BY <2>1, <2>4 DEF LoadCall, CallStates
    <2>6. call' = [call EXCEPT ![s] = c]
      BY <2>3, <2>4 DEF Answer, HeapType
    <2>7. c \in CallType
      BY <2>5 DEF CallType
    <2> QED
      BY <1>1, <2>5, <2>6, <2>7, KeepTypes
  <1>3. ASSUME ServeCreate(s) PROVE HeapType'
    <2>1. call[s] \in CreateCall
      BY <1>1, <1>3, CallKinds DEF ServeCreate, Pending
    <2>2. PICK i \in AnyId : Answer(s, <<NewPost(i)>>)
      BY <1>3 DEF ServeCreate, ServerType, AnyId
    <2>3. PICK x \in PostType : x = NewPost(i)
      <3>1. NewPost(i) \in PostType
        BY DEF NewPost, PostWith, PostType
      <3> QED
        BY <3>1
    <2>4. PICK a \in Seq(PostType) : a = <<NewPost(i)>>
      <3>1. <<x>> \in Seq(PostType)
        OBVIOUS
      <3> QED
        BY <2>3, <3>1
    <2>5. PICK c : c = [call[s] EXCEPT !.st = "ok", !.ans = a]
      OBVIOUS
    <2>6. c \in CreateCall /\ c.op = "create"
      <3>1. call[s] \in [op : {"create"}, st : CallStates, ans : Seq(PostType)]
        BY <2>1 DEF CreateCall
      <3>2. c \in [op : {"create"}, st : CallStates, ans : Seq(PostType)] /\ c.ans = a /\ c.op = "create"
        BY <2>5, <3>1 DEF CallStates
      <3> QED
        BY <2>4, <3>2 DEF CreateCall
    <2>7. call' = [call EXCEPT ![s] = c]
      BY <2>2, <2>4, <2>5 DEF Answer, HeapType
    <2>8. c \in CallType
      BY <2>6 DEF CallType
    <2> QED
      BY <1>1, <2>6, <2>7, <2>8, KeepTypes
  <1>4. ASSUME ServeDelete(s) PROVE HeapType'
    <2>1. call[s] \in DeleteCall
      BY <1>1, <1>4, CallKinds DEF ServeDelete, Pending
    <2>2. PICK c : c = [call[s] EXCEPT !.st = "ok", !.ans = << >>]
      OBVIOUS
    <2>3. c \in DeleteCall /\ c.op = call[s].op /\ c.obj = call[s].obj /\ c.id = call[s].id
      BY <2>1, <2>2 DEF DeleteCall, CallStates
    <2>4. call' = [call EXCEPT ![s] = c]
      BY <1>4, <2>2 DEF ServeDelete, Answer, HeapType
    <2>5. c \in CallType
      BY <2>3 DEF CallType
    <2> QED
      BY <1>1, <2>3, <2>4, <2>5, KeepTypes
  <1>5. ASSUME ServeLike(s) PROVE HeapType'
    <2>1. call[s] \in LikeCall
      BY <1>1, <1>5, CallKinds DEF ServeLike, Pending
    <2>2. PICK liked \in BOOLEAN : liked = (call[s].id \notin myLikes)
      OBVIOUS
    <2>9. PICK n \in Nat : n = others[call[s].id]
      <3>1. Contains(table, call[s].id)
        BY <1>5 DEF ServeLike, Toggle
      <3>2. call[s].id \in Ids
        BY <3>1 DEF Contains, ServerType
      <3> QED
        BY <3>2 DEF ServerType
    <2>3. PICK a : a = PostWith(call[s].id, liked, n)
      OBVIOUS
    <2>4. a \in PostType /\ a.id = call[s].id
      BY <2>1, <2>3 DEF PostWith, PostType, LikeCall
    <2>5. PICK c : c = [call[s] EXCEPT !.st = "ok", !.ans = a]
      OBVIOUS
    <2>6. c \in LikeCall /\ c.op = call[s].op /\ c.obj = call[s].obj /\ c.id = call[s].id
      BY <2>1, <2>4, <2>5 DEF LikeCall, CallStates
    <2>7. call' = [call EXCEPT ![s] = c]
      BY <1>5, <2>2, <2>3, <2>5, <2>9 DEF ServeLike, Answer, HeapType
    <2>8. c \in CallType
      BY <2>6 DEF CallType
    <2> QED
      BY <1>1, <2>6, <2>7, <2>8, KeepTypes
  <1>6. ASSUME Fail(s) \/ LoseAnswer(s) PROVE HeapType'
    <2>1. PICK st \in {"failed", "signedOut"} : /\ call' = [call EXCEPT ![s].st = st]
                                                /\ call[s].st = "sent" \/ call[s].op \in {"create", "delete", "like"}
      BY <1>6 DEF Fail, LoseAnswer
    <2>2. PICK c : c = [call[s] EXCEPT !.st = st]
      OBVIOUS
    <2>3. call[s].op # "idle"
      BY <1>1, <1>6, CallKinds DEF Fail, LoseAnswer
    <2>4. /\ c \in CallType
          /\ c.op \in {"like", "delete"} => call[s].op = c.op /\ c.obj = call[s].obj /\ c.id = call[s].id
      <3>1. CASE call[s].op \in {"fetch", "more"}
        <4>1. call[s] \in LoadCall /\ call[s].st = "sent"
          BY <1>1, <2>1, <3>1, CallKinds
        <4>2. c \in LoadCall /\ c.op = call[s].op
          BY <2>2, <4>1 DEF LoadCall, CallStates
        <4> QED
          BY <3>1, <4>2 DEF CallType
      <3>2. CASE call[s].op = "create"
        <4>1. call[s] \in CreateCall
          BY <1>1, <3>2, CallKinds
        <4>2. call[s] \in [op : {"create"}, st : CallStates, ans : Seq(PostType)]
          BY <4>1 DEF CreateCall
        <4>3. c \in [op : {"create"}, st : CallStates, ans : Seq(PostType)] /\ c.st # "ok" /\ c.op = call[s].op
          BY <2>2, <4>2 DEF CallStates
        <4> QED
          BY <3>2, <4>3 DEF CallType, CreateCall
      <3>3. CASE call[s].op = "delete"
        <4>1. call[s] \in DeleteCall
          BY <1>1, <3>3, CallKinds
        <4> QED
          BY <2>2, <4>1 DEF CallType, DeleteCall, CallStates
      <3>4. CASE call[s].op = "like"
        <4>1. call[s] \in LikeCall
          BY <1>1, <3>4, CallKinds
        <4>2. c \in LikeCall /\ call[s].op = c.op /\ c.obj = call[s].obj /\ c.id = call[s].id
          BY <2>2, <4>1 DEF LikeCall, CallStates
        <4> QED
          BY <4>2 DEF CallType
      <3> QED
        BY <1>1, <2>3, <3>1, <3>2, <3>3, <3>4, CallKinds
    <2>5. call' = [call EXCEPT ![s] = c]
      BY <2>1, <2>2 DEF HeapType
    <2> QED
      BY <1>1, <2>4, <2>5, KeepTypes
  <1> QED
    BY <1>2, <1>3, <1>4, <1>5, <1>6 DEF Serve

\* The objects of an answer, beside those that are there.
LEMMA WithNewFacts ==
    ASSUME HeapType, NEW a \in Seq(PostType), NEW refs \in [1 .. Len(a) -> Objs \ DOMAIN heap], IsInjective(refs)
    PROVE  /\ DOMAIN WithNew(refs, a) = DOMAIN heap \cup Range(refs) /\ DOMAIN WithNew(refs, a) \subseteq Objs
           /\ \A o \in DOMAIN heap : WithNew(refs, a)[o] = heap[o]
           /\ \A k \in 1 .. Len(a) : WithNew(refs, a)[refs[k]] = a[k]
           /\ \A o \in DOMAIN WithNew(refs, a) : WithNew(refs, a)[o] \in PostType
           /\ refs \in Seq(DOMAIN WithNew(refs, a)) /\ Len(refs) = Len(a)
  <1>1. DOMAIN refs = 1 .. Len(a) /\ Range(refs) = {refs[k] : k \in 1 .. Len(a)}
    BY DEF Range
  <1>2. DOMAIN WithNew(refs, a) = DOMAIN heap \cup Range(refs)
    BY DEF WithNew
  <1>3. \A o \in DOMAIN heap : WithNew(refs, a)[o] = heap[o]
    BY DEF WithNew
  <1>4. ASSUME NEW k \in 1 .. Len(a) PROVE WithNew(refs, a)[refs[k]] = a[k]
    <2>1. refs[k] \in Range(refs) /\ refs[k] \notin DOMAIN heap
      BY <1>1
    <2>2. (CHOOSE j \in DOMAIN refs : refs[j] = refs[k]) = k
      BY <1>1 DEF IsInjective
    <2> QED
      BY <2>1, <2>2 DEF WithNew
  <1>5. \A k \in 1 .. Len(a) : a[k] \in PostType
    OBVIOUS
  <1>6. \A o \in DOMAIN WithNew(refs, a) : WithNew(refs, a)[o] \in PostType
    BY <1>1, <1>2, <1>3, <1>4, <1>5 DEF HeapType
  <1>7. DOMAIN WithNew(refs, a) \subseteq Objs
    BY <1>1, <1>2 DEF HeapType
  <1>8. refs \in [1 .. Len(a) -> DOMAIN WithNew(refs, a)]
    BY <1>1, <1>2
  <1>9. refs \in Seq(DOMAIN WithNew(refs, a)) /\ Len(refs) = Len(a)
    BY <1>8
  <1> QED
    BY <1>2, <1>3, <1>4, <1>6, <1>7, <1>9

\* The calls that remain when one ends.
LEMMA DoneCalls ==
    ASSUME HeapType, NEW s \in Slots
    PROVE  /\ Done(s) \in [Slots -> CallType] /\ Done(s)[s] = Idle /\ Done(s)[s].op = "idle"
           /\ \A t \in Slots : t # s => Done(s)[t] = call[t]
           /\ \A t \in Slots : Done(s)[t].op \in {"like", "delete"} =>
                Done(s)[t].obj \in DOMAIN heap /\ heap[Done(s)[t].obj].id = Done(s)[t].id
  <1>1. Idle.op = "idle" /\ Idle \in CallType
    BY DEF Idle, CallType
  <1>2. /\ Done(s) \in [Slots -> CallType] /\ Done(s)[s] = Idle
        /\ \A t \in Slots : t # s => Done(s)[t] = call[t]
    BY <1>1 DEF HeapType, Done
  <1> QED
    BY <1>1, <1>2 DEF HeapType, Refers

LEMMA EndTypes ==
    ASSUME HeapType, NEW s \in Slots, End(s)
    PROVE  HeapType'
  <1>1. call[s] \in CallType
    BY DEF HeapType
  <1>2. PICK cs : cs = Done(s)
    OBVIOUS
  <1>3. /\ cs \in [Slots -> CallType]
        /\ \A t \in Slots : cs[t].op \in {"like", "delete"} => cs[t].obj \in DOMAIN heap /\ heap[cs[t].obj].id = cs[t].id
    BY <1>2, DoneCalls
  <1>4. ASSUME NEW ps \in Seq(DOMAIN heap), Page(heap, ps, cs) PROVE HeapType'
    BY <1>3, <1>4, PageTypes DEF HeapType
  <1>5. ASSUME NEW a \in Seq(PostType), Room(Len(a)), NEW ps,
               ps \in {Fresh(Len(a)), posts \o Fresh(Len(a)), Fresh(Len(a)) \o posts},
               Page(WithNew(Fresh(Len(a)), a), ps, cs)
        PROVE  HeapType'
    <2>1. PICK refs : refs = Fresh(Len(a))
      OBVIOUS
    <2>2. refs \in [1 .. Len(a) -> Objs \ DOMAIN heap] /\ IsInjective(refs)
      BY <1>5, <2>1, FreshRefs
    <2>3. PICK h : h = WithNew(refs, a)
      OBVIOUS
    <2>4. /\ DOMAIN h = DOMAIN heap \cup Range(refs) /\ DOMAIN h \subseteq Objs
          /\ \A o \in DOMAIN heap : h[o] = heap[o]
          /\ \A o \in DOMAIN h : h[o] \in PostType
          /\ refs \in Seq(DOMAIN h)
      <3>3. /\ DOMAIN WithNew(refs, a) = DOMAIN heap \cup Range(refs) /\ DOMAIN WithNew(refs, a) \subseteq Objs
            /\ \A o \in DOMAIN heap : WithNew(refs, a)[o] = heap[o]
            /\ \A o \in DOMAIN WithNew(refs, a) : WithNew(refs, a)[o] \in PostType
            /\ refs \in Seq(DOMAIN WithNew(refs, a))
        BY <2>2, WithNewFacts
      <3> QED
        BY <2>3, <3>3
    <2>5. posts \in Seq(DOMAIN h)
      BY <2>4 DEF HeapType
    <2>6. ps \in Seq(DOMAIN h)
      <3>1. ps = refs \/ ps = posts \o refs \/ ps = refs \o posts
        BY <1>5, <2>1
      <3>2. refs \in Seq(DOMAIN h)
        BY <2>4
      <3>3. posts \o refs \in Seq(DOMAIN h) /\ refs \o posts \in Seq(DOMAIN h)
        BY <2>5, <3>2, ConcatSeq
      <3> QED
        BY <3>1, <3>2, <3>3
    <2>7. \A t \in Slots : cs[t].op \in {"like", "delete"} => cs[t].obj \in DOMAIN h /\ h[cs[t].obj].id = cs[t].id
      BY <1>3, <2>4
    <2>8. Page(h, ps, cs)
      BY <1>5, <2>1, <2>3
    <2> QED
      BY <1>3, <2>4, <2>6, <2>7, <2>8, PageTypes
  <1>6. posts \in Seq(DOMAIN heap) /\ << >> \in Seq(DOMAIN heap)
    BY DEF HeapType
  <1>7. ASSUME EndLoad(s) PROVE HeapType'
    <2>1. call[s] \in LoadCall
      BY <1>1, <1>7, CallKinds DEF EndLoad, Back
    <2>2. call[s].ans \in Seq(PostType)
      BY <2>1 DEF LoadCall
    <2>3. CASE Ok(s)
      <3>1. PICK a \in Seq(PostType) : a = call[s].ans
        BY <2>2
      <3>2. PICK ps : ps = IF call[s].op = "fetch" THEN Fresh(Len(a)) ELSE posts \o Fresh(Len(a))
        OBVIOUS
      <3>3. Room(Len(a)) /\ Page(WithNew(Fresh(Len(a)), a), ps, cs)
        BY <1>2, <1>7, <2>3, <3>1, <3>2 DEF EndLoad, Replaced
      <3>4. ps \in {Fresh(Len(a)), posts \o Fresh(Len(a)), Fresh(Len(a)) \o posts}
        BY <3>2
      <3> QED
        BY <1>5, <3>3, <3>4
    <2>4. CASE ~Ok(s)
      <3>1. Page(heap, << >>, cs) \/ Page(heap, posts, cs)
        BY <1>2, <1>7, <2>4 DEF EndLoad
      <3> QED
        BY <1>4, <1>6, <3>1
    <2> QED
      BY <2>3, <2>4
  <1>8. ASSUME EndCreate(s) PROVE HeapType'
    <2>1. call[s] \in CreateCall
      BY <1>1, <1>8, CallKinds DEF EndCreate, Back
    <2>2. CASE Ok(s)
      <3>1. call[s].ans \in Seq(PostType) /\ \E i \in AnyId : call[s].ans = <<NewPost(i)>>
        BY <2>1, <2>2 DEF CreateCall, Ok
      <3>2. Len(call[s].ans) = 1
        BY <3>1
      <3> QED
        BY <1>2, <1>5, <1>8, <2>2, <3>1, <3>2 DEF EndCreate
    <2>3. CASE ~Ok(s)
      BY <1>2, <1>4, <1>6, <1>8, <2>3 DEF EndCreate
    <2> QED
      BY <2>2, <2>3
  <1>9. ASSUME EndRemove(s) PROVE HeapType'
    <2>1. call[s] \in DeleteCall /\ call[s].obj \in DOMAIN heap
      BY <1>1, <1>9, CallKinds DEF EndRemove, Back, HeapType, Refers
    <2>2. PICK k \in 1 .. Len(posts) + 1 : k = IF call[s].index <= Len(posts) THEN call[s].index ELSE Len(posts) + 1
      BY <1>6, <2>1 DEF DeleteCall
    <2>3. InsertAt(posts, k, call[s].obj) \in Seq(DOMAIN heap)
      BY <1>6, <2>1, InsertAtSeq
    <2>4. Relisted(call[s].index, call[s].obj) \in Seq(DOMAIN heap)
      BY <2>2, <2>3 DEF Relisted
    <2> QED
      BY <1>2, <1>4, <1>6, <1>9, <2>4 DEF EndRemove
  <1>10. ASSUME EndLike(s) PROVE HeapType'
    <2>1. call[s] \in LikeCall /\ call[s].obj \in DOMAIN heap /\ heap[call[s].obj].id = call[s].id
      BY <1>1, <1>10, CallKinds DEF EndLike, Back, HeapType, Refers
    <2>2. PICK now : now = IF Ok(s) THEN call[s].ans ELSE call[s].prev
      OBVIOUS
    <2>3. now \in PostType /\ now.id = call[s].id
      BY <2>1, <2>2 DEF LikeCall, Ok
    <2>4. PICK h : h = IF Current(s) THEN [heap EXCEPT ![call[s].obj] = now] ELSE heap
      OBVIOUS
    <2>5. /\ DOMAIN h = DOMAIN heap /\ DOMAIN h \subseteq Objs /\ posts \in Seq(DOMAIN h)
          /\ \A o \in DOMAIN h : h[o] \in PostType /\ h[o].id = heap[o].id
      BY <1>6, <2>1, <2>3, <2>4 DEF HeapType
    <2>6. Page(h, posts, cs)
      BY <1>2, <1>10, <2>2, <2>4 DEF EndLike, Rollback
    <2>7. \A t \in Slots : cs[t].op \in {"like", "delete"} => cs[t].obj \in DOMAIN h /\ h[cs[t].obj].id = cs[t].id
      BY <1>3, <2>5
    <2> QED
      BY <1>3, <2>5, <2>6, <2>7, PageTypes
  <1> QED
    BY <1>7, <1>8, <1>9, <1>10 DEF End

-----------------------------------------------------------------------------
\* What is neither object nor call nor server.
LEMMA BeginRest ==
    ASSUME RestType, NEW s \in Slots, Begin(s), calls < MaxCalls, calls' = calls + 1
    PROVE  RestType'
  <1>1. calls' = calls + 1 /\ calls' \in 0 .. MaxCalls /\ calls \in Nat
    BY StoreAssumption DEF RestType
  <1>2. likeVersions' \in [AnyId -> 0 .. calls'] /\ pendingLikes' \subseteq AnyId
    <2>1. CASE UNCHANGED likeMarks
      BY <1>1, <2>1 DEF likeMarks, RestType
    <2>2. ASSUME NEW i \in AnyId, ToggleLike(s, i) PROVE likeVersions' \in [AnyId -> 0 .. calls'] /\ pendingLikes' \subseteq AnyId
      BY <1>1, <2>2 DEF ToggleLike, RestType
    <2> QED
      BY <2>1, <2>2 DEF Begin, BeginLoad, CriarPost, RemovePost
  <1>3. flags' \subseteq {"isLoading", "isCreating", "isDeleting"}
    BY DEF Begin, BeginLoad, CriarPost, RemovePost, ToggleLike, Raise, RestType
  <1>4. overlap' \subseteq AnyId
    BY DEF Begin, BeginLoad, CriarPost, RemovePost, ToggleLike, Overlapping, Changing, RestType, history, AnyId
  <1>5. UNCHANGED <<page, hasMore, excused, shifted>>
    BY DEF Begin, BeginLoad, CriarPost, RemovePost, ToggleLike, paging, history
  <1> QED
    BY <1>1, <1>2, <1>3, <1>4, <1>5 DEF RestType

LEMMA ServeRest ==
    ASSUME HeapType, ServerType, RestType, NEW s \in Slots, Serve(s), UNCHANGED calls
    PROVE  RestType'
  <1>1. UNCHANGED <<flags, page, hasMore, likeVersions, pendingLikes>>
    BY DEF Serve, ServeFeed, ServeCreate, ServeDelete, ServeLike, Fail, LoseAnswer, pageState, paging, likeMarks
  <1>2. overlap' \subseteq AnyId
    <2>1. ASSUME ServeCreate(s) PROVE overlap' \subseteq AnyId
      BY <2>1 DEF ServeCreate, Overlapping, RestType, ServerType, AnyId
    <2> QED
      BY <2>1 DEF Serve, ServeFeed, ServeDelete, ServeLike, Fail, LoseAnswer, history, RestType
  <1>3. shifted' \in BOOLEAN
    <2>1. ASSUME ServeFeed(s) PROVE shifted' \in BOOLEAN
      BY <2>1 DEF ServeFeed
    <2>2. ASSUME ServeCreate(s) PROVE shifted' \in BOOLEAN
      BY <2>2 DEF ServeCreate, Insert
    <2> QED
      BY <2>1, <2>2 DEF Serve, ServeDelete, ServeLike, Fail, LoseAnswer, history, RestType
  <1>4. excused' \subseteq AnyId
    <2>1. ASSUME LoseAnswer(s) PROVE excused' \subseteq AnyId
      <3>1. call[s] \in CallType
        BY DEF HeapType
      <3>2. call[s].op \in {"delete", "like"} => call[s].id \in AnyId
        BY <3>1, CallKinds DEF DeleteCall, LikeCall
      <3> QED
        BY <2>1, <3>2 DEF LoseAnswer, RestType
    <2> QED
      BY <2>1 DEF Serve, ServeFeed, ServeCreate, ServeDelete, ServeLike, Fail, history, RestType
  <1> QED
    BY <1>1, <1>2, <1>3, <1>4 DEF RestType

LEMMA EndRest ==
    ASSUME HeapType, RestType, NEW s \in Slots, End(s), UNCHANGED calls
    PROVE  RestType'
  <1>1. UNCHANGED <<likeVersions, shifted>> /\ pendingLikes' \subseteq pendingLikes
    BY DEF End, EndLoad, EndCreate, EndRemove, EndLike, likeMarks, history
  <1>2. flags' \subseteq flags /\ overlap' \subseteq overlap
    BY DEF End, EndLoad, EndCreate, EndRemove, EndLike, Lower, history
  <1>3. page' \in Nat \ {0} /\ hasMore' \in BOOLEAN /\ excused' \subseteq AnyId
    <2>1. CASE UNCHANGED <<paging, excused>>
      BY <2>1 DEF paging, RestType
    <2>2. ASSUME EndLoad(s), Ok(s) PROVE page' \in Nat \ {0} /\ hasMore' \in BOOLEAN /\ excused' \subseteq AnyId
      <3>1. call[s] \in LoadCall
        BY <2>2, CallKinds DEF EndLoad, Back, HeapType
      <3>2. call[s].page \in Nat \ {0} /\ call[s].ans \in Seq(PostType)
        BY <3>1 DEF LoadCall
      <3>3. \A k \in DOMAIN call[s].ans : call[s].ans[k].id \in AnyId
        <4>1. \A k \in DOMAIN call[s].ans : call[s].ans[k] \in PostType
          BY <3>2
        <4> QED
          BY <4>1 DEF PostType
      <3>4. page' = call[s].page /\ hasMore' = (Len(call[s].ans) = PageSize)
        BY <2>2 DEF EndLoad
      <3>5. excused' \subseteq overlap \cup excused \cup {call[s].ans[k].id : k \in DOMAIN call[s].ans}
        BY <2>2 DEF EndLoad
      <3>6. hasMore' \in BOOLEAN
        BY <3>4
      <3> QED
        BY <3>2, <3>3, <3>4, <3>5, <3>6 DEF RestType
    <2> QED
      BY <2>1, <2>2 DEF End, EndLoad, EndCreate, EndRemove, EndLike, history
  <1> QED
    BY <1>1, <1>2, <1>3 DEF RestType

\* What others do.
LEMMA CachedRest ==
    ASSUME RestType, NEW s \in Slots, ServeCached(s), calls < MaxCalls, calls' = calls + 1
    PROVE  RestType'
  <1>1. PICK limit \in Nat : limit = Limit(s)
    BY StoreAssumption DEF Limit
  <1>2. PICK a \in OldPages(limit) : overlap' = overlap \cup {a[k].id : k \in DOMAIN a}
    BY <1>1 DEF ServeCached
  <1>3. overlap' \subseteq AnyId
    BY <1>2, OldPageFacts DEF RestType, AnyId
  <1>4. UNCHANGED <<flags, page, hasMore, likeVersions, pendingLikes, excused>> /\ shifted' \in BOOLEAN
    BY DEF ServeCached, pageState, paging, likeMarks
  <1>5. calls' \in 0 .. MaxCalls /\ calls \in Nat
    BY StoreAssumption DEF RestType
  <1>6. likeVersions' \in [AnyId -> 0 .. calls']
    BY <1>4, <1>5 DEF RestType
  <1> QED
    BY <1>3, <1>4, <1>5, <1>6 DEF RestType

LEMMA OthersRest ==
    ASSUME RestType, OtherPages, UNCHANGED <<pageState, call>>, calls < MaxCalls, calls' = calls + 1
    PROVE  RestType'
  <1>1. overlap' \subseteq AnyId /\ excused' \subseteq AnyId
    BY DEF OtherPages, OtherUserLikes, OtherTabLikes, OtherDelete, OtherCreate, Disturb, Overlapping, RestType, AnyId
  <1>2. shifted' \in BOOLEAN
    BY DEF OtherPages, OtherUserLikes, OtherTabLikes, OtherDelete, OtherCreate, Insert, RestType
  <1>3. UNCHANGED <<flags, page, hasMore, likeVersions, pendingLikes>>
    BY DEF pageState, paging, likeMarks
  <1>4. calls' \in 0 .. MaxCalls /\ calls \in Nat
    BY StoreAssumption DEF RestType
  <1>5. likeVersions' \in [AnyId -> 0 .. calls']
    BY <1>3, <1>4 DEF RestType
  <1> QED
    BY <1>1, <1>2, <1>3, <1>4, <1>5 DEF RestType

LEMMA TypeNext == TypeInv /\ [Next]_vars => TypeInv'
  <1> SUFFICES ASSUME TypeInv, [Next]_vars PROVE TypeInv'
    OBVIOUS
  <1>1. HeapType /\ ServerType /\ RestType /\ ServerType'
    BY ServerTypeNext DEF TypeInv
  <1>2. ASSUME NEW s \in Slots, Begin(s), calls < MaxCalls, calls' = calls + 1 PROVE TypeInv'
    BY <1>1, <1>2, BeginTypes, BeginRest DEF TypeInv
  <1>3. ASSUME NEW s \in Slots, Serve(s), UNCHANGED calls PROVE TypeInv'
    BY <1>1, <1>3, ServeTypes, ServeRest DEF TypeInv
  <1>4. ASSUME NEW s \in Slots, End(s), UNCHANGED calls PROVE TypeInv'
    BY <1>1, <1>4, EndTypes, EndRest DEF TypeInv
  <1>5. CASE UNCHANGED vars
    BY <1>1, <1>5 DEF vars, server, pageState, paging, likeMarks, history, TypeInv, HeapType, Refers, RestType
  <1>6. ASSUME NEW s \in Slots, ServeCached(s), calls < MaxCalls, calls' = calls + 1 PROVE TypeInv'
    BY <1>1, <1>6, ServeTypes, CachedRest DEF TypeInv
  <1>7. ASSUME OtherPages, UNCHANGED <<pageState, call>>, calls < MaxCalls, calls' = calls + 1 PROVE TypeInv'
    <2>1. HeapType'
      BY <1>1, <1>7 DEF pageState, HeapType, Refers
    <2> QED
      BY <1>1, <1>7, <2>1, OthersRest DEF TypeInv
  <1> QED
    BY <1>2, <1>3, <1>4, <1>5, <1>6, <1>7 DEF Next

LEMMA TypeSpec == Spec => []TypeInv
  BY TypeInit, TypeNext, PTL DEF Spec

\* The state keeps its types for any posts, limits and numbers of calls: the
\* server's likes are of its posts (ON DELETE CASCADE), its identifiers are
\* unique, and every listed reference has its object, although an action may
\* hold and put back an object that the list has dropped since.
THEOREM StoreTypeOK == Spec => []TypeOK
  <1>1. TypeInv => TypeOK
    BY DEF TypeInv, HeapType, ServerType, RestType, TypeOK, PostType
  <1> QED
    BY <1>1, TypeSpec, PTL

-----------------------------------------------------------------------------
(* What the list shows, and why.  A post is settled while no cause of a     *)
(* wrong or second display has met it.                                      *)

\* The calls about a post, and the objects of it that are listed or may be
\* put back.
LikesOf(i) == {s \in Running({"like"}) : call[s].id = i}
DeletesOf(i) == {s \in Running({"delete"}) : call[s].id = i}
CreatesOf(i) == {s \in Running({"create"}) : call[s].st = "ok" /\ call[s].ans = <<NewPost(i)>>}
Kept(i) == {posts[k] : k \in Places(i)} \cup {call[s].obj : s \in {t \in DeletesOf(i) : call[t].st # "ok"}}
Free(i) == Places(i) = {} /\ LikesOf(i) = {} /\ DeletesOf(i) = {}
FetchServed == \E s \in Running({"fetch"}) : call[s].st = "ok"

\* Nothing of the page is about a post that does not exist yet, and one call
\* has created it.
Born ==
    /\ \A o \in DOMAIN heap : heap[o].id \notin unborn
    /\ \A s \in Loads : \A k \in DOMAIN call[s].ans : call[s].ans[k].id \notin unborn
    /\ \A i \in unborn : CreatesOf(i) = {} /\ others[i] = 0
    /\ \A i \in Ids : \A s, t \in CreatesOf(i) : s = t

\* The overlap of a load holds every post with a change in flight, and
\* loadMore asks for the page after the last one.
LoadGuards ==
    \A s \in Loads :
        /\ \A i \in Ids : LikesOf(i) # {} \/ DeletesOf(i) # {} \/ CreatesOf(i) # {} => i \in overlap
        /\ call[s].op = "more" => hasMore /\ call[s].page = page + 1

\* The posts of an answer are different ones; unless a post was created since,
\* they are no further down than the page ends; what no change overlaps is
\* what the server has.
LoadAnswers ==
    \A s \in Loads :
        /\ \A j, k \in DOMAIN call[s].ans : call[s].ans[j].id = call[s].ans[k].id => j = k
        /\ ~shifted /\ Len(call[s].ans) = PageSize =>
             \A k \in DOMAIN call[s].ans : \A q \in DOMAIN table :
                 table[q] = call[s].ans[k].id => q <= call[s].page * PageSize
        /\ call[s].op = "fetch" =>
             \A k \in DOMAIN call[s].ans : \A i \in Ids \ overlap :
                 call[s].ans[k].id = i => i \in Range(table) /\ call[s].ans[k] = ServerPost(i)

\* One object of the post is listed or held by a delete; what a create still
\* brings is not there yet.
Once(i) ==
    /\ \A j, k \in Places(i) : j = k
    /\ Places(i) # {} => DeletesOf(i) = {}
    /\ \A s, t \in DeletesOf(i) : s = t
    /\ CreatesOf(i) # {} => Free(i) /\ i \in Range(table) /\ i \notin myLikes /\ others[i] = 0

\* That object shows what the server has, or will when the like that refers
\* to it ends: with the answer, or with what it showed before.
Shown(i) ==
    /\ Kept(i) # {} => i \in Range(table)
    /\ \A o \in Kept(i) : LikesOf(i) = {} => heap[o] = ServerPost(i)
    /\ \A o \in Kept(i) : \A s \in LikesOf(i) : call[s].obj = o
    /\ i \in Range(table) => \A s \in LikesOf(i) : /\ call[s].st = "ok" => call[s].ans = ServerPost(i)
                                                   /\ call[s].st # "ok" => call[s].prev = ServerPost(i)

\* A post that a create still brings has shifted the pages.
Made(i) == CreatesOf(i) # {} => shifted \/ FetchServed

\* While the pages have not shifted, what the page has is before what loadMore
\* asks for next.
Placed(i) ==
    ~shifted /\ hasMore /\ ~FetchServed /\ ~Free(i) =>
        \A q \in DOMAIN table : table[q] = i => q <= page * PageSize

\* What a page that has not shifted brings is new, and what the server has.
Coming(i) ==
    \A s \in Running({"more"}) : \A k \in DOMAIN call[s].ans :
        call[s].ans[k].id = i /\ ~shifted => Free(i) /\ i \in Range(table) /\ call[s].ans[k] = ServerPost(i)

Settled(i) == Once(i) /\ Shown(i) /\ Made(i) /\ Placed(i) /\ Coming(i)

CauseInv == TypeInv /\ MarksInv /\ Born /\ LoadGuards /\ LoadAnswers /\ \A i \in Ids \ excused : Settled(i)

-----------------------------------------------------------------------------
\* A post that a step does not concern stays settled: its calls, objects and
\* places remain.
LEMMA StillShown ==
    ASSUME NEW i, Once(i), Shown(i),
           LikesOf(i)' = LikesOf(i), DeletesOf(i)' = DeletesOf(i), CreatesOf(i)' \subseteq CreatesOf(i),
           \A s \in LikesOf(i) \cup DeletesOf(i) :
               call'[s].obj = call[s].obj /\ (call'[s].st = "ok" <=> call[s].st = "ok"),
           \A s \in LikesOf(i) : call'[s].ans = call[s].ans /\ call'[s].prev = call[s].prev,
           \A k \in Places(i)' : \E l \in Places(i) : posts'[k] = posts[l],
           (\A j, k \in Places(i) : j = k) => (\A j, k \in Places(i)' : j = k),
           \A o \in Kept(i) : heap'[o] = heap[o] \/ o \notin Kept(i)',
           i \in Range(table') <=> i \in Range(table), i \in myLikes' <=> i \in myLikes, others'[i] = others[i]
    PROVE  Once(i)' /\ Shown(i)'
  <1>1. Places(i) = {} => Places(i)' = {}
    OBVIOUS
  <1>2. Kept(i)' \subseteq Kept(i)
    BY DEF Kept
  <1>3. ServerPost(i)' = ServerPost(i)
    BY DEF ServerPost
  <1>4. Free(i) => Free(i)'
    BY <1>1 DEF Free
  <1>5. Once(i)'
    BY <1>1, <1>4 DEF Once
  <1>6. Shown(i)'
    <2>1. i \in Range(table) => \A s \in LikesOf(i) : /\ call'[s].st = "ok" => call'[s].ans = ServerPost(i)
                                                      /\ call'[s].st # "ok" => call'[s].prev = ServerPost(i)
      BY DEF Shown
    <2>2. \A o \in Kept(i)' : LikesOf(i) = {} => heap'[o] = ServerPost(i)
      BY <1>2 DEF Shown
    <2>3. \A o \in Kept(i)' : \A s \in LikesOf(i) : call'[s].obj = o
      BY <1>2 DEF Shown
    <2> QED
      BY <1>2, <1>3, <2>1, <2>2, <2>3 DEF Shown
  <1> QED
    BY <1>5, <1>6

LEMMA StillPlaced ==
    ASSUME NEW i, Placed(i), Free(i) => Free(i)',
           ~shifted' /\ hasMore' /\ ~FetchServed' => ~shifted /\ hasMore /\ ~FetchServed /\ page' = page,
           page \in Nat, DOMAIN table \subseteq Nat, DOMAIN table' \subseteq Nat,
           ~shifted' => \A q \in DOMAIN table' : \E r \in DOMAIN table : q <= r /\ table'[q] = table[r]
    PROVE  Placed(i)'
  <1> SUFFICES ASSUME ~shifted', hasMore', ~FetchServed', ~Free(i)', NEW q \in DOMAIN table', table'[q] = i
               PROVE  q <= page' * PageSize
    BY DEF Placed
  <1>1. PICK r \in DOMAIN table : q <= r /\ table[r] = i
    OBVIOUS
  <1>2. r <= page * PageSize /\ page' = page
    BY <1>1 DEF Placed
  <1>3. page * PageSize \in Nat
    BY StoreAssumption
  <1> QED
    BY <1>1, <1>2, <1>3

LEMMA StillComing ==
    ASSUME NEW i, Coming(i), ~shifted' => ~shifted,
           \A s \in Running({"more"})' : \/ call'[s].ans = << >>
                                         \/ s \in Running({"more"}) /\ call'[s].ans = call[s].ans,
           ~shifted' /\ Free(i) /\ i \in Range(table) =>
               Free(i)' /\ i \in Range(table') /\ (i \in myLikes' <=> i \in myLikes) /\ others'[i] = others[i]
    PROVE  Coming(i)'
  <1> SUFFICES ASSUME NEW s \in Running({"more"})', NEW k \in DOMAIN call'[s].ans, call'[s].ans[k].id = i, ~shifted'
               PROVE  Free(i)' /\ i \in Range(table') /\ call'[s].ans[k] = ServerPost(i)'
    BY DEF Coming
  <1>1. s \in Running({"more"}) /\ call'[s].ans = call[s].ans
    OBVIOUS
  <1>2. Free(i) /\ i \in Range(table) /\ call[s].ans[k] = ServerPost(i)
    BY <1>1 DEF Coming
  <1> QED
    BY <1>1, <1>2 DEF ServerPost

\* A load in flight that a step does not concern: its overlap holds the posts
\* the step concerns.
LEMMA StillLoads ==
    ASSUME TypeInv, ServerType', LoadGuards, LoadAnswers,
           \A s \in Loads' : /\ s \in Loads /\ call'[s].op = call[s].op /\ call'[s].page = call[s].page
                             /\ call'[s].ans = call[s].ans,
           Loads' # {} => hasMore' = hasMore /\ page' = page,
           Loads' # {} => \A i \in Ids : LikesOf(i)' # {} \/ DeletesOf(i)' # {} \/ CreatesOf(i)' # {} => i \in overlap',
           Loads' # {} => \A i \in Ids \ overlap' :
               /\ i \notin overlap /\ (i \in myLikes' <=> i \in myLikes) /\ others'[i] = others[i]
               /\ i \in Range(table) => i \in Range(table'),
           ~shifted' => ~shifted /\ \A q \in DOMAIN table' : \E r \in DOMAIN table : q <= r /\ table'[q] = table[r]
    PROVE  LoadGuards' /\ LoadAnswers'
  <1>1. LoadGuards'
    BY DEF LoadGuards
  <1>2. LoadAnswers'
    <2> SUFFICES ASSUME NEW s \in Loads'
                 PROVE  /\ \A j, k \in DOMAIN call'[s].ans : call'[s].ans[j].id = call'[s].ans[k].id => j = k
                        /\ ~shifted' /\ Len(call'[s].ans) = PageSize =>
                             \A k \in DOMAIN call'[s].ans : \A q \in DOMAIN table' :
                                 table'[q] = call'[s].ans[k].id => q <= call'[s].page * PageSize
                        /\ call'[s].op = "fetch" =>
                             \A k \in DOMAIN call'[s].ans : \A i \in Ids \ overlap' :
                                 call'[s].ans[k].id = i => i \in Range(table') /\ call'[s].ans[k] = ServerPost(i)'
      BY DEF LoadAnswers
    <2>1. s \in Loads /\ call'[s].op = call[s].op /\ call'[s].page = call[s].page /\ call'[s].ans = call[s].ans
      OBVIOUS
    <2>2. \A j, k \in DOMAIN call'[s].ans : call'[s].ans[j].id = call'[s].ans[k].id => j = k
      BY <2>1 DEF LoadAnswers
    <2>3. ASSUME ~shifted', Len(call'[s].ans) = PageSize, NEW k \in DOMAIN call'[s].ans, NEW q \in DOMAIN table',
                 table'[q] = call'[s].ans[k].id
          PROVE  q <= call'[s].page * PageSize
      <3>1. PICK r \in DOMAIN table : q <= r /\ table[r] = call[s].ans[k].id
        BY <2>1, <2>3
      <3>2. r <= call[s].page * PageSize
        BY <2>1, <2>3, <3>1 DEF LoadAnswers
      <3>3. call[s].page \in Nat
        <4>1. call[s] \in LoadCall
          BY <2>1, CallKinds DEF TypeInv, HeapType, Loads, Running
        <4> QED
          BY <4>1 DEF LoadCall
      <3>4. call[s].page * PageSize \in Nat
        BY <3>3, StoreAssumption
      <3>5. r \in Nat /\ q \in Nat
        <4>1. table \in Seq(Ids) /\ table' \in Seq(Ids)
          BY DEF TypeInv, ServerType
        <4> QED
          BY <2>3, <4>1
      <3> QED
        BY <2>1, <3>1, <3>2, <3>4, <3>5
    <2>4. ASSUME call'[s].op = "fetch", NEW k \in DOMAIN call'[s].ans, NEW i \in Ids \ overlap', call'[s].ans[k].id = i
          PROVE  i \in Range(table') /\ call'[s].ans[k] = ServerPost(i)'
      <3>1. i \in Range(table) /\ call[s].ans[k] = ServerPost(i)
        BY <2>1, <2>4 DEF LoadAnswers
      <3>2. ServerPost(i)' = ServerPost(i)
        BY DEF ServerPost
      <3> QED
        BY <2>1, <3>1, <3>2
    <2> QED
      BY <2>2, <2>3, <2>4
  <1> QED
    BY <1>1, <1>2

\* What a call in flight changes is changing.
LEMMA ChangingPosts ==
    ASSUME NEW i \in Ids, LikesOf(i) # {} \/ DeletesOf(i) # {} \/ CreatesOf(i) # {}
    PROVE  i \in Changing
  <1>1. CASE LikesOf(i) # {} \/ DeletesOf(i) # {}
    <2>1. Changes(i) # {}
      BY <1>1 DEF Changes, LikesOf, DeletesOf, Running
    <2> QED
      BY <2>1 DEF Changing
  <1>2. CASE CreatesOf(i) # {}
    BY <1>2 DEF Changing, CreatesOf
  <1> QED
    BY <1>1, <1>2

LEMMA LoadBegins ==
    ASSUME CauseInv, TypeInv', MarksInv', NEW s \in Slots, call[s] = Idle, NEW op \in {"fetch", "more"}, BeginLoad(s, op)
    PROVE  CauseInv'
  <1>1. /\ call'[s].op = op /\ call'[s].ans = << >> /\ call'[s].st = "sent"
        /\ call'[s].page = IF op = "fetch" THEN 1 ELSE page + 1
        /\ \A t \in Slots : t # s => call'[t] = call[t]
    BY DEF BeginLoad, CauseInv, TypeInv, HeapType
  <1>2. call[s].op = "idle"
    BY DEF Idle
  <1>3. /\ UNCHANGED <<table, myLikes, others, unborn, heap, posts, page, hasMore, shifted, excused>>
        /\ overlap' = Changing /\ "isLoading" \notin flags /\ (op = "more" => hasMore)
    BY DEF BeginLoad, server, paging
  <1>4. \A i : /\ LikesOf(i)' = LikesOf(i) /\ DeletesOf(i)' = DeletesOf(i) /\ CreatesOf(i)' = CreatesOf(i)
               /\ \A t \in LikesOf(i) \cup DeletesOf(i) : call'[t] = call[t]
               /\ Places(i)' = Places(i)
    BY <1>1, <1>2, <1>3 DEF LikesOf, DeletesOf, CreatesOf, Running, Places
  <1>5. Loads = {} /\ Loads' = {s}
    <2>1. Loads = {}
      BY <1>3 DEF CauseInv, MarksInv, Marks
    <2> QED
      BY <1>1, <2>1 DEF Loads, Running
  <1>6. Born'
    BY <1>1, <1>3, <1>4, <1>5 DEF CauseInv, Born
  <1>7. LoadGuards'
    <2>1. \A i \in Ids : LikesOf(i)' # {} \/ DeletesOf(i)' # {} \/ CreatesOf(i)' # {} => i \in overlap'
      BY <1>3, <1>4, ChangingPosts
    <2> QED
      BY <1>1, <1>3, <1>5, <2>1 DEF LoadGuards
  <1>8. LoadAnswers'
    BY <1>1, <1>5, StoreAssumption DEF LoadAnswers
  <1>9. ~FetchServed /\ ~FetchServed'
    BY <1>1, <1>5 DEF FetchServed, Loads, Running
  <1>10. ASSUME NEW i \in Ids \ excused' PROVE Settled(i)'
    <2>1. Settled(i)
      BY <1>3 DEF CauseInv
    <2>2. Free(i) <=> Free(i)'
      BY <1>4 DEF Free
    <2>3. Once(i)' /\ Shown(i)'
      BY <1>3, <1>4, <2>1, StillShown DEF Settled
    <2>4. Made(i)' /\ Placed(i)'
      BY <1>3, <1>4, <1>9, <2>1, <2>2 DEF Settled, Made, Placed
    <2>5. Coming(i)'
      BY <1>1, <1>5 DEF Coming, Loads, Running
    <2> QED
      BY <2>3, <2>4, <2>5 DEF Settled
  <1> QED
    BY <1>6, <1>7, <1>8, <1>10 DEF CauseInv

LEMMA CreateBegins ==
    ASSUME CauseInv, TypeInv', MarksInv', NEW s \in Slots, call[s] = Idle, CriarPost(s)
    PROVE  CauseInv'
  <1>1. /\ call'[s].op = "create" /\ call'[s].st = "sent" /\ call[s].op = "idle"
        /\ \A t \in Slots : t # s => call'[t] = call[t]
    BY DEF CriarPost, CauseInv, TypeInv, HeapType, Idle
  <1>2. UNCHANGED <<table, myLikes, others, unborn, heap, posts, page, hasMore, shifted, excused, overlap>>
    BY DEF CriarPost, server, paging, history
  <1>3. \A i : /\ LikesOf(i)' = LikesOf(i) /\ DeletesOf(i)' = DeletesOf(i) /\ CreatesOf(i)' = CreatesOf(i)
               /\ \A t \in LikesOf(i) \cup DeletesOf(i) : call'[t] = call[t]
               /\ Places(i)' = Places(i)
    BY <1>1, <1>2 DEF LikesOf, DeletesOf, CreatesOf, Running, Places
  <1>4. /\ Loads' = Loads /\ \A t \in Loads : call'[t] = call[t]
        /\ Running({"more"})' = Running({"more"}) /\ Running({"more"}) \subseteq Loads
    BY <1>1 DEF Loads, Running
  <1>5. FetchServed' <=> FetchServed
    BY <1>1 DEF FetchServed, Running
  <1>6. Born'
    BY <1>2, <1>3, <1>4 DEF CauseInv, Born
  <1>7. LoadGuards'
    BY <1>2, <1>3, <1>4 DEF CauseInv, LoadGuards
  <1>8. LoadAnswers'
    BY <1>2, <1>4 DEF CauseInv, LoadAnswers, ServerPost
  <1>9. ASSUME NEW i \in Ids \ excused' PROVE Settled(i)'
    <2>1. Settled(i)
      BY <1>2 DEF CauseInv
    <2>2. Free(i) <=> Free(i)'
      BY <1>3 DEF Free
    <2>3. Once(i)' /\ Shown(i)'
      BY <1>2, <1>3, <2>1, StillShown DEF Settled
    <2>4. Made(i)' /\ Placed(i)'
      BY <1>2, <1>3, <1>5, <2>1, <2>2 DEF Settled, Made, Placed
    <2>5. Coming(i)'
      BY <1>2, <1>4, <2>1, <2>2, StillComing DEF Settled
    <2> QED
      BY <2>3, <2>4, <2>5 DEF Settled
  <1> QED
    BY <1>6, <1>7, <1>8, <1>9 DEF CauseInv

\* What removePost does up to its await.
LEMMA RemoveEffect ==
    ASSUME TypeInv, HeapType', NEW s \in Slots, NEW i \in AnyId, RemovePost(s, i)
    PROVE  \E k \in Places(i) :
             /\ call'[s].op = "delete" /\ call'[s].st = "sent" /\ call'[s].id = i /\ call'[s].obj = posts[k]
             /\ \A t \in Slots : t # s => call'[t] = call[t]
             /\ DOMAIN posts' = 1 .. Len(posts) - 1
             /\ \A j \in DOMAIN posts' : posts'[j] = IF j < k THEN posts[j] ELSE posts[j + 1]
             /\ \A o \in DOMAIN heap' : o \in DOMAIN heap /\ heap'[o] = heap[o]
  <1>1. HeapType
    BY DEF TypeInv
  <1>2. PICK k \in Places(i) : k = IndexOf(i)
    BY <1>1, IndexOfPlace DEF RemovePost
  <1>3. k \in DOMAIN posts /\ posts[k] \in DOMAIN heap
    BY <1>1 DEF Places, HeapType
  <1>4. PICK c : c = [op |-> "delete", st |-> "sent", id |-> i, index |-> k, obj |-> posts[k], ans |-> << >>]
    OBVIOUS
  <1>5. PICK cs : cs = [call EXCEPT ![s] = c]
    OBVIOUS
  <1>6. cs[s] = c /\ \A t \in Slots : t # s => cs[t] = call[t]
    BY <1>1, <1>5 DEF HeapType
  <1>7. PICK ps : ps = RemoveAt(posts, k)
    OBVIOUS
  <1>8. Page(heap, ps, cs)
    BY <1>2, <1>4, <1>5, <1>7 DEF RemovePost, Unlisted
  <1>9. posts' = ps /\ call' = cs /\ \A o \in DOMAIN heap' : heap'[o] = heap[o]
    BY <1>8, PageHeap
  <1>10. /\ DOMAIN posts' = 1 .. Len(posts) - 1
         /\ \A j \in DOMAIN posts' : posts'[j] = IF j < k THEN posts[j] ELSE posts[j + 1]
    BY <1>1, <1>3, <1>7, <1>9, RemoveAtSeq DEF HeapType
  <1>11. DOMAIN heap' \subseteq DOMAIN heap
    <2>1. ps \in Seq(DOMAIN heap)
      BY <1>1, <1>3, <1>7, RemoveAtSeq DEF HeapType
    <2>2. \A t \in Slots : cs[t].op \in {"like", "delete"} => cs[t].obj \in DOMAIN heap
      BY <1>1, <1>3, <1>4, <1>6 DEF HeapType, Refers
    <2> QED
      BY <1>8, <2>1, <2>2, PageKeeps
  <1> QED
    BY <1>4, <1>6, <1>9, <1>10, <1>11

\* The places of a post after a step that moves them.
LEMMA Moved ==
    ASSUME HeapType', NEW i, NEW m,
           \A j \in Places(i)' : m[j] \in DOMAIN posts /\ posts'[j] = posts[m[j]],
           \A j, l \in Places(i)' : m[j] = m[l] => j = l,
           \A o \in DOMAIN heap' : o \in DOMAIN heap => heap'[o].id = heap[o].id,
           HeapType
    PROVE  /\ \A j \in Places(i)' : m[j] \in Places(i) /\ posts'[j] = posts[m[j]]
           /\ (\A j, k \in Places(i) : j = k) => (\A j, k \in Places(i)' : j = k)
  <1>1. ASSUME NEW j \in Places(i)' PROVE m[j] \in Places(i) /\ posts'[j] = posts[m[j]]
    <2>1. j \in DOMAIN posts' /\ heap'[posts'[j]].id = i
      BY DEF Places
    <2>2. posts'[j] \in DOMAIN heap' /\ posts[m[j]] \in DOMAIN heap
      BY <2>1 DEF HeapType
    <2> QED
      BY <2>1, <2>2 DEF Places
  <1> QED
    BY <1>1

LEMMA RemoveBegins ==
    ASSUME CauseInv, TypeInv', MarksInv', NEW s \in Slots, call[s] = Idle, NEW i0 \in AnyId, RemovePost(s, i0)
    PROVE  CauseInv'
  <1>1. TypeInv /\ HeapType /\ HeapType' /\ ServerType'
    BY DEF CauseInv, TypeInv
  <1>2. PICK k \in Places(i0) :
             /\ call'[s].op = "delete" /\ call'[s].st = "sent" /\ call'[s].id = i0 /\ call'[s].obj = posts[k]
             /\ \A t \in Slots : t # s => call'[t] = call[t]
             /\ DOMAIN posts' = 1 .. Len(posts) - 1
             /\ \A j \in DOMAIN posts' : posts'[j] = IF j < k THEN posts[j] ELSE posts[j + 1]
             /\ \A o \in DOMAIN heap' : o \in DOMAIN heap /\ heap'[o] = heap[o]
    BY <1>1, RemoveEffect
  <1>3. call[s].op = "idle" /\ k \in DOMAIN posts /\ heap[posts[k]].id = i0 /\ DOMAIN posts = 1 .. Len(posts) /\ Len(posts) \in Nat
    BY <1>1 DEF Idle, Places, HeapType
  <1>4. /\ UNCHANGED <<table, myLikes, others, unborn, page, hasMore, shifted, excused>>
        /\ overlap' = IF Loads # {} THEN overlap \cup {i0} ELSE overlap
    BY DEF RemovePost, Overlapping, server, paging
  <1>5. /\ Loads' = Loads /\ \A t \in Loads : call'[t] = call[t]
        /\ Running({"more"})' = Running({"more"}) /\ Running({"more"}) \subseteq Loads
    BY <1>2, <1>3 DEF Loads, Running
  <1>6. FetchServed' <=> FetchServed
    BY <1>2, <1>3 DEF FetchServed, Running
  <1>7. /\ \A i : i # i0 => DeletesOf(i)' = DeletesOf(i)
        /\ DeletesOf(i0)' = DeletesOf(i0) \cup {s}
        /\ \A i : LikesOf(i)' = LikesOf(i) /\ CreatesOf(i)' = CreatesOf(i)
        /\ \A i : s \notin LikesOf(i) \cup DeletesOf(i)
        /\ \A i : \A t \in LikesOf(i) \cup DeletesOf(i) : call'[t] = call[t]
    BY <1>2, <1>3 DEF LikesOf, DeletesOf, CreatesOf, Running
  <1>8. PICK m : m = [j \in DOMAIN posts' |-> IF j < k THEN j ELSE j + 1]
    OBVIOUS
  <1>9. /\ \A j \in DOMAIN posts' : m[j] \in DOMAIN posts /\ posts'[j] = posts[m[j]] /\ m[j] # k
        /\ \A j, l \in DOMAIN posts' : m[j] = m[l] => j = l
    BY <1>2, <1>3, <1>8
  <1>10. ASSUME NEW i
         PROVE  /\ \A j \in Places(i)' : m[j] \in Places(i) /\ posts'[j] = posts[m[j]] /\ m[j] # k
                /\ (\A j, l \in Places(i) : j = l) => (\A j, l \in Places(i)' : j = l)
    <2>1. /\ \A j \in Places(i)' : m[j] \in DOMAIN posts /\ posts'[j] = posts[m[j]]  /\ m[j] # k
          /\ \A j, l \in Places(i)' : m[j] = m[l] => j = l
      BY <1>9 DEF Places
    <2> QED
      BY <1>1, <1>2, <2>1, Moved
  <1>11. Born'
    BY <1>2, <1>4, <1>5, <1>7 DEF CauseInv, Born
  <1>12. LoadGuards' /\ LoadAnswers'
    <2>1. Loads # {} => \A i \in Ids : LikesOf(i)' # {} \/ DeletesOf(i)' # {} \/ CreatesOf(i)' # {} => i \in overlap'
      BY <1>4, <1>7 DEF CauseInv, LoadGuards
    <2>2. \A q \in DOMAIN table : \E r \in DOMAIN table : q <= r /\ table[q] = table[r]
      BY <1>1 DEF TypeInv, ServerType
    <2> QED
      BY <1>1, <1>4, <1>5, <2>1, <2>2, StillLoads DEF CauseInv
  <1>13. ASSUME NEW i \in Ids \ excused' PROVE Settled(i)'
    <2>1. Settled(i)
      BY <1>4 DEF CauseInv
    <2>2. Once(i)' /\ Shown(i)'
      <3>1. CASE i # i0
        <4>1. \A o \in Kept(i) : heap'[o] = heap[o] \/ o \notin Kept(i)'
          <5>1. Kept(i)' \subseteq DOMAIN heap'
            BY <1>1 DEF Kept, DeletesOf, Running, Places, HeapType, Refers
          <5> QED
            BY <1>2, <5>1
        <4> QED
          BY <1>4, <1>7, <1>10, <2>1, <3>1, <4>1, StillShown DEF Settled
      <3>2. CASE i = i0
        <4>1. /\ \A j \in Places(i) : j = k
              /\ DeletesOf(i) = {} /\ CreatesOf(i) = {}
          BY <2>1, <3>2 DEF Settled, Once, Free
        <4>2. Places(i)' = {}
          BY <1>10, <4>1
        <4>3. DeletesOf(i)' = {s}
          BY <1>7, <3>2, <4>1
        <4>4. Kept(i)' = {posts[k]} /\ posts[k] \in Kept(i)
          BY <1>2, <3>2, <4>2, <4>3 DEF Kept
        <4>5. heap'[posts[k]] = heap[posts[k]]
          BY <1>1, <1>2, <4>3 DEF HeapType, Refers, DeletesOf, Running
        <4>6. Once(i)'
          BY <1>7, <4>1, <4>2, <4>3 DEF Once
        <4>7. Shown(i)'
          BY <1>4, <1>7, <2>1, <4>4, <4>5 DEF Settled, Shown, ServerPost
        <4> QED
          BY <4>6, <4>7
      <3> QED
        BY <3>1, <3>2
    <2>3. Made(i)'
      BY <1>4, <1>6, <1>7, <2>1 DEF Settled, Made
    <2>4. Free(i) => Free(i)'
      BY <1>7, <1>10 DEF Free
    <2>5. Placed(i)'
      BY <1>4, <1>6, <2>1, <2>4 DEF Settled, Placed
    <2>6. Coming(i)'
      BY <1>4, <1>5, <2>1, <2>4, StillComing DEF Settled
    <2> QED
      BY <2>2, <2>3, <2>5, <2>6 DEF Settled
  <1> QED
    BY <1>1, <1>11, <1>12, <1>13 DEF CauseInv

\* What toggleLike does up to its await.
LEMMA LikeEffect ==
    ASSUME TypeInv, NEW s \in Slots, NEW i \in AnyId, ToggleLike(s, i)
    PROVE  \E k \in Places(i) :
             /\ call'[s].op = "like" /\ call'[s].st = "sent" /\ call'[s].id = i /\ call'[s].obj = posts[k]
             /\ call'[s].prev = heap[posts[k]]
             /\ \A t \in Slots : t # s => call'[t] = call[t]
             /\ posts' = posts
             /\ \A x \in DOMAIN heap' : /\ x \in DOMAIN heap /\ heap'[x].id = heap[x].id
                                        /\ x # posts[k] => heap'[x] = heap[x]
  <1>1. HeapType
    BY DEF TypeInv
  <1>2. PICK k \in Places(i) : k = IndexOf(i)
    BY <1>1, IndexOfPlace DEF ToggleLike, MayLike
  <1>3. PICK o : o = posts[k]
    OBVIOUS
  <1>4. o \in DOMAIN heap /\ heap[o] \in PostType
    BY <1>1, <1>3 DEF Places, HeapType
  <1>5. PICK c : c = [op |-> "like", st |-> "sent", id |-> i, obj |-> o, prev |-> heap[o],
                      version |-> likeVersions[i] + 1, ans |-> << >>]
    OBVIOUS
  <1>6. c.op = "like" /\ c.st = "sent" /\ c.id = i /\ c.obj = o /\ c.prev = heap[o]
    BY <1>5
  <1>7. PICK cs : cs = [call EXCEPT ![s] = c]
    OBVIOUS
  <1>8. cs[s] = c /\ \A t \in Slots : t # s => cs[t] = call[t]
    BY <1>1, <1>7 DEF HeapType
  <1>9. PICK p : p = [heap[o] EXCEPT !.liked = ~@, !.count = IF heap[o].liked THEN @ - 1 ELSE @ + 1]
    OBVIOUS
  <1>10. p.id = heap[o].id
    BY <1>4, <1>9 DEF PostType
  <1>11. PICK h : h = [heap EXCEPT ![o] = p]
    OBVIOUS
  <1>12. DOMAIN h = DOMAIN heap /\ \A x \in DOMAIN heap : h[x].id = heap[x].id /\ (x # o => h[x] = heap[x])
    BY <1>4, <1>10, <1>11
  <1>13. Page(h, posts, cs)
    <2>1. [heap EXCEPT ![o].liked = ~@, ![o].count = IF heap[o].liked THEN @ - 1 ELSE @ + 1] = h
      BY <1>4, <1>9, <1>11 DEF PostType
    <2> QED
      BY <1>2, <1>3, <1>5, <1>7, <2>1 DEF ToggleLike
  <1>14. posts' = posts /\ call' = cs /\ \A x \in DOMAIN heap' : heap'[x] = h[x]
    BY <1>13, PageHeap
  <1>15. DOMAIN heap' \subseteq DOMAIN h
    <2>1. posts \in Seq(DOMAIN h)
      BY <1>1, <1>12 DEF HeapType
    <2>2. \A t \in Slots : cs[t].op \in {"like", "delete"} => cs[t].obj \in DOMAIN h
      BY <1>1, <1>4, <1>6, <1>8, <1>12 DEF HeapType, Refers
    <2> QED
      BY <1>13, <2>1, <2>2, PageKeeps
  <1> QED
    BY <1>3, <1>6, <1>8, <1>12, <1>14, <1>15

LEMMA LikeBegins ==
    ASSUME CauseInv, TypeInv', MarksInv', NEW s \in Slots, call[s] = Idle, NEW i0 \in AnyId, ToggleLike(s, i0)
    PROVE  CauseInv'
  <1>1. TypeInv /\ HeapType /\ HeapType' /\ ServerType'
    BY DEF CauseInv, TypeInv
  <1>2. PICK k \in Places(i0) :
             /\ call'[s].op = "like" /\ call'[s].st = "sent" /\ call'[s].id = i0 /\ call'[s].obj = posts[k]
             /\ call'[s].prev = heap[posts[k]]
             /\ \A t \in Slots : t # s => call'[t] = call[t]
             /\ posts' = posts
             /\ \A x \in DOMAIN heap' : /\ x \in DOMAIN heap /\ heap'[x].id = heap[x].id
                                        /\ x # posts[k] => heap'[x] = heap[x]
    BY <1>1, LikeEffect
  <1>3. call[s].op = "idle" /\ k \in DOMAIN posts /\ heap[posts[k]].id = i0
    BY DEF Idle, Places
  <1>4. /\ UNCHANGED <<table, myLikes, others, unborn, page, hasMore, shifted, excused>>
        /\ overlap' = IF Loads # {} THEN overlap \cup {i0} ELSE overlap
        /\ i0 \notin pendingLikes
    BY DEF ToggleLike, MayLike, Overlapping, server, paging
  <1>5. /\ Loads' = Loads /\ \A t \in Loads : call'[t] = call[t]
        /\ Running({"more"})' = Running({"more"}) /\ Running({"more"}) \subseteq Loads
    BY <1>2, <1>3 DEF Loads, Running
  <1>6. FetchServed' <=> FetchServed
    BY <1>2, <1>3 DEF FetchServed, Running
  <1>7. /\ \A i : i # i0 => LikesOf(i)' = LikesOf(i)
        /\ LikesOf(i0)' = LikesOf(i0) \cup {s}
        /\ \A i : DeletesOf(i)' = DeletesOf(i) /\ CreatesOf(i)' = CreatesOf(i)
        /\ \A i : \A t \in LikesOf(i) \cup DeletesOf(i) : call'[t] = call[t]
    BY <1>2, <1>3 DEF LikesOf, DeletesOf, CreatesOf, Running
  <1>8. LikesOf(i0) = {}
    BY <1>4 DEF LikesOf, CauseInv, MarksInv, Marks
  <1>9. \A i : Places(i)' = Places(i)
    <2>1. \A j \in DOMAIN posts : posts[j] \in DOMAIN heap'
      BY <1>1, <1>2 DEF HeapType
    <2> QED
      BY <1>2, <2>1 DEF Places
  <1>10. Born'
    BY <1>2, <1>4, <1>5, <1>7 DEF CauseInv, Born
  <1>11. LoadGuards' /\ LoadAnswers'
    <2>1. Loads # {} => \A i \in Ids : LikesOf(i)' # {} \/ DeletesOf(i)' # {} \/ CreatesOf(i)' # {} => i \in overlap'
      BY <1>4, <1>7 DEF CauseInv, LoadGuards
    <2>2. \A q \in DOMAIN table : \E r \in DOMAIN table : q <= r /\ table[q] = table[r]
      BY <1>1 DEF TypeInv, ServerType
    <2> QED
      BY <1>1, <1>4, <1>5, <2>1, <2>2, StillLoads DEF CauseInv
  <1>12. ASSUME NEW i \in Ids \ excused' PROVE Settled(i)'
    <2>1. Settled(i)
      BY <1>4 DEF CauseInv
    <2>2. Once(i)' /\ Shown(i)'
      <3>1. CASE i # i0
        <4>1. \A o \in Kept(i) : o \in DOMAIN heap /\ heap[o].id = i
          BY <1>1 DEF Kept, DeletesOf, Running, Places, HeapType, Refers
        <4>2. Kept(i)' \subseteq DOMAIN heap'
          BY <1>1 DEF Kept, DeletesOf, Running, Places, HeapType, Refers
        <4>3. \A o \in Kept(i) : heap'[o] = heap[o] \/ o \notin Kept(i)'
          BY <1>2, <1>3, <3>1, <4>1, <4>2
        <4> QED
          BY <1>2, <1>4, <1>7, <1>9, <2>1, <3>1, <4>3, StillShown DEF Settled
      <3>2. CASE i = i0
        <4>1. /\ \A j \in Places(i) : j = k
              /\ DeletesOf(i) = {} /\ CreatesOf(i) = {}
          BY <2>1, <3>2 DEF Settled, Once, Free
        <4>2. LikesOf(i)' = {s}
          BY <1>7, <1>8, <3>2
        <4>3. Kept(i)' = {posts[k]} /\ Kept(i) = {posts[k]}
          BY <1>2, <1>7, <1>9, <3>2, <4>1 DEF Kept
        <4>4. Once(i)'
          BY <1>7, <1>9, <4>1 DEF Once
        <4>5. heap[posts[k]] = ServerPost(i) /\ i \in Range(table)
          BY <1>8, <2>1, <3>2, <4>3 DEF Settled, Shown
        <4>6. Shown(i)'
          BY <1>2, <1>4, <4>2, <4>3, <4>5 DEF Shown, ServerPost
        <4> QED
          BY <4>4, <4>6
      <3> QED
        BY <3>1, <3>2
    <2>3. Made(i)'
      BY <1>4, <1>6, <1>7, <2>1 DEF Settled, Made
    <2>4. Free(i) => Free(i)'
      BY <1>7, <1>9 DEF Free
    <2>5. Placed(i)'
      BY <1>4, <1>6, <2>1, <2>4 DEF Settled, Placed
    <2>6. Coming(i)'
      BY <1>4, <1>5, <2>1, <2>4, StillComing DEF Settled
    <2> QED
      BY <2>2, <2>3, <2>5, <2>6 DEF Settled
  <1> QED
    BY <1>1, <1>10, <1>11, <1>12 DEF CauseInv

-----------------------------------------------------------------------------
\* The answer of ListFeed: the posts of a page of the table, as the server
\* has them.
LEMMA FeedEffect ==
    ASSUME TypeInv, NEW s \in Slots, ServeFeed(s)
    PROVE  \E m \in Nat, limit \in Nat :
             /\ call[s] \in LoadCall /\ call[s].st = "sent"
             /\ m = (call[s].page - 1) * limit /\ limit = IF call[s].op = "fetch" THEN FetchLimit ELSE PageSize
             /\ call'[s].op = call[s].op /\ call'[s].page = call[s].page /\ call'[s].st = "ok"
             /\ Len(call'[s].ans) <= limit /\ Len(call'[s].ans) \in Nat
             /\ DOMAIN call'[s].ans = 1 .. Len(call'[s].ans)
             /\ \A k \in DOMAIN call'[s].ans : m + k \in DOMAIN table /\ call'[s].ans[k] = ServerPost(table[m + k])
             /\ \A t \in Slots : t # s => call'[t] = call[t]
  <1>1. HeapType /\ ServerType
    BY DEF TypeInv
  <1>2. call[s] \in LoadCall /\ call[s].st = "sent"
    BY <1>1, CallKinds DEF ServeFeed, Pending, HeapType
  <1>3. PICK limit \in Nat : limit = IF call[s].op = "fetch" THEN FetchLimit ELSE PageSize
    BY StoreAssumption
  <1>3a. limit = Limit(s)
    BY <1>3 DEF Limit
  <1>4. PICK num \in Nat \ {0} : num = call[s].page
    BY <1>2 DEF LoadCall
  <1>5. PICK m \in Nat : m = (num - 1) * limit
    <2>1. num - 1 \in Nat
      OBVIOUS
    <2> QED
      BY <2>1
  <1>6. PICK a : (a = FeedPage(num, limit) \/ a = << >>) /\ Answer(s, a)
    BY <1>3a, <1>4 DEF ServeFeed
  <1>7. /\ a \in Seq(PostType) /\ Len(a) <= limit /\ DOMAIN a = 1 .. Len(a)
        /\ \A k \in DOMAIN a : m + k \in DOMAIN table /\ a[k] = ServerPost(table[m + k])
    <2>1. CASE a = FeedPage(num, limit)
      BY <1>1, <1>5, <2>1, FeedPageFacts
    <2>2. CASE a = << >>
      BY <2>2
    <2> QED
      BY <1>6, <2>1, <2>2
  <1>8. Answer(s, a)
    BY <1>6
  <1>9. /\ call'[s] = [call[s] EXCEPT !.st = "ok", !.ans = a]
        /\ \A t \in Slots : t # s => call'[t] = call[t]
    BY <1>1, <1>8 DEF Answer, HeapType
  <1>10. call'[s].op = call[s].op /\ call'[s].page = call[s].page /\ call'[s].st = "ok" /\ call'[s].ans = a
    BY <1>2, <1>9 DEF LoadCall
  <1>11. Len(a) \in Nat
    BY <1>7
  <1> QED
    BY <1>2, <1>3, <1>4, <1>5, <1>7, <1>9, <1>10, <1>11

LEMMA FeedServed ==
    ASSUME CauseInv, TypeInv', MarksInv', NEW s \in Slots, ServeFeed(s)
    PROVE  CauseInv'
  <1>1. TypeInv /\ HeapType /\ HeapType' /\ ServerType
    BY DEF CauseInv, TypeInv
  <1>2. PICK m \in Nat, limit \in Nat :
             /\ call[s] \in LoadCall /\ call[s].st = "sent"
             /\ m = (call[s].page - 1) * limit /\ limit = IF call[s].op = "fetch" THEN FetchLimit ELSE PageSize
             /\ call'[s].op = call[s].op /\ call'[s].page = call[s].page /\ call'[s].st = "ok"
             /\ Len(call'[s].ans) <= limit /\ Len(call'[s].ans) \in Nat
             /\ DOMAIN call'[s].ans = 1 .. Len(call'[s].ans)
             /\ \A k \in DOMAIN call'[s].ans : m + k \in DOMAIN table /\ call'[s].ans[k] = ServerPost(table[m + k])
             /\ \A t \in Slots : t # s => call'[t] = call[t]
    BY <1>1, FeedEffect
  <1>3. call[s].op \in {"fetch", "more"} /\ (call[s].op = "fetch" => call[s].page = 1) /\ call[s].page \in Nat \ {0}
    BY <1>2 DEF LoadCall
  <1>4. /\ UNCHANGED <<table, myLikes, others, unborn, heap, posts, page, hasMore, overlap, excused>>
        /\ shifted' = (shifted /\ call[s].op = "more")
    BY DEF ServeFeed, server, pageState, paging
  <1>5. Loads = {s} /\ Loads' = {s}
    <2>1. s \in Loads
      BY <1>3 DEF Loads, Running
    <2>2. Loads = {s}
      BY <2>1 DEF CauseInv, MarksInv, OneLoad
    <2> QED
      BY <1>2, <2>2 DEF Loads, Running
  <1>6. \A i : /\ LikesOf(i)' = LikesOf(i) /\ DeletesOf(i)' = DeletesOf(i) /\ CreatesOf(i)' = CreatesOf(i)
               /\ \A t \in LikesOf(i) \cup DeletesOf(i) : call'[t] = call[t]
               /\ Places(i)' = Places(i)
    BY <1>2, <1>3, <1>4 DEF LikesOf, DeletesOf, CreatesOf, Running, Places
  <1>7. ~FetchServed /\ (call[s].op = "fetch" => FetchServed') /\ (call[s].op = "more" => ~FetchServed')
    BY <1>2, <1>5 DEF FetchServed, Loads, Running
  <1>8. \A k \in DOMAIN call'[s].ans : call'[s].ans[k].id = table[m + k] /\ table[m + k] \in Ids
    <2>1. \A i : ServerPost(i).id = i
      BY DEF ServerPost, PostWith
    <2>2. \A q \in DOMAIN table : table[q] \in Ids
      BY <1>1 DEF ServerType
    <2> QED
      BY <1>2, <2>1, <2>2
  <1>9. \A k \in DOMAIN call'[s].ans : \A q \in DOMAIN table : table[q] = call'[s].ans[k].id => q = m + k
    <2>1. \A q, r \in DOMAIN table : table[q] = table[r] => q = r
      BY <1>1 DEF ServerType, IsInjective
    <2> QED
      BY <1>2, <1>8, <2>1
  <1>10. Born'
    <2>1. \A k \in DOMAIN call'[s].ans : call'[s].ans[k].id \notin unborn
      <3>1. \A q \in DOMAIN table : table[q] \notin unborn
        BY <1>1 DEF ServerType, Range
      <3> QED
        BY <1>2, <1>8, <3>1
    <2> QED
      BY <1>4, <1>5, <1>6, <2>1 DEF CauseInv, Born
  <1>11. LoadGuards'
    BY <1>2, <1>4, <1>5, <1>6 DEF CauseInv, LoadGuards
  <1>12. LoadAnswers'
    <2>1. \A j, k \in DOMAIN call'[s].ans : call'[s].ans[j].id = call'[s].ans[k].id => j = k
      BY <1>2, <1>8, <1>9
    <2>2. ASSUME Len(call'[s].ans) = PageSize, NEW k \in DOMAIN call'[s].ans, NEW q \in DOMAIN table,
                 table[q] = call'[s].ans[k].id
          PROVE  q <= call'[s].page * PageSize
      <3>1. q = m + k /\ k <= PageSize /\ k \in Nat /\ PageSize \in Nat
        BY <1>2, <1>9, <2>2, StoreAssumption
      <3>2. CASE call[s].op = "fetch"
        <4>1. m = 0
          BY <1>2, <1>3, <3>2
        <4> QED
          BY <1>2, <1>3, <3>1, <3>2, <4>1
      <3>3. CASE call[s].op = "more"
        <4>1. m = (call[s].page - 1) * PageSize
          BY <1>2, <3>3
        <4>2. call[s].page * PageSize = m + PageSize
          BY <1>3, <3>1, <4>1
        <4> QED
          BY <1>2, <3>1, <4>2
      <3> QED
        BY <1>3, <3>2, <3>3
    <2>3. \A k \in DOMAIN call'[s].ans : \A i \in Ids : call'[s].ans[k].id = i => i \in Range(table) /\ call'[s].ans[k] = ServerPost(i)
      BY <1>2, <1>8 DEF Range
    <2>4. \A i : ServerPost(i)' = ServerPost(i)
      BY <1>4 DEF ServerPost
    <2> QED
      BY <1>4, <1>5, <2>1, <2>2, <2>3, <2>4 DEF LoadAnswers
  <1>13. ASSUME NEW i \in Ids \ excused' PROVE Settled(i)'
    <2>1. Settled(i)
      BY <1>4 DEF CauseInv
    <2>2. Free(i) <=> Free(i)'
      BY <1>6 DEF Free
    <2>3. Once(i)' /\ Shown(i)'
      BY <1>4, <1>6, <2>1, StillShown DEF Settled
    <2>4. Made(i)'
      BY <1>3, <1>4, <1>6, <1>7, <2>1 DEF Settled, Made
    <2>5. Placed(i)'
      BY <1>3, <1>4, <1>7, <2>1, <2>2 DEF Settled, Placed
    <2>6. Coming(i)'
      <3> SUFFICES ASSUME call[s].op = "more", NEW k \in DOMAIN call'[s].ans, call'[s].ans[k].id = i, ~shifted'
                   PROVE  Free(i)' /\ i \in Range(table') /\ call'[s].ans[k] = ServerPost(i)'
        BY <1>2, <1>5 DEF Coming, Loads, Running
      <3>1. m + k \in DOMAIN table /\ table[m + k] = i /\ call'[s].ans[k] = ServerPost(i)
        BY <1>2, <1>8
      <3>2. hasMore /\ call[s].page = page + 1 /\ page \in Nat
        BY <1>1, <1>5 DEF CauseInv, LoadGuards, TypeInv, RestType
      <3>3. m = page * PageSize
        BY <1>2, <3>2
      <3>4. ~ (m + k <= m)
        BY <1>2
      <3>5. Free(i)
        BY <1>4, <1>7, <2>1, <3>1, <3>2, <3>3, <3>4 DEF Settled, Placed
      <3> QED
        BY <1>4, <2>2, <3>1, <3>5 DEF Range, ServerPost
    <2> QED
      BY <2>3, <2>4, <2>5, <2>6 DEF Settled
  <1> QED
    BY <1>1, <1>10, <1>11, <1>12, <1>13 DEF CauseInv

\* An answer from an outdated entry of the cache: its posts, which exist or
\* did, are overlapped from then on, and the pages count as shifted.
LEMMA CachedServed ==
    ASSUME CauseInv, TypeInv', MarksInv', NEW s \in Slots, ServeCached(s)
    PROVE  CauseInv'
  <1>1. TypeInv /\ HeapType /\ HeapType' /\ ServerType /\ ServerType'
    BY DEF CauseInv, TypeInv
  <1>2. call[s] \in LoadCall /\ call[s].st = "sent" /\ call[s].op \in {"fetch", "more"}
    BY <1>1, CallKinds DEF ServeCached, Pending, HeapType
  <1>3. PICK limit \in Nat : limit = Limit(s)
    BY StoreAssumption DEF Limit
  <1>4. PICK a \in OldPages(limit) : Answer(s, a) /\ overlap' = overlap \cup {a[k].id : k \in DOMAIN a}
    BY <1>3 DEF ServeCached
  <1>5. /\ \A k \in DOMAIN a : a[k].id \in Ids \ unborn
        /\ \A j, k \in DOMAIN a : a[j].id = a[k].id => j = k
    BY OldPageFacts
  <1>6. UNCHANGED <<table, myLikes, others, unborn, heap, posts, page, hasMore, excused>> /\ shifted'
    BY DEF ServeCached, server, pageState, paging
  <1>7. /\ call'[s].op = call[s].op /\ call'[s].page = call[s].page /\ call'[s].ans = a
        /\ \A t \in Slots : t # s => call'[t] = call[t]
    <2>1. call' = [call EXCEPT ![s].st = "ok", ![s].ans = a]
      BY <1>4 DEF Answer
    <2>2. call'[s] = [call[s] EXCEPT !.st = "ok", !.ans = a] /\ \A t \in Slots : t # s => call'[t] = call[t]
      BY <1>1, <2>1 DEF HeapType
    <2> QED
      BY <1>2, <2>2 DEF LoadCall
  <1>8. Loads = {s} /\ Loads' = {s}
    <2>1. s \in Loads
      BY <1>2 DEF Loads, Running
    <2>2. Loads = {s}
      BY <2>1 DEF CauseInv, MarksInv, OneLoad
    <2> QED
      BY <1>7, <2>2 DEF Loads, Running
  <1>9. \A i : /\ LikesOf(i)' = LikesOf(i) /\ DeletesOf(i)' = DeletesOf(i) /\ CreatesOf(i)' = CreatesOf(i)
               /\ \A t \in LikesOf(i) \cup DeletesOf(i) : call'[t] = call[t]
               /\ Places(i)' = Places(i)
    BY <1>2, <1>6, <1>7 DEF LikesOf, DeletesOf, CreatesOf, Running, Places
  <1>10. Born'
    BY <1>5, <1>6, <1>7, <1>8, <1>9 DEF CauseInv, Born
  <1>11. LoadGuards'
    BY <1>4, <1>6, <1>7, <1>8, <1>9 DEF CauseInv, LoadGuards
  <1>12. LoadAnswers'
    <2>1. \A k \in DOMAIN a : a[k].id \in overlap'
      BY <1>4
    <2> QED
      BY <1>5, <1>6, <1>7, <1>8, <2>1 DEF LoadAnswers
  <1>13. ASSUME NEW i \in Ids \ excused' PROVE Settled(i)'
    <2>1. Settled(i)
      BY <1>6 DEF CauseInv
    <2>2. Once(i)' /\ Shown(i)'
      BY <1>6, <1>9, <2>1, StillShown DEF Settled
    <2>3. Made(i)' /\ Placed(i)' /\ Coming(i)'
      BY <1>6 DEF Made, Placed, Coming
    <2> QED
      BY <2>2, <2>3 DEF Settled
  <1> QED
    BY <1>1, <1>10, <1>11, <1>12, <1>13 DEF CauseInv

\* The page has nothing of a post that does not exist yet.
LEMMA UnbornFree ==
    ASSUME TypeInv, Born, NEW i \in unborn
    PROVE  Free(i) /\ Kept(i) = {} /\ CreatesOf(i) = {}
  <1>1. HeapType
    BY DEF TypeInv
  <1>2. Places(i) = {}
    BY <1>1 DEF Places, HeapType, Born
  <1>3. LikesOf(i) = {} /\ DeletesOf(i) = {}
    BY <1>1 DEF LikesOf, DeletesOf, Running, HeapType, Refers, Born
  <1>4. Kept(i) = {}
    BY <1>2, <1>3 DEF Kept
  <1> QED
    BY <1>2, <1>3, <1>4 DEF Free, Born

LEMMA CreateServed ==
    ASSUME CauseInv, TypeInv', MarksInv', NEW s \in Slots, ServeCreate(s)
    PROVE  CauseInv'
  <1>1. TypeInv /\ HeapType /\ HeapType' /\ ServerType /\ ServerType'
    BY DEF CauseInv, TypeInv
  <1>2. call[s] \in CreateCall /\ call[s].op = "create" /\ call[s].st = "sent"
    BY <1>1, CallKinds DEF ServeCreate, Pending, HeapType
  <1>3. PICK i0 \in unborn : 
          \E j \in {i0, NoId} : /\ Insert(i0) /\ Answer(s, <<NewPost(j)>>)
                               /\ overlap' = IF Loads # {} THEN overlap \cup {i0} ELSE overlap
    BY DEF ServeCreate, Overlapping
  <1>3a. PICK j0 \in {i0, NoId} : Answer(s, <<NewPost(j0)>>)
    BY <1>3
  <1>4. /\ UNCHANGED <<myLikes, others, heap, posts, page, hasMore, excused>> /\ shifted'
        /\ unborn' = unborn \ {i0} /\ table' = <<i0>> \o table
    BY <1>3 DEF ServeCreate, Insert, pageState, paging
  <1>5. /\ call'[s].op = "create" /\ call'[s].st = "ok" /\ call'[s].ans = <<NewPost(j0)>>
        /\ \A t \in Slots : t # s => call'[t] = call[t]
    <2>1. PICK a : a = <<NewPost(j0)>>
      OBVIOUS
    <2>2. call' = [call EXCEPT ![s].st = "ok", ![s].ans = a]
      BY <1>3a, <2>1 DEF Answer
    <2>3. call'[s] = [call[s] EXCEPT !.st = "ok", !.ans = a] /\ \A t \in Slots : t # s => call'[t] = call[t]
      BY <1>1, <2>2 DEF HeapType
    <2>4. call'[s].op = "create" /\ call'[s].st = "ok" /\ call'[s].ans = a
      BY <1>2, <2>3 DEF CreateCall
    <2> QED
      BY <2>1, <2>3, <2>4
  <1>6. Range(table') = Range(table) \cup {i0} /\ i0 \in Ids /\ i0 \notin Range(table) /\ i0 \notin myLikes
    BY <1>1, <1>4, TableCreate DEF ServerType
  <1>7. Free(i0) /\ Kept(i0) = {} /\ CreatesOf(i0) = {} /\ others[i0] = 0
    BY <1>1, UnbornFree DEF CauseInv, Born
  <1>8. \A i \in Ids : i # i0 => <<NewPost(i)>> # <<NewPost(j0)>>
    BY StoreAssumption DEF NewPost, PostWith
  <1>9. \A i : /\ LikesOf(i)' = LikesOf(i) /\ DeletesOf(i)' = DeletesOf(i)
               /\ \A t \in LikesOf(i) \cup DeletesOf(i) : call'[t] = call[t]
               /\ Places(i)' = Places(i)
    BY <1>2, <1>4, <1>5 DEF LikesOf, DeletesOf, Running, Places
  <1>10. CreatesOf(i0)' \subseteq {s} /\ \A i \in Ids : i # i0 => CreatesOf(i)' = CreatesOf(i)
    <2>1. \A i \in Ids : i # i0 => CreatesOf(i)' = CreatesOf(i)
      BY <1>2, <1>5, <1>8 DEF CreatesOf, Running
    <2>2. CreatesOf(i0)' \subseteq CreatesOf(i0) \cup {s}
      BY <1>5 DEF CreatesOf, Running
    <2> QED
      BY <1>7, <2>1, <2>2
  <1>11. Loads' = Loads /\ \A t \in Loads : call'[t] = call[t]
    BY <1>2, <1>5 DEF Loads, Running
  <1>12. Born'
    <2>1. unborn \subseteq Ids
      BY <1>1 DEF ServerType
    <2> QED
      BY <1>4, <1>10, <1>11, <2>1 DEF CauseInv, Born
  <1>13. LoadGuards' /\ LoadAnswers'
    <2>1. Loads # {} => \A i \in Ids : LikesOf(i)' # {} \/ DeletesOf(i)' # {} \/ CreatesOf(i)' # {} => i \in overlap'
      BY <1>3, <1>9, <1>10 DEF CauseInv, LoadGuards
    <2>2. \A i \in Ids \ overlap' : i \notin overlap
      BY <1>3
    <2> QED
      BY <1>1, <1>4, <1>6, <1>11, <2>1, <2>2, StillLoads DEF CauseInv
  <1>14. ASSUME NEW i \in Ids \ excused' PROVE Settled(i)'
    <2>1. Settled(i)
      BY <1>4 DEF CauseInv
    <2>2. Once(i)' /\ Shown(i)'
      <3>1. CASE i # i0
        BY <1>4, <1>6, <1>9, <1>10, <2>1, <3>1, StillShown DEF Settled
      <3>2. CASE i = i0
        <4>1. Free(i)'
          BY <1>7, <1>9, <3>2 DEF Free
        <4>2. Kept(i)' = {}
          BY <4>1 DEF Kept, Free
        <4>3. Once(i)'
          BY <1>4, <1>6, <1>7, <1>10, <3>2, <4>1 DEF Once, Free
        <4>4. Shown(i)'
          BY <4>1, <4>2 DEF Shown, Free
        <4> QED
          BY <4>3, <4>4
      <3> QED
        BY <3>1, <3>2
    <2>3. Made(i)' /\ Placed(i)' /\ Coming(i)'
      BY <1>4 DEF Made, Placed, Coming
    <2> QED
      BY <2>2, <2>3 DEF Settled
  <1> QED
    BY <1>1, <1>12, <1>13, <1>14 DEF CauseInv

LEMMA DeleteServed ==
    ASSUME CauseInv, TypeInv', MarksInv', NEW s \in Slots, ServeDelete(s)
    PROVE  CauseInv'
  <1>1. TypeInv /\ HeapType /\ HeapType' /\ ServerType /\ ServerType'
    BY DEF CauseInv, TypeInv
  <1>2. call[s] \in DeleteCall /\ call[s].op = "delete" /\ call[s].st = "sent"
    BY <1>1, CallKinds DEF ServeDelete, Pending, HeapType
  <1>3. PICK k \in DOMAIN table : table[k] = call[s].id /\ table' = RemoveAt(table, k)
    BY DEF ServeDelete, Delete
  <1>4. PICK i0 \in Ids : i0 = call[s].id /\ i0 = table[k]
    BY <1>1, <1>3 DEF ServerType
  <1>5. /\ UNCHANGED <<others, unborn, heap, posts, page, hasMore, overlap, shifted, excused>>
        /\ myLikes' = myLikes \ {i0}
    BY <1>4 DEF ServeDelete, Delete, Cascade, pageState, paging, history
  <1>6. /\ call'[s].op = "delete" /\ call'[s].st = "ok" /\ call'[s].id = i0 /\ call'[s].obj = call[s].obj
        /\ \A t \in Slots : t # s => call'[t] = call[t]
    <2>1. call' = [call EXCEPT ![s].st = "ok", ![s].ans = << >>]
      BY DEF ServeDelete, Answer
    <2>2. call'[s] = [call[s] EXCEPT !.st = "ok", !.ans = << >>] /\ \A t \in Slots : t # s => call'[t] = call[t]
      BY <1>1, <2>1 DEF HeapType
    <2> QED
      BY <1>2, <1>4, <2>2 DEF DeleteCall
  <1>7. /\ Range(table') = Range(table) \ {i0}
        /\ \A q \in DOMAIN table' : \E r \in DOMAIN table : q <= r /\ table'[q] = table[r]
    BY <1>1, <1>4, <1>3, TableDelete
  <1>8. \A i : /\ LikesOf(i)' = LikesOf(i) /\ DeletesOf(i)' = DeletesOf(i) /\ CreatesOf(i)' = CreatesOf(i)
               /\ Places(i)' = Places(i)
    <2>1. \A i : Places(i)' = Places(i)
      BY <1>5 DEF Places
    <2>2. \A i : LikesOf(i)' = LikesOf(i) /\ CreatesOf(i)' = CreatesOf(i)
      BY <1>2, <1>6 DEF LikesOf, CreatesOf, Running
    <2>3. \A t \in Slots : call'[t].op = call[t].op /\ (call[t].op = "delete" => call'[t].id = call[t].id)
      BY <1>2, <1>4, <1>6
    <2>4. \A i : DeletesOf(i)' = DeletesOf(i)
      BY <2>3 DEF DeletesOf, Running
    <2> QED
      BY <2>1, <2>2, <2>4
  <1>9. s \in DeletesOf(i0) /\ \A i : \A t \in LikesOf(i) \cup DeletesOf(i) : i # i0 => call'[t] = call[t]
    BY <1>2, <1>4, <1>6 DEF LikesOf, DeletesOf, Running
  <1>10. /\ Loads' = Loads /\ \A t \in Loads : call'[t] = call[t]
         /\ Running({"more"})' = Running({"more"}) /\ Running({"more"}) \subseteq Loads
    BY <1>2, <1>6 DEF Loads, Running
  <1>11. FetchServed' <=> FetchServed
    BY <1>2, <1>6 DEF FetchServed, Running
  <1>12. Born'
    BY <1>5, <1>8, <1>10 DEF CauseInv, Born
  <1>13. LoadGuards' /\ LoadAnswers'
    <2>1. Loads # {} => i0 \in overlap
      BY <1>9 DEF CauseInv, LoadGuards
    <2>2. Loads # {} => \A i \in Ids : LikesOf(i)' # {} \/ DeletesOf(i)' # {} \/ CreatesOf(i)' # {} => i \in overlap'
      BY <1>5, <1>8 DEF CauseInv, LoadGuards
    <2> QED
      BY <1>1, <1>5, <1>7, <1>10, <2>1, <2>2, StillLoads DEF CauseInv
  <1>14. ASSUME NEW i \in Ids \ excused' PROVE Settled(i)'
    <2>1. Settled(i)
      BY <1>5 DEF CauseInv
    <2>2. Free(i) <=> Free(i)'
      BY <1>8 DEF Free
    <2>3. Once(i)' /\ Shown(i)'
      <3>1. CASE i # i0
        BY <1>5, <1>7, <1>8, <1>9, <2>1, <3>1, StillShown DEF Settled
      <3>2. CASE i = i0
        <4>1. DeletesOf(i) = {s} /\ Places(i) = {} /\ CreatesOf(i) = {}
          BY <1>9, <2>1, <3>2 DEF Settled, Once, Free
        <4>2. Kept(i)' = {}
          BY <1>6, <1>8, <4>1 DEF Kept
        <4>3. Once(i)'
          BY <1>8, <4>1 DEF Once
        <4>4. Shown(i)'
          BY <1>7, <3>2, <4>2 DEF Shown
        <4> QED
          BY <4>3, <4>4
      <3> QED
        BY <3>1, <3>2
    <2>4. Made(i)'
      BY <1>5, <1>8, <1>11, <2>1 DEF Settled, Made
    <2>5. Placed(i)'
      <3>1. page \in Nat
        BY <1>1 DEF TypeInv, RestType
      <3>2. table \in Seq(Ids) /\ table' \in Seq(Ids)
        BY <1>1 DEF ServerType
      <3>3. DOMAIN table \subseteq Nat /\ DOMAIN table' \subseteq Nat
        BY <3>2
      <3> QED
        BY <1>5, <1>7, <1>11, <2>1, <2>2, <3>1, <3>3, StillPlaced DEF Settled
    <2>6. Coming(i)'
      <3>1. Free(i) => i # i0
        BY <1>9 DEF Free
      <3> QED
        BY <1>5, <1>7, <1>10, <2>1, <2>2, <3>1, StillComing DEF Settled
    <2> QED
      BY <2>3, <2>4, <2>5, <2>6 DEF Settled
  <1> QED
    BY <1>1, <1>12, <1>13, <1>14 DEF CauseInv

LEMMA LikeServed ==
    ASSUME CauseInv, TypeInv', MarksInv', NEW s \in Slots, ServeLike(s)
    PROVE  CauseInv'
  <1>1. TypeInv /\ HeapType /\ HeapType' /\ ServerType /\ ServerType'
    BY DEF CauseInv, TypeInv
  <1>2. call[s] \in LikeCall /\ call[s].op = "like" /\ call[s].st = "sent"
    BY <1>1, CallKinds DEF ServeLike, Pending, HeapType
  <1>3. PICK i0 \in Ids : i0 = call[s].id
    BY <1>1 DEF ServeLike, Toggle, Contains, ServerType
  <1>4. /\ UNCHANGED <<table, others, unborn, heap, posts, page, hasMore, overlap, shifted, excused>>
        /\ myLikes' = IF i0 \in myLikes THEN myLikes \ {i0} ELSE myLikes \cup {i0}
        /\ Answer(s, PostWith(i0, i0 \notin myLikes, others[i0]))
    BY <1>3 DEF ServeLike, Toggle, pageState, paging, history
  <1>5. (i0 \in myLikes' <=> i0 \notin myLikes) /\ \A i : i # i0 => (i \in myLikes' <=> i \in myLikes)
    BY <1>4
  <1>6. PICK a : a = PostWith(i0, i0 \notin myLikes, others[i0])
    OBVIOUS
  <1>7. a = ServerPost(i0)'
    BY <1>4, <1>5, <1>6 DEF ServerPost, PostWith
  <1>8. /\ call'[s].op = "like" /\ call'[s].st = "ok" /\ call'[s].id = i0 /\ call'[s].obj = call[s].obj
        /\ call'[s].prev = call[s].prev /\ call'[s].ans = a
        /\ \A t \in Slots : t # s => call'[t] = call[t]
    <2>1. call' = [call EXCEPT ![s].st = "ok", ![s].ans = a]
      BY <1>4, <1>6 DEF Answer
    <2>2. call'[s] = [call[s] EXCEPT !.st = "ok", !.ans = a] /\ \A t \in Slots : t # s => call'[t] = call[t]
      BY <1>1, <2>1 DEF HeapType
    <2> QED
      BY <1>2, <1>3, <2>2 DEF LikeCall
  <1>9. \A i : /\ LikesOf(i)' = LikesOf(i) /\ DeletesOf(i)' = DeletesOf(i) /\ CreatesOf(i)' = CreatesOf(i)
               /\ Places(i)' = Places(i)
    <2>1. \A i : Places(i)' = Places(i)
      BY <1>4 DEF Places
    <2>2. \A i : DeletesOf(i)' = DeletesOf(i) /\ CreatesOf(i)' = CreatesOf(i)
      BY <1>2, <1>8 DEF DeletesOf, CreatesOf, Running
    <2>3. \A t \in Slots : call'[t].op = call[t].op /\ (call[t].op = "like" => call'[t].id = call[t].id)
      BY <1>2, <1>3, <1>8
    <2>4. \A i : LikesOf(i)' = LikesOf(i)
      BY <2>3 DEF LikesOf, Running
    <2> QED
      BY <2>1, <2>2, <2>4
  <1>10. /\ s \in LikesOf(i0) /\ \A i : \A t \in LikesOf(i) \cup DeletesOf(i) : i # i0 => call'[t] = call[t]
         /\ \A i : \A t \in DeletesOf(i) : call'[t] = call[t]
    BY <1>2, <1>3, <1>8 DEF LikesOf, DeletesOf, Running
  <1>11. LikesOf(i0) = {s}
    <2>1. \A t \in LikesOf(i0) : t = s
      BY <1>10 DEF CauseInv, MarksInv, OneLike, LikesOf
    <2> QED
      BY <1>10, <2>1
  <1>12. /\ Loads' = Loads /\ \A t \in Loads : call'[t] = call[t]
         /\ Running({"more"})' = Running({"more"}) /\ Running({"more"}) \subseteq Loads
    BY <1>2, <1>8 DEF Loads, Running
  <1>13. FetchServed' <=> FetchServed
    BY <1>2, <1>8 DEF FetchServed, Running
  <1>14. Born'
    BY <1>4, <1>9, <1>12 DEF CauseInv, Born
  <1>15. LoadGuards' /\ LoadAnswers'
    <2>1. Loads # {} => i0 \in overlap
      BY <1>10 DEF CauseInv, LoadGuards
    <2>2. Loads # {} => \A i \in Ids : LikesOf(i)' # {} \/ DeletesOf(i)' # {} \/ CreatesOf(i)' # {} => i \in overlap'
      BY <1>4, <1>9 DEF CauseInv, LoadGuards
    <2>3. \A q \in DOMAIN table : \E r \in DOMAIN table : q <= r /\ table[q] = table[r]
      BY <1>1 DEF ServerType
    <2> QED
      BY <1>1, <1>4, <1>5, <1>12, <2>1, <2>2, <2>3, StillLoads DEF CauseInv
  <1>16. ASSUME NEW i \in Ids \ excused' PROVE Settled(i)'
    <2>1. Settled(i)
      BY <1>4 DEF CauseInv
    <2>2. Free(i) <=> Free(i)'
      BY <1>9 DEF Free
    <2>3. Once(i)' /\ Shown(i)'
      <3>1. CASE i # i0
        BY <1>4, <1>5, <1>9, <1>10, <2>1, <3>1, StillShown DEF Settled
      <3>2. CASE i = i0
        <4>1. CreatesOf(i) = {}
          BY <1>11, <2>1, <3>2 DEF Settled, Once, Free
        <4>2. Kept(i)' = Kept(i)
          BY <1>4, <1>9, <1>10 DEF Kept
        <4>3. Once(i)'
          BY <1>9, <2>1, <4>1 DEF Settled, Once
        <4>4. Shown(i)'
          BY <1>4, <1>7, <1>8, <1>9, <1>11, <2>1, <3>2, <4>2 DEF Settled, Shown
        <4> QED
          BY <4>3, <4>4
      <3> QED
        BY <3>1, <3>2
    <2>4. Made(i)'
      BY <1>4, <1>9, <1>13, <2>1 DEF Settled, Made
    <2>5. Placed(i)'
      BY <1>4, <1>13, <2>1, <2>2 DEF Settled, Placed
    <2>6. Coming(i)'
      <3>1. Free(i) => i # i0
        BY <1>10 DEF Free
      <3> QED
        BY <1>4, <1>5, <1>12, <2>1, <2>2, <3>1, StillComing DEF Settled
    <2> QED
      BY <2>3, <2>4, <2>5, <2>6 DEF Settled
  <1> QED
    BY <1>1, <1>14, <1>15, <1>16 DEF CauseInv

\* A call that fails, or whose answer is lost, keeps its locals; the post of a
\* change whose answer is lost is excused from then on.
LEMMA CallFails ==
    ASSUME CauseInv, TypeInv', MarksInv', NEW s \in Slots, Fail(s) \/ LoseAnswer(s)
    PROVE  CauseInv'
  <1>1. TypeInv /\ HeapType /\ HeapType' /\ ServerType /\ ServerType'
    BY DEF CauseInv, TypeInv
  <1>2. UNCHANGED <<table, myLikes, others, unborn, heap, posts, page, hasMore, overlap, shifted>>
    BY DEF Fail, LoseAnswer, server, pageState, paging, history
  <1>3. /\ call[s] # Idle
        /\ call[s].st = "sent" \/ (call[s].st = "ok" /\ call[s].op \in {"create", "delete", "like"})
    BY DEF Fail, LoseAnswer, Idle
  <1>4. PICK st \in {"failed", "signedOut"} : call' = [call EXCEPT ![s].st = st]
    BY DEF Fail, LoseAnswer
  <1>5. call'[s] = [call[s] EXCEPT !.st = st] /\ \A t \in Slots : t # s => call'[t] = call[t]
    BY <1>1, <1>4 DEF HeapType
  <1>6. call[s] \in CallType /\ call[s].op \in {"fetch", "more", "create", "delete", "like"}
    BY <1>1, <1>3, CallKinds DEF HeapType
  <1>7. /\ call'[s].op = call[s].op /\ call'[s].ans = call[s].ans /\ call'[s].st # "ok"
        /\ call[s].op \in {"fetch", "more"} => call'[s].page = call[s].page
        /\ call[s].op \in {"like", "delete"} => call'[s].id = call[s].id /\ call'[s].obj = call[s].obj
        /\ call[s].op = "like" => call'[s].prev = call[s].prev
    <2>1. CASE call[s] \in LoadCall
      BY <1>5, <2>1 DEF LoadCall
    <2>2. CASE call[s] \in CreateCall
      BY <1>5, <2>2 DEF CreateCall
    <2>3. CASE call[s] \in DeleteCall
      BY <1>5, <2>3 DEF DeleteCall
    <2>4. CASE call[s] \in LikeCall
      BY <1>5, <2>4 DEF LikeCall
    <2> QED
      BY <1>6, <2>1, <2>2, <2>3, <2>4, CallKinds
  <1>8. \A i : /\ LikesOf(i)' = LikesOf(i) /\ DeletesOf(i)' = DeletesOf(i) /\ CreatesOf(i)' \subseteq CreatesOf(i)
               /\ Places(i)' = Places(i)
    <2>1. \A i : Places(i)' = Places(i)
      BY <1>2 DEF Places
    <2>2. \A i : CreatesOf(i)' \subseteq CreatesOf(i)
      BY <1>5, <1>7 DEF CreatesOf, Running
    <2>3. \A t \in Slots : call'[t].op = call[t].op /\ (call[t].op \in {"like", "delete"} => call'[t].id = call[t].id)
      BY <1>5, <1>7
    <2>4. \A i : LikesOf(i)' = LikesOf(i) /\ DeletesOf(i)' = DeletesOf(i)
      BY <2>3 DEF LikesOf, DeletesOf, Running
    <2> QED
      BY <2>1, <2>2, <2>4
  <1>9. /\ Loads' = Loads /\ Running({"more"})' = Running({"more"}) /\ Running({"more"}) \subseteq Loads
        /\ \A t \in Loads : call'[t].op = call[t].op /\ call'[t].page = call[t].page /\ call'[t].ans = call[t].ans
    BY <1>5, <1>7 DEF Loads, Running
  <1>10. FetchServed' <=> FetchServed
    <2>1. \A t \in Slots : call'[t].op = "fetch" /\ call'[t].st = "ok" <=> call[t].op = "fetch" /\ call[t].st = "ok"
      BY <1>3, <1>5, <1>7
    <2> QED
      BY <2>1 DEF FetchServed, Running
  <1>11. /\ excused \subseteq excused'
         /\ call[s].st = "ok" /\ call[s].op \in {"like", "delete"} => call[s].id \in excused'
    BY DEF Fail, LoseAnswer, history
  <1>12. Born'
    BY <1>2, <1>8, <1>9 DEF CauseInv, Born
  <1>13. LoadGuards' /\ LoadAnswers'
    <2>1. Loads # {} => \A i \in Ids : LikesOf(i)' # {} \/ DeletesOf(i)' # {} \/ CreatesOf(i)' # {} => i \in overlap'
      BY <1>2, <1>8 DEF CauseInv, LoadGuards
    <2>2. \A q \in DOMAIN table : \E r \in DOMAIN table : q <= r /\ table[q] = table[r]
      BY <1>1 DEF ServerType
    <2> QED
      BY <1>1, <1>2, <1>9, <2>1, <2>2, StillLoads DEF CauseInv
  <1>14. ASSUME NEW i \in Ids \ excused' PROVE Settled(i)'
    <2>1. Settled(i)
      BY <1>11 DEF CauseInv
    <2>2. Free(i) <=> Free(i)'
      BY <1>8 DEF Free
    <2>3. /\ \A t \in LikesOf(i) \cup DeletesOf(i) : call'[t].obj = call[t].obj /\ (call'[t].st = "ok" <=> call[t].st = "ok")
          /\ \A t \in LikesOf(i) : call'[t].ans = call[t].ans /\ call'[t].prev = call[t].prev
      BY <1>5, <1>7, <1>11 DEF LikesOf, DeletesOf, Running
    <2>4. Once(i)' /\ Shown(i)'
      BY <1>2, <1>8, <2>1, <2>3, StillShown DEF Settled
    <2>5. Made(i)'
      BY <1>2, <1>8, <1>10, <2>1 DEF Settled, Made
    <2>6. Placed(i)'
      BY <1>2, <1>10, <2>1, <2>2 DEF Settled, Placed
    <2>7. Coming(i)'
      BY <1>2, <1>9, <2>1, <2>2, StillComing DEF Settled
    <2> QED
      BY <2>4, <2>5, <2>6, <2>7 DEF Settled
  <1> QED
    BY <1>1, <1>12, <1>13, <1>14 DEF CauseInv

-----------------------------------------------------------------------------
\* What others do at the server leaves the page and its calls alone.
LEMMA PageStays ==
    ASSUME UNCHANGED <<pageState, call>>
    PROVE  /\ UNCHANGED <<heap, posts, page, hasMore, call>>
           /\ \A i : /\ LikesOf(i)' = LikesOf(i) /\ DeletesOf(i)' = DeletesOf(i) /\ CreatesOf(i)' = CreatesOf(i)
                     /\ Places(i)' = Places(i) /\ Kept(i)' = Kept(i) /\ (Free(i)' <=> Free(i))
           /\ Loads' = Loads /\ Running({"more"})' = Running({"more"}) /\ (FetchServed' <=> FetchServed)
  <1>1. UNCHANGED <<heap, posts, page, hasMore, call>>
    BY DEF pageState, paging
  <1>2. /\ \A i : LikesOf(i)' = LikesOf(i) /\ DeletesOf(i)' = DeletesOf(i) /\ CreatesOf(i)' = CreatesOf(i) /\ Places(i)' = Places(i)
        /\ Loads' = Loads /\ Running({"more"})' = Running({"more"}) /\ (FetchServed' <=> FetchServed)
    BY <1>1 DEF LikesOf, DeletesOf, CreatesOf, Places, Loads, Running, FetchServed
  <1>3. \A i : Kept(i)' = Kept(i) /\ (Free(i)' <=> Free(i))
    BY <1>1, <1>2 DEF Kept, Free
  <1> QED
    BY <1>1, <1>2, <1>3

\* The page has nothing of a post it does not hold.
LEMMA NotHeld ==
    ASSUME TypeInv, NEW i \in Ids, ~Holds(i)
    PROVE  /\ Free(i) /\ Kept(i) = {} /\ CreatesOf(i) = {}
           /\ \A s \in Running({"more"}) : \A k \in DOMAIN call[s].ans : call[s].ans[k].id # i
  <1>1. HeapType /\ \A o \in DOMAIN heap : heap[o].id # i
    BY DEF TypeInv, Holds
  <1>2. Places(i) = {}
    BY <1>1 DEF Places, HeapType
  <1>3. LikesOf(i) = {} /\ DeletesOf(i) = {}
    BY <1>1 DEF LikesOf, DeletesOf, Running, HeapType, Refers
  <1>4. Kept(i) = {}
    BY <1>2, <1>3 DEF Kept
  <1>5. \A s \in Running({"fetch", "more", "create"}) : \A k \in DOMAIN call[s].ans : call[s].ans[k].id # i
    BY DEF Holds
  <1>6. CreatesOf(i) = {}
    <2> SUFFICES ASSUME NEW s \in CreatesOf(i) PROVE FALSE
      OBVIOUS
    <2>1. s \in Running({"fetch", "more", "create"}) /\ call[s].ans = <<NewPost(i)>>
      BY DEF CreatesOf, Running
    <2>2. 1 \in DOMAIN call[s].ans /\ call[s].ans[1].id = i
      BY <2>1 DEF NewPost, PostWith
    <2> QED
      BY <1>5, <2>1, <2>2
  <1>7. Running({"more"}) \subseteq Running({"fetch", "more", "create"})
    BY DEF Running
  <1> QED
    BY <1>2, <1>3, <1>4, <1>5, <1>6, <1>7 DEF Free

\* Somebody else changes a post: unless the page has nothing of it, the post
\* is excused from then on.
LEMMA Disturbed ==
    ASSUME CauseInv, TypeInv', MarksInv', NEW i0 \in Ids \ unborn, Disturb(i0),
           UNCHANGED <<unborn, shifted>>, UNCHANGED <<pageState, call>>,
           \A i \in Ids : i # i0 => /\ i \in Range(table') <=> i \in Range(table)
                                    /\ i \in myLikes' <=> i \in myLikes
                                    /\ others'[i] = others[i],
           \A q \in DOMAIN table' : \E r \in DOMAIN table : q <= r /\ table'[q] = table[r]
    PROVE  CauseInv'
  <1>1. TypeInv /\ ServerType /\ ServerType'
    BY DEF CauseInv, TypeInv
  <1>2. /\ overlap' = IF Loads # {} THEN overlap \cup {i0} ELSE overlap
        /\ excused' = IF Holds(i0) THEN excused \cup {i0} ELSE excused
    BY DEF Disturb, Overlapping
  <1>3. /\ UNCHANGED <<heap, posts, page, hasMore, call>>
        /\ \A i : /\ LikesOf(i)' = LikesOf(i) /\ DeletesOf(i)' = DeletesOf(i) /\ CreatesOf(i)' = CreatesOf(i)
                  /\ Places(i)' = Places(i) /\ Kept(i)' = Kept(i) /\ (Free(i)' <=> Free(i))
        /\ Loads' = Loads /\ Running({"more"})' = Running({"more"}) /\ (FetchServed' <=> FetchServed)
    BY PageStays
  <1>4. Born'
    <2>1. unborn \subseteq Ids \ {i0}
      BY <1>1 DEF ServerType
    <2> QED
      BY <1>3, <2>1 DEF CauseInv, Born
  <1>5. LoadGuards' /\ LoadAnswers'
    <2>1. Loads # {} => \A i \in Ids : LikesOf(i)' # {} \/ DeletesOf(i)' # {} \/ CreatesOf(i)' # {} => i \in overlap'
      BY <1>2, <1>3 DEF CauseInv, LoadGuards
    <2>2. Loads # {} => \A i \in Ids \ overlap' : i \notin overlap /\ i # i0
      BY <1>2
    <2> QED
      BY <1>1, <1>3, <2>1, <2>2, StillLoads DEF CauseInv
  <1>6. ASSUME NEW i \in Ids \ excused', i # i0 PROVE Settled(i)'
    <2>1. Settled(i)
      BY <1>2, <1>6 DEF CauseInv
    <2>2. Once(i)' /\ Shown(i)'
      BY <1>3, <1>6, <2>1, StillShown DEF Settled
    <2>3. Made(i)'
      BY <1>3, <2>1 DEF Settled, Made
    <2>4. Placed(i)'
      <3>1. page \in Nat
        BY <1>1 DEF TypeInv, RestType
      <3>2. table \in Seq(Ids) /\ table' \in Seq(Ids)
        BY <1>1 DEF ServerType
      <3>3. DOMAIN table \subseteq Nat /\ DOMAIN table' \subseteq Nat
        BY <3>2
      <3> QED
        BY <1>3, <2>1, <3>1, <3>3, StillPlaced DEF Settled
    <2>5. Coming(i)'
      BY <1>3, <1>6, <2>1, StillComing DEF Settled
    <2> QED
      BY <2>2, <2>3, <2>4, <2>5 DEF Settled
  <1>7. ASSUME i0 \notin excused' PROVE Settled(i0)'
    <2>1. /\ Free(i0) /\ Kept(i0) = {} /\ CreatesOf(i0) = {}
          /\ \A s \in Running({"more"}) : \A k \in DOMAIN call[s].ans : call[s].ans[k].id # i0
      BY <1>1, <1>2, <1>7, NotHeld
    <2>2. /\ Free(i0)' /\ Places(i0)' = {} /\ LikesOf(i0)' = {} /\ DeletesOf(i0)' = {}
          /\ Kept(i0)' = {} /\ CreatesOf(i0)' = {}
      BY <1>3, <2>1 DEF Free
    <2>3. Once(i0)' /\ Shown(i0)' /\ Made(i0)' /\ Placed(i0)'
      BY <2>2 DEF Once, Shown, Made, Placed
    <2>4. Coming(i0)'
      BY <1>3, <2>1 DEF Coming
    <2> QED
      BY <2>3, <2>4 DEF Settled
  <1> QED
    BY <1>4, <1>5, <1>6, <1>7 DEF CauseInv

LEMMA OthersChange ==
    ASSUME CauseInv, TypeInv', MarksInv', UNCHANGED <<pageState, call>>,
           NEW i0 \in Ids, OtherUserLikes(i0) \/ OtherTabLikes(i0) \/ OtherDelete(i0)
    PROVE  CauseInv'
  <1>1. ServerType /\ table \in Seq(Ids)
    BY DEF CauseInv, TypeInv, ServerType
  <1>2. UNCHANGED <<unborn, shifted>> /\ Disturb(i0)
    BY DEF OtherUserLikes, OtherTabLikes, OtherDelete
  <1>3. \A i : Contains(table, i) => i \in Range(table)
    BY <1>1 DEF Contains, Range
  <1>4. \A q \in DOMAIN table : \E r \in DOMAIN table : q <= r /\ table[q] = table[r]
    BY <1>1
  <1>5. CASE OtherUserLikes(i0)
    <2>1. UNCHANGED <<table, myLikes>> /\ Contains(table, i0) /\ \E n : others' = [others EXCEPT ![i0] = n]
      BY <1>5 DEF OtherUserLikes
    <2>2. \A i \in Ids : i # i0 => others'[i] = others[i]
      BY <1>1, <2>1 DEF ServerType
    <2>3. i0 \in Ids \ unborn
      BY <1>1, <1>3, <2>1 DEF ServerType
    <2> QED
      BY <1>2, <1>4, <2>1, <2>2, <2>3, Disturbed
  <1>6. CASE OtherTabLikes(i0)
    <2>1. /\ UNCHANGED <<table, others>> /\ Contains(table, i0)
          /\ myLikes' = IF i0 \in myLikes THEN myLikes \ {i0} ELSE myLikes \cup {i0}
      BY <1>6 DEF OtherTabLikes, Toggle
    <2>2. \A i \in Ids : i # i0 => (i \in myLikes' <=> i \in myLikes)
      BY <2>1
    <2>3. i0 \in Ids \ unborn
      BY <1>1, <1>3, <2>1 DEF ServerType
    <2> QED
      BY <1>2, <1>4, <2>1, <2>2, <2>3, Disturbed
  <1>7. CASE OtherDelete(i0)
    <2>1. PICK k \in DOMAIN table : /\ table[k] = i0 /\ table' = RemoveAt(table, k)
                                    /\ myLikes' = myLikes \ {i0} /\ UNCHANGED others
      BY <1>7 DEF OtherDelete, Delete, Cascade
    <2>2. /\ Range(table') = Range(table) \ {i0}
          /\ \A q \in DOMAIN table' : \E r \in DOMAIN table : q <= r /\ table'[q] = table[r]
      BY <1>1, <2>1, TableDelete
    <2>3. i0 \in Ids \ unborn
      BY <1>1, <2>1 DEF ServerType, Range
    <2>4. \A i \in Ids : i # i0 => /\ i \in Range(table') <=> i \in Range(table)
                                   /\ i \in myLikes' <=> i \in myLikes
                                   /\ others'[i] = others[i]
      BY <2>1, <2>2
    <2> QED
      BY <1>2, <2>2, <2>3, <2>4, Disturbed
  <1> QED
    BY <1>5, <1>6, <1>7

\* Another page creates a post: this one has nothing of it, and the pages have
\* shifted.
LEMMA OthersCreate ==
    ASSUME CauseInv, TypeInv', MarksInv', UNCHANGED <<pageState, call>>, NEW i0 \in Ids, OtherCreate(i0)
    PROVE  CauseInv'
  <1>1. TypeInv /\ ServerType /\ ServerType'
    BY DEF CauseInv, TypeInv
  <1>2. /\ UNCHANGED <<myLikes, others, overlap, excused>> /\ shifted'
        /\ i0 \in unborn /\ unborn' = unborn \ {i0} /\ table' = <<i0>> \o table
    BY DEF OtherCreate, Insert
  <1>3. /\ UNCHANGED <<heap, posts, page, hasMore, call>>
        /\ \A i : /\ LikesOf(i)' = LikesOf(i) /\ DeletesOf(i)' = DeletesOf(i) /\ CreatesOf(i)' = CreatesOf(i)
                  /\ Places(i)' = Places(i) /\ Kept(i)' = Kept(i) /\ (Free(i)' <=> Free(i))
        /\ Loads' = Loads
    BY PageStays
  <1>4. Range(table') = Range(table) \cup {i0}
    BY <1>1, <1>2, TableCreate
  <1>5. Free(i0) /\ Kept(i0) = {} /\ CreatesOf(i0) = {}
    BY <1>1, <1>2, UnbornFree DEF CauseInv
  <1>6. Born'
    BY <1>2, <1>3 DEF CauseInv, Born
  <1>7. LoadGuards' /\ LoadAnswers'
    <2>1. Loads # {} => \A i \in Ids : LikesOf(i)' # {} \/ DeletesOf(i)' # {} \/ CreatesOf(i)' # {} => i \in overlap'
      BY <1>2, <1>3 DEF CauseInv, LoadGuards
    <2> QED
      BY <1>1, <1>2, <1>3, <1>4, <2>1, StillLoads DEF CauseInv
  <1>8. ASSUME NEW i \in Ids \ excused' PROVE Settled(i)'
    <2>1. Settled(i)
      BY <1>2 DEF CauseInv
    <2>2. CASE i # i0
      BY <1>2, <1>3, <1>4, <2>1, <2>2, StillShown DEF Settled, Made, Placed, Coming
    <2>3. CASE i = i0
      <3>1. /\ Places(i)' = {} /\ LikesOf(i)' = {} /\ DeletesOf(i)' = {}
            /\ Kept(i)' = {} /\ CreatesOf(i)' = {}
        BY <1>3, <1>5, <2>3 DEF Free
      <3> QED
        BY <1>2, <3>1 DEF Settled, Once, Shown, Made, Placed, Coming
    <2> QED
      BY <2>2, <2>3
  <1> QED
    BY <1>6, <1>7, <1>8 DEF CauseInv

-----------------------------------------------------------------------------
\* A call that has ended is about nothing.
LEMMA CallGone ==
    ASSUME NEW s \in Slots, call'[s].op = "idle", \A t \in Slots : t # s => call'[t] = call[t]
    PROVE  /\ \A i : /\ LikesOf(i)' = LikesOf(i) \ {s} /\ DeletesOf(i)' = DeletesOf(i) \ {s}
                     /\ CreatesOf(i)' = CreatesOf(i) \ {s}
           /\ Loads' = Loads \ {s} /\ Running({"more"})' = Running({"more"}) \ {s}
           /\ FetchServed' => FetchServed
           /\ FetchServed /\ call[s].op # "fetch" => FetchServed'
  <1>1. \A i : LikesOf(i)' = LikesOf(i) \ {s}
    BY DEF LikesOf, Running
  <1>2. \A i : DeletesOf(i)' = DeletesOf(i) \ {s}
    BY DEF DeletesOf, Running
  <1>3. \A i : CreatesOf(i)' = CreatesOf(i) \ {s}
    BY DEF CreatesOf, Running
  <1>4. Loads' = Loads \ {s} /\ Running({"more"})' = Running({"more"}) \ {s}
    BY DEF Loads, Running
  <1>5. (FetchServed' => FetchServed) /\ (FetchServed /\ call[s].op # "fetch" => FetchServed')
    BY DEF FetchServed, Running
  <1> QED
    BY <1>1, <1>2, <1>3, <1>4, <1>5

\* The page after a call has ended.
LEMMA EndPage ==
    ASSUME HeapType, NEW s \in Slots, NEW h, NEW ps \in Seq(DOMAIN h), DOMAIN heap \subseteq DOMAIN h,
           Page(h, ps, Done(s))
    PROVE  /\ posts' = ps /\ call'[s].op = "idle" /\ \A t \in Slots : t # s => call'[t] = call[t]
           /\ \A x \in DOMAIN heap' : x \in DOMAIN h /\ heap'[x] = h[x]
  <1>1. PICK cs : cs = Done(s)
    OBVIOUS
  <1>2. /\ cs[s].op = "idle" /\ \A t \in Slots : t # s => cs[t] = call[t]
        /\ \A t \in Slots : cs[t].op \in {"like", "delete"} => cs[t].obj \in DOMAIN h
    BY <1>1, DoneCalls
  <1>3. Page(h, ps, cs)
    BY <1>1
  <1>4. posts' = ps /\ call' = cs /\ \A x \in DOMAIN heap' : heap'[x] = h[x]
    BY <1>3, PageHeap
  <1>5. DOMAIN heap' \subseteq DOMAIN h
    BY <1>2, <1>3, PageKeeps
  <1> QED
    BY <1>2, <1>4, <1>5

\* What is listed or kept for a delete has its object.
LEMMA KeptObjects ==
    ASSUME HeapType, NEW i
    PROVE  Kept(i) \subseteq DOMAIN heap /\ \A o \in Kept(i) : heap[o].id = i
  BY DEF Kept, DeletesOf, Running, Places, HeapType, Refers

\* A load in flight while a call that is no load ends.
LEMMA LoadsStay ==
    ASSUME CauseInv, TypeInv', NEW s \in Slots, s \notin Loads, call'[s].op = "idle",
           \A t \in Slots : t # s => call'[t] = call[t],
           UNCHANGED <<table, myLikes, others, page, hasMore, overlap, shifted>>
    PROVE  LoadGuards' /\ LoadAnswers'
  <1>1. TypeInv /\ ServerType /\ ServerType'
    BY DEF CauseInv, TypeInv
  <1>2. Loads' = Loads /\ \A t \in Loads : call'[t] = call[t]
    BY CallGone DEF Loads, Running
  <1>3. \A i : LikesOf(i)' \subseteq LikesOf(i) /\ DeletesOf(i)' \subseteq DeletesOf(i) /\ CreatesOf(i)' \subseteq CreatesOf(i)
    BY CallGone
  <1>4. Loads # {} => \A i \in Ids : LikesOf(i)' # {} \/ DeletesOf(i)' # {} \/ CreatesOf(i)' # {} => i \in overlap'
    BY <1>3 DEF CauseInv, LoadGuards
  <1>5. \A q \in DOMAIN table : \E r \in DOMAIN table : q <= r /\ table[q] = table[r]
    BY <1>1 DEF ServerType
  <1> QED
    BY <1>1, <1>2, <1>4, <1>5, StillLoads DEF CauseInv

\* What removePost does when its call has ended: the list is the old one, or
\* has the object again at index k.
LEMMA RemoveEndEffect ==
    ASSUME TypeInv, NEW s \in Slots, EndRemove(s)
    PROVE  /\ call'[s].op = "idle" /\ \A t \in Slots : t # s => call'[t] = call[t]
           /\ \A x \in DOMAIN heap' : x \in DOMAIN heap /\ heap'[x] = heap[x]
           /\ call[s].st = "ok" => posts' = posts
           /\ call[s].st # "ok" =>
                \E k \in 1 .. Len(posts) + 1 :
                    /\ DOMAIN posts' = 1 .. Len(posts) + 1
                    /\ \A j \in 1 .. Len(posts) + 1 :
                         posts'[j] = IF j < k THEN posts[j] ELSE IF j = k THEN call[s].obj ELSE posts[j - 1]
  <1>1. HeapType /\ call[s] \in CallType
    BY DEF TypeInv, HeapType
  <1>2. call[s] \in DeleteCall /\ call[s].obj \in DOMAIN heap
    BY <1>1, CallKinds DEF EndRemove, Back, HeapType, Refers
  <1>3. posts \in Seq(DOMAIN heap)
    BY <1>1 DEF HeapType
  <1>4. CASE Ok(s)
    <2>1. Page(heap, posts, Done(s))
      BY <1>4 DEF EndRemove
    <2> QED
      BY <1>1, <1>3, <1>4, <2>1, EndPage DEF Ok
  <1>5. CASE ~Ok(s)
    <2>1. PICK k \in 1 .. Len(posts) + 1 : k = IF call[s].index <= Len(posts) THEN call[s].index ELSE Len(posts) + 1
      BY <1>2, <1>3 DEF DeleteCall
    <2>2. PICK ps : ps = InsertAt(posts, k, call[s].obj)
      OBVIOUS
    <2>3. /\ ps \in Seq(DOMAIN heap) /\ DOMAIN ps = 1 .. Len(posts) + 1
          /\ \A j \in 1 .. Len(posts) + 1 : ps[j] = IF j < k THEN posts[j] ELSE IF j = k THEN call[s].obj ELSE posts[j - 1]
      <3>1. PICK o \in DOMAIN heap : o = call[s].obj
        BY <1>2
      <3>2. /\ InsertAt(posts, k, o) \in Seq(DOMAIN heap) /\ DOMAIN InsertAt(posts, k, o) = 1 .. Len(posts) + 1
            /\ \A j \in 1 .. Len(posts) + 1 :
                 InsertAt(posts, k, o)[j] = IF j < k THEN posts[j] ELSE IF j = k THEN o ELSE posts[j - 1]
        <4>1. PICK D : D = DOMAIN heap
          OBVIOUS
        <4>2. posts \in Seq(D) /\ o \in D
          BY <1>3, <4>1
        <4>3. /\ InsertAt(posts, k, o) \in Seq(D) /\ DOMAIN InsertAt(posts, k, o) = 1 .. Len(posts) + 1
              /\ \A j \in 1 .. Len(posts) + 1 :
                   InsertAt(posts, k, o)[j] = IF j < k THEN posts[j] ELSE IF j = k THEN o ELSE posts[j - 1]
          BY <4>2, InsertAtSeq
        <4> QED
          BY <4>1, <4>3
      <3>3. ps = InsertAt(posts, k, o)
        BY <2>2, <3>1
      <3> QED
        BY <3>1, <3>2, <3>3
    <2>4. Page(heap, ps, Done(s))
      BY <1>5, <2>1, <2>2 DEF EndRemove, Relisted
    <2>5. /\ posts' = ps /\ call'[s].op = "idle" /\ \A t \in Slots : t # s => call'[t] = call[t]
          /\ \A x \in DOMAIN heap' : x \in DOMAIN heap /\ heap'[x] = heap[x]
      BY <1>1, <2>3, <2>4, EndPage
    <2> QED
      BY <1>5, <2>3, <2>5 DEF Ok
  <1> QED
    BY <1>4, <1>5

LEMMA RemoveEnds ==
    ASSUME CauseInv, TypeInv', MarksInv', NEW s \in Slots, EndRemove(s)
    PROVE  CauseInv'
  <1>1. TypeInv /\ HeapType /\ HeapType' /\ ServerType /\ ServerType'
    BY DEF CauseInv, TypeInv
  <1>2. call[s] \in DeleteCall /\ call[s].op = "delete" /\ call[s].obj \in DOMAIN heap /\ heap[call[s].obj].id = call[s].id
    BY <1>1, CallKinds DEF EndRemove, Back, HeapType, Refers
  <1>3. PICK i0 \in AnyId : i0 = call[s].id
    BY <1>2 DEF DeleteCall
  <1>4. UNCHANGED <<table, myLikes, others, unborn, page, hasMore, overlap, shifted, excused>>
    BY DEF EndRemove, server, paging, history
  <1>5. /\ call'[s].op = "idle" /\ \A t \in Slots : t # s => call'[t] = call[t]
        /\ \A x \in DOMAIN heap' : x \in DOMAIN heap /\ heap'[x] = heap[x]
        /\ call[s].st = "ok" => posts' = posts
        /\ call[s].st # "ok" =>
             \E k \in 1 .. Len(posts) + 1 :
                 /\ DOMAIN posts' = 1 .. Len(posts) + 1
                 /\ \A j \in 1 .. Len(posts) + 1 :
                      posts'[j] = IF j < k THEN posts[j] ELSE IF j = k THEN call[s].obj ELSE posts[j - 1]
    BY <1>1, RemoveEndEffect
  <1>6. /\ s \in DeletesOf(i0) /\ s \notin Loads /\ s \notin Running({"more"})
        /\ \A i : s \notin LikesOf(i) /\ s \notin CreatesOf(i) /\ (i # i0 => s \notin DeletesOf(i))
    BY <1>2, <1>3 DEF DeletesOf, LikesOf, CreatesOf, Loads, Running
  <1>7. /\ \A i : LikesOf(i)' = LikesOf(i) /\ CreatesOf(i)' = CreatesOf(i) /\ DeletesOf(i)' = DeletesOf(i) \ {s}
        /\ \A i : i # i0 => DeletesOf(i)' = DeletesOf(i)
        /\ Loads' = Loads /\ Running({"more"})' = Running({"more"}) /\ (FetchServed' <=> FetchServed)
    <2>1. \A i : LikesOf(i)' = LikesOf(i) \ {s} /\ CreatesOf(i)' = CreatesOf(i) \ {s} /\ DeletesOf(i)' = DeletesOf(i) \ {s}
      BY <1>5, CallGone
    <2>2. Loads' = Loads \ {s} /\ Running({"more"})' = Running({"more"}) \ {s}
      BY <1>5, CallGone
    <2>3. FetchServed' <=> FetchServed
      BY <1>2, <1>5, CallGone
    <2>4. \A i : LikesOf(i)' = LikesOf(i) /\ CreatesOf(i)' = CreatesOf(i)
      BY <1>6, <2>1
    <2>5. \A i : i # i0 => DeletesOf(i)' = DeletesOf(i)
      BY <1>6, <2>1
    <2>6. Loads' = Loads /\ Running({"more"})' = Running({"more"})
      BY <1>6, <2>2
    <2> QED
      BY <2>1, <2>3, <2>4, <2>5, <2>6
  <1>8. \A i : \A t \in LikesOf(i)' \cup DeletesOf(i)' : t # s /\ call'[t] = call[t]
    BY <1>5, <1>6, <1>7 DEF LikesOf, DeletesOf, Running
  <1>9. \A t \in Loads : call'[t] = call[t]
    BY <1>5, <1>6 DEF Loads, Running
  <1>10. LoadGuards' /\ LoadAnswers'
    BY <1>4, <1>5, <1>6, LoadsStay
  <1>11. Born'
    BY <1>4, <1>5, <1>7, <1>9 DEF CauseInv, Born
  <1>12. ASSUME NEW i
         PROVE  /\ i # i0 => /\ \A j \in Places(i)' : \E l \in Places(i) : posts'[j] = posts[l]
                             /\ (\A j, l \in Places(i) : j = l) => (\A j, l \in Places(i)' : j = l)
                /\ i = i0 /\ Places(i) = {} => /\ \A j \in Places(i)' : posts'[j] = call[s].obj /\ call[s].st # "ok"
                                               /\ \A j, l \in Places(i)' : j = l
    <2>1. \A x \in DOMAIN heap' : x \in DOMAIN heap => heap'[x].id = heap[x].id
      BY <1>5
    <2>2. CASE call[s].st = "ok"
      <3>1. Places(i)' = Places(i) /\ posts' = posts
        <4>1. posts' = posts
          BY <1>5, <2>2
        <4>2. \A j \in DOMAIN posts : posts[j] \in DOMAIN heap' /\ posts[j] \in DOMAIN heap
          BY <1>1, <4>1 DEF HeapType
        <4> QED
          BY <2>1, <4>1, <4>2 DEF Places
      <3> QED
        BY <3>1
    <2>3. CASE call[s].st # "ok"
      <3>1. PICK k \in 1 .. Len(posts) + 1 :
               /\ DOMAIN posts' = 1 .. Len(posts) + 1
               /\ \A j \in 1 .. Len(posts) + 1 :
                    posts'[j] = IF j < k THEN posts[j] ELSE IF j = k THEN call[s].obj ELSE posts[j - 1]
        BY <1>5, <2>3
      <3>2. DOMAIN posts = 1 .. Len(posts) /\ Len(posts) \in Nat
        BY <1>1 DEF HeapType
      <3>3. PICK m : m = [j \in DOMAIN posts' |-> IF j < k THEN j ELSE j - 1]
        OBVIOUS
      <3>4. /\ \A j \in DOMAIN posts' : j # k => m[j] \in DOMAIN posts /\ posts'[j] = posts[m[j]]
            /\ \A j, l \in DOMAIN posts' : j # k /\ l # k /\ m[j] = m[l] => j = l
            /\ posts'[k] = call[s].obj /\ k \in DOMAIN posts'
        BY <3>1, <3>2, <3>3
      <3>5. call[s].obj \in DOMAIN heap' /\ heap'[call[s].obj].id = i0
        BY <1>1, <1>2, <1>3, <1>5, <3>4 DEF HeapType
      <3>6. CASE i # i0
        <4>1. \A j \in Places(i)' : j # k /\ j \in DOMAIN posts'
          BY <3>4, <3>5, <3>6 DEF Places
        <4>2. /\ \A j \in Places(i)' : m[j] \in DOMAIN posts /\ posts'[j] = posts[m[j]]
              /\ \A j, l \in Places(i)' : m[j] = m[l] => j = l
          BY <3>4, <4>1
        <4>3. /\ \A j \in Places(i)' : m[j] \in Places(i) /\ posts'[j] = posts[m[j]]
              /\ (\A j, l \in Places(i) : j = l) => (\A j, l \in Places(i)' : j = l)
          BY <1>1, <2>1, <4>2, Moved
        <4> QED
          BY <3>6, <4>3
      <3>7. CASE i = i0 /\ Places(i) = {}
        <4>1. ASSUME NEW j \in Places(i)', j # k PROVE FALSE
          <5>1. j \in DOMAIN posts' /\ heap'[posts'[j]].id = i
            BY DEF Places
          <5>2. m[j] \in DOMAIN posts /\ posts'[j] = posts[m[j]] /\ posts'[j] \in DOMAIN heap'
            BY <1>1, <3>4, <4>1, <5>1 DEF HeapType
          <5>3. m[j] \in Places(i)
            BY <1>5, <5>1, <5>2 DEF Places
          <5> QED
            BY <3>7, <5>3
        <4> QED
          BY <2>3, <3>4, <3>7, <4>1
      <3> QED
        BY <3>6, <3>7
    <2> QED
      BY <2>2, <2>3
  <1>13. ASSUME NEW i \in Ids \ excused' PROVE Settled(i)'
    <2>1. Settled(i)
      BY <1>4 DEF CauseInv
    <2>2. Once(i)' /\ Shown(i)'
      <3>1. CASE i # i0
        <4>1. \A o \in Kept(i) : heap'[o] = heap[o] \/ o \notin Kept(i)'
          <5>1. Kept(i)' \subseteq DOMAIN heap'
            BY <1>1 DEF Kept, DeletesOf, Running, Places, HeapType, Refers
          <5> QED
            BY <1>5, <5>1
        <4>2. \A t \in LikesOf(i) \cup DeletesOf(i) : call'[t] = call[t]
          BY <1>7, <1>8, <3>1
        <4> QED
          BY <1>4, <1>7, <1>12, <2>1, <3>1, <4>1, <4>2, StillShown DEF Settled
      <3>2. CASE i = i0
        <4>1. Places(i) = {} /\ CreatesOf(i) = {} /\ \A t \in DeletesOf(i) : t = s
          BY <1>6, <2>1, <3>2 DEF Settled, Once, Free
        <4>2. DeletesOf(i)' = {}
          BY <1>7, <4>1
        <4>3. /\ \A j \in Places(i)' : posts'[j] = call[s].obj /\ call[s].st # "ok"
              /\ \A j, l \in Places(i)' : j = l
          BY <1>12, <3>2, <4>1
        <4>4. \A o \in Kept(i)' : o \in Kept(i) /\ heap'[o] = heap[o]
          <5> SUFFICES ASSUME NEW o \in Kept(i)' PROVE o \in Kept(i) /\ heap'[o] = heap[o]
            OBVIOUS
          <5>1. PICK j \in Places(i)' : o = posts'[j]
            BY <4>2 DEF Kept
          <5>2. o = call[s].obj /\ call[s].st # "ok"
            BY <4>3, <5>1
          <5>3. o \in DOMAIN heap'
            BY <1>1, <5>1 DEF Places, HeapType
          <5> QED
            BY <1>5, <1>6, <3>2, <5>2, <5>3 DEF Kept
        <4>5. Once(i)'
          BY <1>7, <4>1, <4>2, <4>3 DEF Once
        <4>6. ServerPost(i)' = ServerPost(i) /\ \A t \in LikesOf(i) : call'[t] = call[t]
          BY <1>4, <1>7, <1>8 DEF ServerPost
        <4>7. Shown(i)'
          BY <1>4, <1>7, <2>1, <4>4, <4>6 DEF Settled, Shown
        <4> QED
          BY <4>5, <4>7
      <3> QED
        BY <3>1, <3>2
    <2>3. Made(i)'
      BY <1>4, <1>7, <2>1 DEF Settled, Made
    <2>4. Free(i) => Free(i)'
      <3>1. Free(i) => i # i0
        BY <1>6 DEF Free
      <3> QED
        BY <1>7, <1>12, <3>1 DEF Free
    <2>5. Placed(i)'
      BY <1>4, <1>7, <2>1, <2>4 DEF Settled, Placed
    <2>6. Coming(i)'
      BY <1>4, <1>7, <1>9, <2>1, <2>4, StillComing DEF Settled, Loads, Running
    <2> QED
      BY <2>2, <2>3, <2>5, <2>6 DEF Settled
  <1> QED
    BY <1>1, <1>10, <1>11, <1>13 DEF CauseInv

\* What toggleLike does when its call has ended: the object found before gets
\* the answer, or what it showed before.
LEMMA LikeEndEffect ==
    ASSUME TypeInv, MarksInv, NEW s \in Slots, EndLike(s)
    PROVE  /\ call'[s].op = "idle" /\ \A t \in Slots : t # s => call'[t] = call[t]
           /\ posts' = posts
           /\ \A x \in DOMAIN heap' :
                /\ x \in DOMAIN heap /\ heap'[x].id = heap[x].id /\ (x # call[s].obj => heap'[x] = heap[x])
                /\ x = call[s].obj => heap'[x] = IF call[s].st = "ok" THEN call[s].ans ELSE call[s].prev
  <1>1. HeapType /\ call[s] \in CallType
    BY DEF TypeInv, HeapType
  <1>2. /\ call[s] \in LikeCall /\ call[s].op = "like"
        /\ call[s].obj \in DOMAIN heap /\ heap[call[s].obj].id = call[s].id
    BY <1>1, CallKinds DEF EndLike, Back, HeapType, Refers
  <1>3. Current(s)
    BY <1>2 DEF MarksInv, VersionsAgree, Running
  <1>4. PICK now : now = IF Ok(s) THEN call[s].ans ELSE call[s].prev
    OBVIOUS
  <1>5. now.id = call[s].id
    BY <1>2, <1>4 DEF LikeCall, Ok
  <1>6. PICK h : h = [heap EXCEPT ![call[s].obj] = now]
    OBVIOUS
  <1>7. /\ DOMAIN h = DOMAIN heap /\ posts \in Seq(DOMAIN h)
        /\ \A x \in DOMAIN h : h[x] = IF x = call[s].obj THEN now ELSE heap[x]
    BY <1>1, <1>2, <1>6 DEF HeapType
  <1>8. Page(h, posts, Done(s))
    BY <1>3, <1>4, <1>6 DEF EndLike, Rollback
  <1>9. /\ posts' = posts /\ call'[s].op = "idle" /\ \A t \in Slots : t # s => call'[t] = call[t]
        /\ \A x \in DOMAIN heap' : x \in DOMAIN h /\ heap'[x] = h[x]
    BY <1>1, <1>7, <1>8, EndPage
  <1> QED
    BY <1>2, <1>4, <1>5, <1>7, <1>9 DEF Ok

LEMMA LikeEnds ==
    ASSUME CauseInv, TypeInv', MarksInv', NEW s \in Slots, EndLike(s)
    PROVE  CauseInv'
  <1>1. TypeInv /\ HeapType /\ HeapType' /\ ServerType /\ ServerType' /\ MarksInv
    BY DEF CauseInv, TypeInv
  <1>2. call[s] \in LikeCall /\ call[s].op = "like" /\ call[s].obj \in DOMAIN heap /\ heap[call[s].obj].id = call[s].id
    BY <1>1, CallKinds DEF EndLike, Back, HeapType, Refers
  <1>3. PICK i0 \in AnyId : i0 = call[s].id
    BY <1>2 DEF LikeCall
  <1>4. UNCHANGED <<table, myLikes, others, unborn, page, hasMore, overlap, shifted, excused>>
    BY DEF EndLike, server, paging, history
  <1>5. /\ call'[s].op = "idle" /\ \A t \in Slots : t # s => call'[t] = call[t]
        /\ posts' = posts
        /\ \A x \in DOMAIN heap' :
             /\ x \in DOMAIN heap /\ heap'[x].id = heap[x].id /\ (x # call[s].obj => heap'[x] = heap[x])
             /\ x = call[s].obj => heap'[x] = IF call[s].st = "ok" THEN call[s].ans ELSE call[s].prev
    BY <1>1, LikeEndEffect
  <1>6. /\ s \in LikesOf(i0) /\ s \notin Loads /\ s \notin Running({"more"})
        /\ \A i : s \notin DeletesOf(i) /\ s \notin CreatesOf(i) /\ (i # i0 => s \notin LikesOf(i))
    BY <1>2, <1>3 DEF DeletesOf, LikesOf, CreatesOf, Loads, Running
  <1>7. LikesOf(i0) = {s}
    <2>1. \A t \in LikesOf(i0) : t = s
      BY <1>1, <1>6 DEF MarksInv, OneLike, LikesOf
    <2> QED
      BY <1>6, <2>1
  <1>8. /\ \A i : DeletesOf(i)' = DeletesOf(i) /\ CreatesOf(i)' = CreatesOf(i)
        /\ \A i : i # i0 => LikesOf(i)' = LikesOf(i)
        /\ LikesOf(i0)' = {}
        /\ Loads' = Loads /\ Running({"more"})' = Running({"more"}) /\ (FetchServed' <=> FetchServed)
    <2>1. \A i : LikesOf(i)' = LikesOf(i) \ {s} /\ CreatesOf(i)' = CreatesOf(i) \ {s} /\ DeletesOf(i)' = DeletesOf(i) \ {s}
      BY <1>5, CallGone
    <2>2. Loads' = Loads \ {s} /\ Running({"more"})' = Running({"more"}) \ {s}
      BY <1>5, CallGone
    <2>3. FetchServed' <=> FetchServed
      BY <1>2, <1>5, CallGone
    <2>4. \A i : DeletesOf(i)' = DeletesOf(i) /\ CreatesOf(i)' = CreatesOf(i)
      BY <1>6, <2>1
    <2>5. \A i : i # i0 => LikesOf(i)' = LikesOf(i)
      BY <1>6, <2>1
    <2>6. Loads' = Loads /\ Running({"more"})' = Running({"more"})
      BY <1>6, <2>2
    <2> QED
      BY <1>7, <2>1, <2>3, <2>4, <2>5, <2>6
  <1>9. \A i : \A t \in LikesOf(i)' \cup DeletesOf(i)' : t # s /\ call'[t] = call[t]
    BY <1>5, <1>6, <1>8 DEF LikesOf, DeletesOf, Running
  <1>10. \A t \in Loads : call'[t] = call[t]
    BY <1>5, <1>6 DEF Loads, Running
  <1>11. LoadGuards' /\ LoadAnswers'
    BY <1>4, <1>5, <1>6, LoadsStay
  <1>12. Born'
    BY <1>4, <1>5, <1>8, <1>10 DEF CauseInv, Born
  <1>13. \A i : Places(i)' = Places(i)
    <2>1. \A j \in DOMAIN posts : posts[j] \in DOMAIN heap' /\ posts[j] \in DOMAIN heap
      BY <1>1, <1>5 DEF HeapType
    <2> QED
      BY <1>5, <2>1 DEF Places
  <1>14. ASSUME NEW i \in Ids \ excused' PROVE Settled(i)'
    <2>1. Settled(i)
      BY <1>4 DEF CauseInv
    <2>2. Kept(i)' = Kept(i)
      BY <1>5, <1>8, <1>9, <1>13 DEF Kept
    <2>3. Kept(i) \subseteq DOMAIN heap' /\ \A o \in Kept(i) : heap[o].id = i
      <3>1. Kept(i)' \subseteq DOMAIN heap'
        BY <1>1 DEF Kept, DeletesOf, Running, Places, HeapType, Refers
      <3>2. \A o \in Kept(i) : heap[o].id = i
        BY <1>1, KeptObjects
      <3> QED
        BY <2>2, <3>1, <3>2
    <2>4. Once(i)' /\ Shown(i)'
      <3>1. CASE i # i0
        <4>1. \A o \in Kept(i) : heap'[o] = heap[o]
          BY <1>2, <1>3, <1>5, <2>3, <3>1
        <4>2. \A t \in LikesOf(i) \cup DeletesOf(i) : call'[t] = call[t]
          BY <1>8, <1>9, <3>1
        <4> QED
          BY <1>4, <1>5, <1>8, <1>13, <2>1, <3>1, <4>1, <4>2, StillShown DEF Settled
      <3>2. CASE i = i0
        <4>1. CreatesOf(i) = {}
          BY <1>7, <2>1, <3>2 DEF Settled, Once, Free
        <4>2. Once(i)'
          BY <1>8, <1>13, <2>1, <4>1 DEF Settled, Once
        <4>3. ServerPost(i)' = ServerPost(i)
          BY <1>4 DEF ServerPost
        <4>4. \A o \in Kept(i) : i \in Range(table) /\ call[s].obj = o /\ heap'[o] = ServerPost(i)
          BY <1>5, <1>7, <2>1, <2>3, <3>2 DEF Settled, Shown
        <4>5. Shown(i)'
          BY <1>4, <1>8, <2>2, <3>2, <4>3, <4>4 DEF Shown
        <4> QED
          BY <4>2, <4>5
      <3> QED
        BY <3>1, <3>2
    <2>5. Made(i)'
      BY <1>4, <1>8, <2>1 DEF Settled, Made
    <2>6. Free(i) => Free(i)'
      BY <1>8, <1>13 DEF Free
    <2>7. Placed(i)'
      BY <1>4, <1>8, <2>1, <2>6 DEF Settled, Placed
    <2>8. Coming(i)'
      BY <1>4, <1>8, <1>10, <2>1, <2>6, StillComing DEF Settled, Loads, Running
    <2> QED
      BY <2>4, <2>5, <2>7, <2>8 DEF Settled
  <1> QED
    BY <1>1, <1>11, <1>12, <1>14 DEF CauseInv

\* What criarPost does when its call has ended: the created post comes first,
\* as a new object.
LEMMA CreateEndEffect ==
    ASSUME TypeInv, NEW s \in Slots, EndCreate(s)
    PROVE  /\ call'[s].op = "idle" /\ \A t \in Slots : t # s => call'[t] = call[t]
           /\ call[s].st # "ok" => posts' = posts /\ \A x \in DOMAIN heap' : x \in DOMAIN heap /\ heap'[x] = heap[x]
           /\ call[s].st = "ok" =>
                \E o \in Objs \ DOMAIN heap, i \in AnyId :
                    /\ call[s].ans = <<NewPost(i)>>
                    /\ DOMAIN posts' = 1 .. Len(posts) + 1
                    /\ \A j \in 1 .. Len(posts) + 1 : posts'[j] = IF j = 1 THEN o ELSE posts[j - 1]
                    /\ \A x \in DOMAIN heap' : /\ x = o \/ x \in DOMAIN heap
                                               /\ heap'[x] = IF x = o THEN NewPost(i) ELSE heap[x]
  <1>1. HeapType /\ call[s] \in CallType /\ posts \in Seq(DOMAIN heap)
    BY DEF TypeInv, HeapType
  <1>2. call[s] \in CreateCall
    BY <1>1, CallKinds DEF EndCreate, Back
  <1>3. CASE ~Ok(s)
    <2>1. Page(heap, posts, Done(s))
      BY <1>3 DEF EndCreate
    <2> QED
      BY <1>1, <1>3, <2>1, EndPage DEF Ok
  <1>4. CASE Ok(s)
    <2>1. PICK i \in AnyId : call[s].ans = <<NewPost(i)>>
      BY <1>2, <1>4 DEF CreateCall, Ok
    <2>2. PICK a \in Seq(PostType) : a = call[s].ans
      BY <1>2 DEF CreateCall
    <2>3. Len(a) = 1 /\ a[1] = NewPost(i)
      BY <2>1, <2>2
    <2>4. PICK refs : refs = Fresh(1)
      OBVIOUS
    <2>5. Room(1) /\ Page(WithNew(refs, a), refs \o posts, Done(s))
      BY <1>4, <2>2, <2>4 DEF EndCreate
    <2>6. refs \in [1 .. 1 -> Objs \ DOMAIN heap] /\ IsInjective(refs)
      BY <2>4, <2>5, FreshRefs
    <2>7. PICK h : h = WithNew(refs, a)
      OBVIOUS
    <2>8. /\ DOMAIN h = DOMAIN heap \cup Range(refs) /\ \A x \in DOMAIN heap : h[x] = heap[x]
          /\ \A k \in 1 .. Len(a) : h[refs[k]] = a[k]
          /\ refs \in Seq(DOMAIN h) /\ Len(refs) = Len(a)
      <3>1. refs \in [1 .. Len(a) -> Objs \ DOMAIN heap]
        BY <2>3, <2>6
      <3>2. /\ DOMAIN WithNew(refs, a) = DOMAIN heap \cup Range(refs) /\ \A x \in DOMAIN heap : WithNew(refs, a)[x] = heap[x]
            /\ \A k \in 1 .. Len(a) : WithNew(refs, a)[refs[k]] = a[k]
            /\ refs \in Seq(DOMAIN WithNew(refs, a)) /\ Len(refs) = Len(a)
        BY <1>1, <2>6, <3>1, WithNewFacts
      <3> QED
        BY <2>7, <3>2
    <2>9. PICK o \in Objs \ DOMAIN heap : o = refs[1]
      BY <2>6
    <2>10. DOMAIN h = DOMAIN heap \cup {o} /\ h[o] = NewPost(i)
      <3>1. DOMAIN refs = {1}
        BY <2>6
      <3>2. Range(refs) = {o}
        BY <2>9, <3>1 DEF Range
      <3>3. h[o] = NewPost(i)
        <4>1. h[refs[1]] = a[1]
          <5>1. 1 \in 1 .. Len(a)
            BY <2>3
          <5> QED
            BY <2>8, <5>1
        <4> QED
          BY <2>3, <2>9, <4>1
      <3> QED
        BY <2>8, <3>2, <3>3
    <2>11. PICK ps : ps = refs \o posts
      OBVIOUS
    <2>12. /\ ps \in Seq(DOMAIN h) /\ DOMAIN ps = 1 .. Len(posts) + 1
           /\ \A j \in 1 .. Len(posts) + 1 : ps[j] = IF j = 1 THEN o ELSE posts[j - 1]
      <3>1. PICK D : D = DOMAIN h
        OBVIOUS
      <3>2. refs \in Seq(D) /\ posts \in Seq(D) /\ Len(refs) = 1
        BY <1>1, <2>3, <2>8, <3>1
      <3>3. /\ ps \in Seq(D) /\ DOMAIN ps = 1 .. Len(refs) + Len(posts)
            /\ \A j \in 1 .. Len(refs) + Len(posts) : ps[j] = IF j <= Len(refs) THEN refs[j] ELSE posts[j - Len(refs)]
        BY <2>11, <3>2, ConcatSeq
      <3>4. Len(posts) \in Nat
        BY <3>2
      <3> QED
        BY <2>9, <3>1, <3>2, <3>3, <3>4
    <2>13. Page(h, ps, Done(s))
      BY <2>5, <2>7, <2>11
    <2>14. /\ posts' = ps /\ call'[s].op = "idle" /\ \A t \in Slots : t # s => call'[t] = call[t]
           /\ \A x \in DOMAIN heap' : x \in DOMAIN h /\ heap'[x] = h[x]
      BY <1>1, <2>10, <2>12, <2>13, EndPage
    <2>15. \A x \in DOMAIN heap' : /\ x = o \/ x \in DOMAIN heap
                                   /\ heap'[x] = IF x = o THEN NewPost(i) ELSE heap[x]
      BY <2>8, <2>10, <2>14
    <2> QED
      BY <1>4, <2>1, <2>12, <2>14, <2>15 DEF Ok
  <1> QED
    BY <1>3, <1>4

\* A call that changes nothing when it ends: a create without an answer.
LEMMA CreateFailed ==
    ASSUME CauseInv, TypeInv', MarksInv', NEW s \in Slots, EndCreate(s), call[s].st # "ok"
    PROVE  CauseInv'
  <1>1. TypeInv /\ HeapType /\ HeapType' /\ ServerType /\ ServerType'
    BY DEF CauseInv, TypeInv
  <1>2. call[s].op = "create"
    BY DEF EndCreate, Back
  <1>3. UNCHANGED <<table, myLikes, others, unborn, page, hasMore, overlap, shifted, excused>>
    BY DEF EndCreate, server, paging, history
  <1>4. /\ call'[s].op = "idle" /\ \A t \in Slots : t # s => call'[t] = call[t]
        /\ posts' = posts /\ \A x \in DOMAIN heap' : x \in DOMAIN heap /\ heap'[x] = heap[x]
    BY <1>1, CreateEndEffect
  <1>5. /\ s \notin Loads /\ s \notin Running({"more"})
        /\ \A i : s \notin DeletesOf(i) /\ s \notin CreatesOf(i) /\ s \notin LikesOf(i)
    BY <1>2 DEF DeletesOf, LikesOf, CreatesOf, Loads, Running
  <1>6. /\ \A i : LikesOf(i)' = LikesOf(i) /\ DeletesOf(i)' = DeletesOf(i) /\ CreatesOf(i)' = CreatesOf(i)
        /\ Loads' = Loads /\ Running({"more"})' = Running({"more"}) /\ (FetchServed' <=> FetchServed)
    <2>1. \A i : LikesOf(i)' = LikesOf(i) \ {s} /\ CreatesOf(i)' = CreatesOf(i) \ {s} /\ DeletesOf(i)' = DeletesOf(i) \ {s}
      BY <1>4, CallGone
    <2>2. Loads' = Loads \ {s} /\ Running({"more"})' = Running({"more"}) \ {s}
      BY <1>4, CallGone
    <2>3. FetchServed' <=> FetchServed
      BY <1>2, <1>4, CallGone
    <2>4. \A i : LikesOf(i)' = LikesOf(i) /\ DeletesOf(i)' = DeletesOf(i) /\ CreatesOf(i)' = CreatesOf(i)
      BY <1>5, <2>1
    <2>5. Loads' = Loads /\ Running({"more"})' = Running({"more"})
      BY <1>5, <2>2
    <2> QED
      BY <2>3, <2>4, <2>5
  <1>7. /\ \A i : \A t \in LikesOf(i) \cup DeletesOf(i) : call'[t] = call[t]
        /\ \A t \in Loads : call'[t] = call[t]
    BY <1>4, <1>5 DEF LikesOf, DeletesOf, Loads, Running
  <1>8. LoadGuards' /\ LoadAnswers'
    BY <1>3, <1>4, <1>5, LoadsStay
  <1>9. Born'
    BY <1>3, <1>4, <1>6, <1>7 DEF CauseInv, Born
  <1>10. \A i : Places(i)' = Places(i)
    <2>1. \A j \in DOMAIN posts : posts[j] \in DOMAIN heap' /\ posts[j] \in DOMAIN heap
      BY <1>1, <1>4 DEF HeapType
    <2> QED
      BY <1>4, <2>1 DEF Places
  <1>11. ASSUME NEW i \in Ids \ excused' PROVE Settled(i)'
    <2>1. Settled(i)
      BY <1>3 DEF CauseInv
    <2>2. Free(i) <=> Free(i)'
      BY <1>6, <1>10 DEF Free
    <2>3. \A o \in Kept(i) : heap'[o] = heap[o] \/ o \notin Kept(i)'
      <3>1. Kept(i)' \subseteq DOMAIN heap'
        BY <1>1 DEF Kept, DeletesOf, Running, Places, HeapType, Refers
      <3> QED
        BY <1>4, <3>1
    <2>4. Once(i)' /\ Shown(i)'
      BY <1>3, <1>4, <1>6, <1>7, <1>10, <2>1, <2>3, StillShown DEF Settled
    <2>5. Made(i)'
      BY <1>3, <1>6, <2>1 DEF Settled, Made
    <2>6. Placed(i)'
      BY <1>3, <1>6, <2>1, <2>2 DEF Settled, Placed
    <2>7. Coming(i)'
      BY <1>3, <1>6, <1>7, <2>1, <2>2, StillComing DEF Settled, Loads, Running
    <2> QED
      BY <2>4, <2>5, <2>6, <2>7 DEF Settled
  <1> QED
    BY <1>1, <1>8, <1>9, <1>11 DEF CauseInv

\* The created post is listed: no page that is on its way brings it too, for
\* the pages have shifted, or a fetch replaces the list.
LEMMA CreateEnds ==
    ASSUME CauseInv, TypeInv', MarksInv', NEW s \in Slots, EndCreate(s), call[s].st = "ok"
    PROVE  CauseInv'
  <1>1. TypeInv /\ HeapType /\ HeapType' /\ ServerType /\ ServerType' /\ MarksInv
    BY DEF CauseInv, TypeInv
  <1>2. call[s].op = "create"
    BY DEF EndCreate, Back
  <1>3. UNCHANGED <<table, myLikes, others, unborn, page, hasMore, overlap, shifted, excused>>
    BY DEF EndCreate, server, paging, history
  <1>4. /\ call'[s].op = "idle" /\ \A t \in Slots : t # s => call'[t] = call[t]
        /\ \E o \in Objs \ DOMAIN heap, i \in AnyId :
             /\ call[s].ans = <<NewPost(i)>>
             /\ DOMAIN posts' = 1 .. Len(posts) + 1
             /\ \A j \in 1 .. Len(posts) + 1 : posts'[j] = IF j = 1 THEN o ELSE posts[j - 1]
             /\ \A x \in DOMAIN heap' : /\ x = o \/ x \in DOMAIN heap
                                        /\ heap'[x] = IF x = o THEN NewPost(i) ELSE heap[x]
    BY <1>1, CreateEndEffect
  <1>5. PICK o1 \in Objs \ DOMAIN heap, i0 \in AnyId :
             /\ call[s].ans = <<NewPost(i0)>>
             /\ DOMAIN posts' = 1 .. Len(posts) + 1
             /\ \A j \in 1 .. Len(posts) + 1 : posts'[j] = IF j = 1 THEN o1 ELSE posts[j - 1]
             /\ \A x \in DOMAIN heap' : /\ x = o1 \/ x \in DOMAIN heap
                                        /\ heap'[x] = IF x = o1 THEN NewPost(i0) ELSE heap[x]
    BY <1>4
  <1>6. \A i : i # i0 => <<NewPost(i)>> # <<NewPost(i0)>>
    BY DEF NewPost, PostWith
  <1>7. /\ s \notin Loads /\ s \notin Running({"more"}) /\ s \in CreatesOf(i0)
        /\ \A i : s \notin DeletesOf(i) /\ s \notin LikesOf(i) /\ (i # i0 => s \notin CreatesOf(i))
    BY <1>2, <1>5, <1>6 DEF DeletesOf, LikesOf, CreatesOf, Loads, Running
  <1>8. i0 \in Ids => \A t \in CreatesOf(i0) : t = s
    BY <1>7 DEF CauseInv, Born
  <1>9. /\ \A i : LikesOf(i)' = LikesOf(i) /\ DeletesOf(i)' = DeletesOf(i)
        /\ \A i : i # i0 => CreatesOf(i)' = CreatesOf(i)
        /\ i0 \in Ids => CreatesOf(i0)' = {}
        /\ \A i : CreatesOf(i)' \subseteq CreatesOf(i)
        /\ Loads' = Loads /\ Running({"more"})' = Running({"more"}) /\ (FetchServed' <=> FetchServed)
    <2>1. \A i : LikesOf(i)' = LikesOf(i) \ {s} /\ CreatesOf(i)' = CreatesOf(i) \ {s} /\ DeletesOf(i)' = DeletesOf(i) \ {s}
      BY <1>4, CallGone
    <2>2. Loads' = Loads \ {s} /\ Running({"more"})' = Running({"more"}) \ {s}
      BY <1>4, CallGone
    <2>3. FetchServed' <=> FetchServed
      BY <1>2, <1>4, CallGone
    <2>4. \A i : LikesOf(i)' = LikesOf(i) /\ DeletesOf(i)' = DeletesOf(i)
      BY <1>7, <2>1
    <2>5. \A i : i # i0 => CreatesOf(i)' = CreatesOf(i)
      BY <1>7, <2>1
    <2>6. i0 \in Ids => CreatesOf(i0)' = {}
      BY <1>8, <2>1
    <2>7. Loads' = Loads /\ Running({"more"})' = Running({"more"})
      BY <1>7, <2>2
    <2> QED
      BY <2>1, <2>3, <2>4, <2>5, <2>6, <2>7
  <1>10. /\ \A i : \A t \in LikesOf(i) \cup DeletesOf(i) : call'[t] = call[t]
         /\ \A t \in Loads : call'[t] = call[t]
    BY <1>4, <1>7 DEF LikesOf, DeletesOf, Loads, Running
  <1>11. LoadGuards' /\ LoadAnswers'
    BY <1>3, <1>4, <1>7, LoadsStay
  <1>12. NewPost(i0).id = i0
    BY DEF NewPost, PostWith
  <1>13. Born'
    <2>1. i0 \notin unborn
      BY <1>7 DEF CauseInv, Born
    <2>2. \A x \in DOMAIN heap' : heap'[x].id \notin unborn
      <3>1. \A x \in DOMAIN heap : heap[x].id \notin unborn
        BY DEF CauseInv, Born
      <3> QED
        BY <1>5, <1>12, <2>1, <3>1
    <2> QED
      BY <1>3, <1>9, <1>10, <2>2 DEF CauseInv, Born
  <1>14. DOMAIN posts = 1 .. Len(posts) /\ Len(posts) \in Nat
    BY <1>1 DEF HeapType
  <1>15. PICK m : m = [j \in DOMAIN posts' |-> j - 1]
    OBVIOUS
  <1>16. /\ \A j \in DOMAIN posts' : j # 1 => m[j] \in DOMAIN posts /\ posts'[j] = posts[m[j]]
         /\ \A j, l \in DOMAIN posts' : m[j] = m[l] => j = l
         /\ posts'[1] = o1 /\ 1 \in DOMAIN posts'
    BY <1>5, <1>14, <1>15
  <1>17. o1 \in DOMAIN heap' /\ heap'[o1] = NewPost(i0)
    <2>1. posts' \in Seq(DOMAIN heap')
      BY <1>1 DEF HeapType
    <2>2. posts'[1] \in DOMAIN heap'
      BY <1>16, <2>1
    <2> QED
      BY <1>5, <1>16, <2>2
  <1>18. \A x \in DOMAIN heap' : x \in DOMAIN heap => heap'[x].id = heap[x].id
    BY <1>5
  <1>19. ASSUME NEW i \in Ids \ excused' PROVE Settled(i)'
    <2>1. Settled(i)
      BY <1>3 DEF CauseInv
    <2>2. CASE i # i0
      <3>1. \A j \in Places(i)' : j # 1 /\ j \in DOMAIN posts'
        BY <1>12, <1>16, <1>17, <2>2 DEF Places
      <3>2. /\ \A j \in Places(i)' : m[j] \in DOMAIN posts /\ posts'[j] = posts[m[j]]
            /\ \A j, l \in Places(i)' : m[j] = m[l] => j = l
        BY <1>16, <3>1
      <3>3. /\ \A j \in Places(i)' : m[j] \in Places(i) /\ posts'[j] = posts[m[j]]
            /\ (\A j, l \in Places(i) : j = l) => (\A j, l \in Places(i)' : j = l)
        BY <1>1, <1>18, <3>2, Moved
      <3>4. \A o \in Kept(i) : heap'[o] = heap[o] \/ o \notin Kept(i)'
        <4>1. Kept(i)' \subseteq DOMAIN heap'
          BY <1>1 DEF Kept, DeletesOf, Running, Places, HeapType, Refers
        <4>2. Kept(i) \subseteq DOMAIN heap
          BY <1>1, KeptObjects
        <4> QED
          BY <1>5, <4>1, <4>2
      <3>5. Once(i)' /\ Shown(i)'
        BY <1>3, <1>9, <1>10, <2>1, <2>2, <3>3, <3>4, StillShown DEF Settled
      <3>6. Free(i) => Free(i)'
        BY <1>9, <3>3 DEF Free
      <3>7. Made(i)'
        BY <1>3, <1>9, <2>1, <2>2 DEF Settled, Made
      <3>8. Placed(i)'
        BY <1>3, <1>9, <2>1, <3>6 DEF Settled, Placed
      <3>9. Coming(i)'
        BY <1>3, <1>9, <1>10, <2>1, <3>6, StillComing DEF Settled, Loads, Running
      <3> QED
        BY <3>5, <3>7, <3>8, <3>9 DEF Settled
    <2>3. CASE i = i0
      <3>1. /\ Places(i) = {} /\ LikesOf(i) = {} /\ DeletesOf(i) = {} /\ i \in Range(table) /\ i \notin myLikes
            /\ others[i] = 0 /\ (shifted \/ FetchServed)
        BY <1>7, <2>1, <2>3 DEF Settled, Once, Free, Made
      <3>2. LikesOf(i)' = {} /\ DeletesOf(i)' = {} /\ CreatesOf(i)' = {}
        BY <1>9, <2>3, <3>1
      <3>3. \A j \in Places(i)' : j = 1
        <4> SUFFICES ASSUME NEW j \in Places(i)', j # 1 PROVE FALSE
          OBVIOUS
        <4>1. j \in DOMAIN posts' /\ heap'[posts'[j]].id = i
          BY DEF Places
        <4>2. m[j] \in DOMAIN posts /\ posts'[j] = posts[m[j]] /\ posts'[j] \in DOMAIN heap' /\ posts[m[j]] \in DOMAIN heap
          BY <1>1, <1>16, <4>1 DEF HeapType
        <4>3. m[j] \in Places(i)
          BY <1>18, <4>1, <4>2 DEF Places
        <4> QED
          BY <3>1, <4>3
      <3>4. Kept(i)' \subseteq {o1}
        BY <1>16, <3>2, <3>3 DEF Kept
      <3>5. ServerPost(i)' = NewPost(i0)
        <4>1. ServerPost(i)' = ServerPost(i)
          BY <1>3 DEF ServerPost
        <4>2. (i \in myLikes) = FALSE
          BY <3>1
        <4>3. ServerPost(i) = NewPost(i)
          BY <3>1, <4>2, Zenon DEF ServerPost, NewPost
        <4> QED
          BY <2>3, <4>1, <4>3
      <3>6. Once(i)'
        BY <3>2, <3>3 DEF Once
      <3>7. Shown(i)'
        BY <1>3, <1>17, <3>1, <3>2, <3>4, <3>5 DEF Shown
      <3>8. Made(i)'
        BY <3>2 DEF Made
      <3>9. Placed(i)'
        BY <1>3, <1>9, <3>1 DEF Placed
      <3>10. Coming(i)'
        <4>1. FetchServed => Running({"more"}) = {}
          BY <1>1 DEF FetchServed, MarksInv, OneLoad, Loads, Running
        <4> QED
          BY <1>3, <1>9, <3>1, <4>1 DEF Coming
      <3> QED
        BY <3>6, <3>7, <3>8, <3>9, <3>10 DEF Settled
    <2> QED
      BY <2>2, <2>3
  <1> QED
    BY <1>1, <1>11, <1>13, <1>19 DEF CauseInv

\* What fetchPosts and loadMore do with an answer: a new object for each post,
\* in place of the list or behind it.
LEMMA LoadEndEffect ==
    ASSUME TypeInv, NEW s \in Slots, EndLoad(s), call[s].st = "ok"
    PROVE  /\ call'[s].op = "idle" /\ \A t \in Slots : t # s => call'[t] = call[t]
           /\ call[s] \in LoadCall
           /\ \E refs :
                /\ call[s].op = "fetch" => DOMAIN posts' = DOMAIN call[s].ans /\ \A j \in DOMAIN posts' : posts'[j] = refs[j]
                /\ call[s].op = "more" =>
                     /\ DOMAIN posts' = 1 .. Len(posts) + Len(call[s].ans)
                     /\ \A j \in DOMAIN posts' : posts'[j] = IF j <= Len(posts) THEN posts[j] ELSE refs[j - Len(posts)]
                /\ \A k \in DOMAIN call[s].ans : /\ refs[k] \notin DOMAIN heap
                                                 /\ refs[k] \in DOMAIN heap' /\ heap'[refs[k]] = call[s].ans[k]
                /\ \A x \in DOMAIN heap' : \/ x \in DOMAIN heap /\ heap'[x] = heap[x]
                                           \/ \E k \in DOMAIN call[s].ans : heap'[x] = call[s].ans[k] /\ x \notin DOMAIN heap
  <1>1. HeapType /\ call[s] \in CallType /\ posts \in Seq(DOMAIN heap)
    BY DEF TypeInv, HeapType
  <1>2. call[s] \in LoadCall /\ call[s].op \in {"fetch", "more"}
    BY <1>1, CallKinds DEF EndLoad, Back
  <1>3. PICK a \in Seq(PostType) : a = call[s].ans
    BY <1>2 DEF LoadCall
  <1>4. PICK refs : refs = Fresh(Len(a))
    OBVIOUS
  <1>5. PICK ps : ps = IF call[s].op = "fetch" THEN refs ELSE posts \o refs
    OBVIOUS
  <1>6. PICK h : h = WithNew(refs, a)
    OBVIOUS
  <1>7. Room(Len(a)) /\ Page(h, ps, Done(s))
    BY <1>3, <1>4, <1>5, <1>6 DEF EndLoad, Replaced, Ok
  <1>8. DOMAIN a = 1 .. Len(a) /\ Len(a) \in Nat
    OBVIOUS
  <1>9. refs \in [1 .. Len(a) -> Objs \ DOMAIN heap] /\ IsInjective(refs)
    BY <1>4, <1>7, <1>8, FreshRefs
  <1>10. /\ DOMAIN h = DOMAIN heap \cup Range(refs) /\ \A x \in DOMAIN heap : h[x] = heap[x]
         /\ \A k \in 1 .. Len(a) : h[refs[k]] = a[k]
         /\ refs \in Seq(DOMAIN h) /\ Len(refs) = Len(a)
    <2>1. /\ DOMAIN WithNew(refs, a) = DOMAIN heap \cup Range(refs) /\ \A x \in DOMAIN heap : WithNew(refs, a)[x] = heap[x]
          /\ \A k \in 1 .. Len(a) : WithNew(refs, a)[refs[k]] = a[k]
          /\ refs \in Seq(DOMAIN WithNew(refs, a)) /\ Len(refs) = Len(a)
      BY <1>1, <1>9, WithNewFacts
    <2> QED
      BY <1>6, <2>1
  <1>11. /\ posts \o refs \in Seq(DOMAIN h) /\ DOMAIN (posts \o refs) = 1 .. Len(posts) + Len(a)
         /\ \A j \in 1 .. Len(posts) + Len(a) : (posts \o refs)[j] = IF j <= Len(posts) THEN posts[j] ELSE refs[j - Len(posts)]
    <2>1. PICK D : D = DOMAIN h
      OBVIOUS
    <2>2. refs \in Seq(D) /\ posts \in Seq(D)
      BY <1>1, <1>10, <2>1
    <2>3. /\ posts \o refs \in Seq(D) /\ DOMAIN (posts \o refs) = 1 .. Len(posts) + Len(refs)
          /\ \A j \in 1 .. Len(posts) + Len(refs) : (posts \o refs)[j] = IF j <= Len(posts) THEN posts[j] ELSE refs[j - Len(posts)]
      BY <2>2, ConcatSeq
    <2> QED
      BY <1>10, <2>1, <2>3
  <1>12. ps \in Seq(DOMAIN h)
    BY <1>5, <1>10, <1>11
  <1>13. /\ posts' = ps /\ call'[s].op = "idle" /\ \A t \in Slots : t # s => call'[t] = call[t]
         /\ \A x \in DOMAIN heap' : x \in DOMAIN h /\ heap'[x] = h[x]
    BY <1>1, <1>7, <1>10, <1>12, EndPage
  <1>14. DOMAIN refs = DOMAIN a
    BY <1>8, <1>9
  <1>15. \A k \in DOMAIN a : refs[k] \in Range(ps)
    <2> SUFFICES ASSUME NEW k \in DOMAIN a PROVE \E j \in DOMAIN ps : ps[j] = refs[k]
      BY DEF Range
    <2>1. CASE call[s].op = "fetch"
      BY <1>5, <1>14, <2>1
    <2>2. CASE call[s].op # "fetch"
      <3>1. Len(posts) \in Nat /\ k \in 1 .. Len(a)
        BY <1>1, <1>8
      <3>2. /\ Len(posts) + k \in 1 .. Len(posts) + Len(a) /\ ~(Len(posts) + k <= Len(posts))
            /\ (Len(posts) + k) - Len(posts) = k
        BY <1>8, <3>1
      <3>3. (posts \o refs)[Len(posts) + k] = refs[k]
        BY <1>11, <3>2
      <3> QED
        BY <1>5, <1>11, <2>2, <3>2, <3>3
    <2> QED
      BY <2>1, <2>2
  <1>16. \A k \in DOMAIN a : refs[k] \in DOMAIN heap' /\ refs[k] \notin DOMAIN heap /\ heap'[refs[k]] = a[k]
    <2> SUFFICES ASSUME NEW k \in DOMAIN a PROVE refs[k] \in DOMAIN heap' /\ refs[k] \notin DOMAIN heap /\ heap'[refs[k]] = a[k]
      OBVIOUS
    <2>1. refs[k] \in DOMAIN heap'
      BY <1>7, <1>15, PageHeap
    <2>2. refs[k] \notin DOMAIN heap /\ h[refs[k]] = a[k]
      BY <1>8, <1>9, <1>10
    <2> QED
      BY <1>13, <2>1, <2>2
  <1>17. \A x \in DOMAIN heap' : \/ x \in DOMAIN heap /\ heap'[x] = heap[x]
                                 \/ \E k \in DOMAIN a : heap'[x] = a[k] /\ x \notin DOMAIN heap
    <2> SUFFICES ASSUME NEW x \in DOMAIN heap', x \notin DOMAIN heap PROVE \E k \in DOMAIN a : heap'[x] = a[k]
      BY <1>10, <1>13
    <2>1. x \in Range(refs)
      BY <1>10, <1>13
    <2>2. PICK k \in DOMAIN refs : x = refs[k]
      BY <2>1 DEF Range
    <2> QED
      BY <1>14, <1>16, <2>2
  <1>18. call[s].op = "fetch" => DOMAIN posts' = DOMAIN a /\ \A j \in DOMAIN posts' : posts'[j] = refs[j]
    BY <1>5, <1>13, <1>14
  <1>19. call[s].op = "more" =>
           /\ DOMAIN posts' = 1 .. Len(posts) + Len(a)
           /\ \A j \in DOMAIN posts' : posts'[j] = IF j <= Len(posts) THEN posts[j] ELSE refs[j - Len(posts)]
    BY <1>5, <1>11, <1>13
  <1> QED
    BY <1>2, <1>3, <1>13, <1>16, <1>17, <1>18, <1>19

\* When a load has ended no load is in flight: there was one.
LEMMA LoadGone ==
    ASSUME MarksInv, NEW s \in Slots, call[s].op \in {"fetch", "more"}, call'[s].op = "idle",
           \A t \in Slots : t # s => call'[t] = call[t]
    PROVE  /\ Loads = {s} /\ Loads' = {} /\ Running({"more"})' = {} /\ ~FetchServed'
           /\ FetchServed <=> call[s].op = "fetch" /\ call[s].st = "ok"
           /\ \A i : LikesOf(i)' = LikesOf(i) /\ DeletesOf(i)' = DeletesOf(i) /\ CreatesOf(i)' = CreatesOf(i)
           /\ \A i : \A t \in LikesOf(i) \cup DeletesOf(i) : call'[t] = call[t]
  <1>1. s \in Loads
    BY DEF Loads, Running
  <1>2. Loads = {s}
    BY <1>1 DEF MarksInv, OneLoad
  <1>3. Loads' = {}
    BY <1>2, CallGone
  <1>4. Running({"more"})' = {} /\ ~FetchServed'
    BY <1>3 DEF Loads, Running, FetchServed
  <1>5. FetchServed <=> call[s].op = "fetch" /\ call[s].st = "ok"
    BY <1>2 DEF FetchServed, Loads, Running
  <1>6. \A i : s \notin LikesOf(i) /\ s \notin DeletesOf(i) /\ s \notin CreatesOf(i)
    BY DEF LikesOf, DeletesOf, CreatesOf, Running
  <1>7. \A i : LikesOf(i)' = LikesOf(i) \ {s} /\ CreatesOf(i)' = CreatesOf(i) \ {s} /\ DeletesOf(i)' = DeletesOf(i) \ {s}
    BY CallGone
  <1>8. \A i : LikesOf(i)' = LikesOf(i) /\ DeletesOf(i)' = DeletesOf(i) /\ CreatesOf(i)' = CreatesOf(i)
    BY <1>6, <1>7
  <1>9. \A i : \A t \in LikesOf(i) \cup DeletesOf(i) : call'[t] = call[t]
    BY <1>6 DEF LikesOf, DeletesOf, Running
  <1> QED
    BY <1>2, <1>3, <1>4, <1>5, <1>8, <1>9

\* A load that failed: the list stays, or is empty.
LEMMA LoadFailed ==
    ASSUME CauseInv, TypeInv', MarksInv', NEW s \in Slots, EndLoad(s), call[s].st # "ok"
    PROVE  CauseInv'
  <1>1. TypeInv /\ HeapType /\ HeapType' /\ MarksInv
    BY DEF CauseInv, TypeInv
  <1>2. call[s].op \in {"fetch", "more"}
    BY DEF EndLoad, Back
  <1>3. UNCHANGED <<table, myLikes, others, unborn, page, hasMore, shifted, excused>> /\ overlap' = {}
    BY DEF EndLoad, Ok, server, paging
  <1>4. /\ call'[s].op = "idle" /\ \A t \in Slots : t # s => call'[t] = call[t]
        /\ posts' \in {posts, << >>} /\ \A x \in DOMAIN heap' : x \in DOMAIN heap /\ heap'[x] = heap[x]
    <2>1. PICK ps \in {posts, << >>} : Page(heap, ps, Done(s))
      BY DEF EndLoad, Ok
    <2>2. ps \in Seq(DOMAIN heap)
      <3>1. posts \in Seq(DOMAIN heap)
        BY <1>1 DEF HeapType
      <3>2. << >> \in Seq(DOMAIN heap)
        OBVIOUS
      <3> QED
        BY <2>1, <3>1, <3>2
    <2> QED
      BY <1>1, <2>1, <2>2, EndPage
  <1>5. /\ Loads' = {} /\ Running({"more"})' = {} /\ ~FetchServed' /\ ~FetchServed
        /\ \A i : LikesOf(i)' = LikesOf(i) /\ DeletesOf(i)' = DeletesOf(i) /\ CreatesOf(i)' = CreatesOf(i)
        /\ \A i : \A t \in LikesOf(i) \cup DeletesOf(i) : call'[t] = call[t]
    BY <1>1, <1>2, <1>4, LoadGone
  <1>6. LoadGuards' /\ LoadAnswers'
    BY <1>5 DEF LoadGuards, LoadAnswers
  <1>7. Born'
    BY <1>3, <1>4, <1>5 DEF CauseInv, Born
  <1>8. \A i : Places(i)' \subseteq Places(i) /\ \A k \in Places(i)' : posts'[k] = posts[k]
    <2>1. \A j \in DOMAIN posts' : posts' = posts /\ posts'[j] \in DOMAIN heap'
      BY <1>1, <1>4 DEF HeapType
    <2> QED
      BY <1>4, <2>1 DEF Places
  <1>9. ASSUME NEW i \in Ids \ excused' PROVE Settled(i)'
    <2>1. Settled(i)
      BY <1>3 DEF CauseInv
    <2>2. Free(i) => Free(i)'
      BY <1>5, <1>8 DEF Free
    <2>3. \A o \in Kept(i) : heap'[o] = heap[o] \/ o \notin Kept(i)'
      <3>1. Kept(i)' \subseteq DOMAIN heap'
        BY <1>1 DEF Kept, DeletesOf, Running, Places, HeapType, Refers
      <3> QED
        BY <1>4, <3>1
    <2>4. Once(i)' /\ Shown(i)'
      BY <1>3, <1>5, <1>8, <2>1, <2>3, StillShown DEF Settled
    <2>5. Made(i)'
      BY <1>3, <1>5, <2>1 DEF Settled, Made
    <2>6. Placed(i)'
      BY <1>3, <1>5, <2>1, <2>2 DEF Settled, Placed
    <2>7. Coming(i)'
      BY <1>5 DEF Coming
    <2> QED
      BY <2>4, <2>5, <2>6, <2>7 DEF Settled
  <1> QED
    BY <1>1, <1>6, <1>7, <1>9 DEF CauseInv

\* fetchPosts ends with an answer: what no change overlapped is listed once and
\* as the server has it.
LEMMA FetchEnds ==
    ASSUME CauseInv, TypeInv', MarksInv', NEW s \in Slots, EndLoad(s), call[s].st = "ok", call[s].op = "fetch"
    PROVE  CauseInv'
  <1>1. TypeInv /\ HeapType /\ HeapType' /\ MarksInv
    BY DEF CauseInv, TypeInv
  <1>2. /\ UNCHANGED <<table, myLikes, others, unborn, shifted>> /\ overlap' = {} /\ excused' = overlap
        /\ page' = call[s].page /\ hasMore' = (Len(call[s].ans) = PageSize)
    BY DEF EndLoad, Ok, server
  <1>3. call'[s].op = "idle" /\ (\A t \in Slots : t # s => call'[t] = call[t]) /\ call[s] \in LoadCall
    BY <1>1, LoadEndEffect
  <1>4. PICK refs :
             /\ DOMAIN posts' = DOMAIN call[s].ans /\ \A j \in DOMAIN posts' : posts'[j] = refs[j]
             /\ \A k \in DOMAIN call[s].ans : /\ refs[k] \notin DOMAIN heap
                                              /\ refs[k] \in DOMAIN heap' /\ heap'[refs[k]] = call[s].ans[k]
             /\ \A x \in DOMAIN heap' : \/ x \in DOMAIN heap /\ heap'[x] = heap[x]
                                        \/ \E k \in DOMAIN call[s].ans : heap'[x] = call[s].ans[k] /\ x \notin DOMAIN heap
    BY <1>1, LoadEndEffect
  <1>5. /\ Loads = {s} /\ Loads' = {} /\ Running({"more"})' = {} /\ ~FetchServed'
        /\ \A i : LikesOf(i)' = LikesOf(i) /\ DeletesOf(i)' = DeletesOf(i) /\ CreatesOf(i)' = CreatesOf(i)
    BY <1>1, <1>3, LoadGone
  <1>6. LoadGuards' /\ LoadAnswers'
    BY <1>5 DEF LoadGuards, LoadAnswers
  <1>7. Born'
    <2>1. \A k \in DOMAIN call[s].ans : call[s].ans[k].id \notin unborn
      BY <1>5 DEF CauseInv, Born
    <2>2. \A x \in DOMAIN heap' : heap'[x].id \notin unborn
      BY <1>4, <2>1 DEF CauseInv, Born
    <2> QED
      BY <1>2, <1>5, <2>2 DEF CauseInv, Born
  <1>8. \A i : \A j \in Places(i)' : j \in DOMAIN call[s].ans /\ call[s].ans[j].id = i /\ heap'[posts'[j]] = call[s].ans[j]
    BY <1>4 DEF Places
  <1>9. /\ \A j, k \in DOMAIN call[s].ans : call[s].ans[j].id = call[s].ans[k].id => j = k
        /\ ~shifted /\ Len(call[s].ans) = PageSize =>
             \A k \in DOMAIN call[s].ans : \A q \in DOMAIN table :
                 table[q] = call[s].ans[k].id => q <= call[s].page * PageSize
        /\ \A k \in DOMAIN call[s].ans : \A i \in Ids \ overlap :
             call[s].ans[k].id = i => i \in Range(table) /\ call[s].ans[k] = ServerPost(i)
    BY <1>5 DEF CauseInv, LoadAnswers
  <1>10. ASSUME NEW i \in Ids \ excused' PROVE Settled(i)'
    <2>1. i \in Ids \ overlap
      BY <1>2
    <2>2. LikesOf(i)' = {} /\ DeletesOf(i)' = {} /\ CreatesOf(i)' = {}
      BY <1>5, <2>1 DEF CauseInv, LoadGuards
    <2>3. Once(i)'
      BY <1>8, <1>9, <2>2 DEF Once
    <2>4. Shown(i)'
      <3>1. ServerPost(i)' = ServerPost(i)
        BY <1>2 DEF ServerPost
      <3>2. \A o \in Kept(i)' : \E j \in Places(i)' : o = posts'[j]
        BY <2>2 DEF Kept
      <3>3. \A o \in Kept(i)' : i \in Range(table) /\ heap'[o] = ServerPost(i)
        BY <1>8, <1>9, <2>1, <3>2
      <3> QED
        BY <1>2, <2>2, <3>1, <3>3 DEF Shown
    <2>5. Made(i)' /\ Coming(i)'
      BY <1>5, <2>2 DEF Made, Coming
    <2>6. Placed(i)'
      <3> SUFFICES ASSUME ~shifted', hasMore', ~Free(i)', NEW q \in DOMAIN table', table'[q] = i
                   PROVE  q <= page' * PageSize
        BY DEF Placed
      <3>1. PICK j \in Places(i)' : TRUE
        BY <2>2 DEF Free
      <3>2. j \in DOMAIN call[s].ans /\ call[s].ans[j].id = i
        BY <1>8
      <3>3. ~shifted /\ Len(call[s].ans) = PageSize /\ q \in DOMAIN table /\ table[q] = i /\ page' = call[s].page
        BY <1>2
      <3> QED
        BY <1>9, <3>2, <3>3
    <2> QED
      BY <2>3, <2>4, <2>5, <2>6 DEF Settled
  <1> QED
    BY <1>1, <1>6, <1>7, <1>10 DEF CauseInv

\* loadMore ends with an answer: unless the pages have shifted, it brings
\* posts the page does not have yet.
LEMMA MoreEnds ==
    ASSUME CauseInv, TypeInv', MarksInv', NEW s \in Slots, EndLoad(s), call[s].st = "ok", call[s].op = "more"
    PROVE  CauseInv'
  <1>1. TypeInv /\ HeapType /\ HeapType' /\ MarksInv /\ ServerType
    BY DEF CauseInv, TypeInv
  <1>2. /\ UNCHANGED <<table, myLikes, others, unborn, shifted>> /\ overlap' = {}
        /\ page' = call[s].page /\ hasMore' = (Len(call[s].ans) = PageSize)
        /\ excused \subseteq excused' /\ (shifted => \A k \in DOMAIN call[s].ans : call[s].ans[k].id \in excused')
    BY DEF EndLoad, Ok, server
  <1>3. call'[s].op = "idle" /\ (\A t \in Slots : t # s => call'[t] = call[t]) /\ call[s] \in LoadCall
    BY <1>1, LoadEndEffect
  <1>4. PICK refs :
             /\ DOMAIN posts' = 1 .. Len(posts) + Len(call[s].ans)
             /\ \A j \in DOMAIN posts' : posts'[j] = IF j <= Len(posts) THEN posts[j] ELSE refs[j - Len(posts)]
             /\ \A k \in DOMAIN call[s].ans : /\ refs[k] \notin DOMAIN heap
                                              /\ refs[k] \in DOMAIN heap' /\ heap'[refs[k]] = call[s].ans[k]
             /\ \A x \in DOMAIN heap' : \/ x \in DOMAIN heap /\ heap'[x] = heap[x]
                                        \/ \E k \in DOMAIN call[s].ans : heap'[x] = call[s].ans[k] /\ x \notin DOMAIN heap
    <2>1. \E refs :
            /\ call[s].op = "fetch" => DOMAIN posts' = DOMAIN call[s].ans /\ \A j \in DOMAIN posts' : posts'[j] = refs[j]
            /\ call[s].op = "more" =>
                 /\ DOMAIN posts' = 1 .. Len(posts) + Len(call[s].ans)
                 /\ \A j \in DOMAIN posts' : posts'[j] = IF j <= Len(posts) THEN posts[j] ELSE refs[j - Len(posts)]
            /\ \A k \in DOMAIN call[s].ans : /\ refs[k] \notin DOMAIN heap
                                             /\ refs[k] \in DOMAIN heap' /\ heap'[refs[k]] = call[s].ans[k]
            /\ \A x \in DOMAIN heap' : \/ x \in DOMAIN heap /\ heap'[x] = heap[x]
                                       \/ \E k \in DOMAIN call[s].ans : heap'[x] = call[s].ans[k] /\ x \notin DOMAIN heap
      BY <1>1, LoadEndEffect
    <2> QED
      BY <2>1
  <1>5. /\ Loads = {s} /\ Loads' = {} /\ Running({"more"})' = {} /\ ~FetchServed' /\ ~FetchServed
        /\ \A i : LikesOf(i)' = LikesOf(i) /\ DeletesOf(i)' = DeletesOf(i) /\ CreatesOf(i)' = CreatesOf(i)
        /\ \A i : \A t \in LikesOf(i) \cup DeletesOf(i) : call'[t] = call[t]
    BY <1>1, <1>3, LoadGone
  <1>6. LoadGuards' /\ LoadAnswers'
    BY <1>5 DEF LoadGuards, LoadAnswers
  <1>7. Born'
    <2>1. \A k \in DOMAIN call[s].ans : call[s].ans[k].id \notin unborn
      BY <1>5 DEF CauseInv, Born
    <2>2. \A x \in DOMAIN heap' : heap'[x].id \notin unborn
      BY <1>4, <2>1 DEF CauseInv, Born
    <2> QED
      BY <1>2, <1>5, <2>2 DEF CauseInv, Born
  <1>8. /\ \A j, k \in DOMAIN call[s].ans : call[s].ans[j].id = call[s].ans[k].id => j = k
        /\ ~shifted /\ Len(call[s].ans) = PageSize =>
             \A k \in DOMAIN call[s].ans : \A q \in DOMAIN table :
                 table[q] = call[s].ans[k].id => q <= call[s].page * PageSize
    BY <1>5 DEF CauseInv, LoadAnswers
  <1>9. hasMore /\ call[s].page = page + 1 /\ page \in Nat
    BY <1>1, <1>5 DEF CauseInv, LoadGuards, TypeInv, RestType
  <1>10. /\ DOMAIN posts = 1 .. Len(posts) /\ Len(posts) \in Nat
         /\ DOMAIN call[s].ans = 1 .. Len(call[s].ans) /\ Len(call[s].ans) \in Nat
    <2>1. posts \in Seq(DOMAIN heap) /\ call[s].ans \in Seq(PostType)
      BY <1>1, <1>3 DEF HeapType, LoadCall
    <2> QED
      BY <2>1
  <1>11. \A j \in DOMAIN posts' : /\ j \in DOMAIN posts => posts'[j] = posts[j]
                                  /\ j \notin DOMAIN posts => /\ j - Len(posts) \in DOMAIN call[s].ans
                                                              /\ posts'[j] = refs[j - Len(posts)]
    BY <1>4, <1>10
  <1>12. \A x \in DOMAIN heap' : x \in DOMAIN heap => heap'[x] = heap[x]
    BY <1>4
  <1>13. ASSUME NEW i, NEW j \in Places(i)'
         PROVE  \/ j \in Places(i) /\ posts'[j] = posts[j]
                \/ /\ j \notin DOMAIN posts /\ j - Len(posts) \in DOMAIN call[s].ans
                   /\ call[s].ans[j - Len(posts)].id = i /\ heap'[posts'[j]] = call[s].ans[j - Len(posts)]
    <2>1. j \in DOMAIN posts' /\ heap'[posts'[j]].id = i
      BY DEF Places
    <2>2. CASE j \in DOMAIN posts
      <3>1. posts'[j] = posts[j]
        BY <1>11, <2>1, <2>2
      <3>2. posts[j] \in DOMAIN heap
        BY <1>1, <2>2 DEF HeapType
      <3>3. posts'[j] \in DOMAIN heap'
        BY <1>1, <2>1 DEF HeapType
      <3> QED
        BY <1>12, <2>1, <2>2, <3>1, <3>2, <3>3 DEF Places
    <2>3. CASE j \notin DOMAIN posts
      BY <1>4, <1>11, <2>1, <2>3
    <2> QED
      BY <2>2, <2>3
  <1>14. ASSUME NEW i \in Ids \ excused' PROVE Settled(i)'
    <2>1. Settled(i) /\ i \notin excused
      BY <1>2 DEF CauseInv
    <2>2. Made(i)' /\ Coming(i)'
      BY <1>2, <1>5, <2>1 DEF Settled, Made, Coming
    <2>3. ServerPost(i)' = ServerPost(i)
      BY <1>2 DEF ServerPost
    <2>4. CASE \A k \in DOMAIN call[s].ans : call[s].ans[k].id # i
      <3>1. \A j \in Places(i)' : j \in Places(i) /\ posts'[j] = posts[j]
        BY <1>13, <2>4
      <3>2. Free(i) => Free(i)'
        BY <1>5, <3>1 DEF Free
      <3>3. \A o \in Kept(i) : heap'[o] = heap[o] \/ o \notin Kept(i)'
        <4>1. Kept(i)' \subseteq DOMAIN heap'
          BY <1>1 DEF Kept, DeletesOf, Running, Places, HeapType, Refers
        <4>2. Kept(i) \subseteq DOMAIN heap
          BY <1>1, KeptObjects
        <4> QED
          BY <1>12, <4>1, <4>2
      <3>4. Once(i)' /\ Shown(i)'
        BY <1>2, <1>5, <2>1, <3>1, <3>3, StillShown DEF Settled
      <3>5. Placed(i)'
        <4> SUFFICES ASSUME ~shifted, ~Free(i), NEW q \in DOMAIN table, table[q] = i
                     PROVE  q <= (page + 1) * PageSize
          BY <1>2, <1>9, <3>2 DEF Placed
        <4>1. q <= page * PageSize
          BY <1>5, <1>9, <2>1 DEF Settled, Placed
        <4>2. q \in Nat /\ PageSize \in Nat /\ page * PageSize \in Nat
          <5>1. q \in Nat
            BY <1>1 DEF ServerType
          <5>2. PageSize \in Nat
            BY StoreAssumption
          <5> QED
            BY <1>9, <5>1, <5>2
        <4>3. (page + 1) * PageSize = page * PageSize + PageSize
          BY <1>9, <4>2
        <4> QED
          BY <4>1, <4>2, <4>3
      <3> QED
        BY <2>2, <3>4, <3>5 DEF Settled
    <2>5. CASE \E k \in DOMAIN call[s].ans : call[s].ans[k].id = i
      <3>1. PICK k \in DOMAIN call[s].ans : call[s].ans[k].id = i
        BY <2>5
      <3>2. ~shifted
        BY <1>2, <3>1
      <3>3. Free(i) /\ i \in Range(table) /\ call[s].ans[k] = ServerPost(i)
        BY <2>1, <3>1, <3>2 DEF Settled, Coming, Running
      <3>4. CreatesOf(i)' = {} /\ LikesOf(i)' = {} /\ DeletesOf(i)' = {}
        BY <1>5, <2>1, <3>2, <3>3 DEF Settled, Made, Free
      <3>5. \A j \in Places(i)' : j - Len(posts) = k /\ heap'[posts'[j]] = ServerPost(i) /\ j \in Int
        <4> SUFFICES ASSUME NEW j \in Places(i)' PROVE j - Len(posts) = k /\ heap'[posts'[j]] = ServerPost(i) /\ j \in Int
          OBVIOUS
        <4>1. /\ j - Len(posts) \in DOMAIN call[s].ans /\ call[s].ans[j - Len(posts)].id = i
              /\ heap'[posts'[j]] = call[s].ans[j - Len(posts)]
          BY <1>13, <3>3 DEF Free
        <4>2. j - Len(posts) = k
          BY <1>8, <3>1, <4>1
        <4>3. j \in Int
          BY <1>4 DEF Places
        <4> QED
          BY <3>3, <4>1, <4>2, <4>3
      <3>6. \A j, l \in Places(i)' : j = l
        BY <1>10, <3>5
      <3>7. Once(i)'
        BY <3>4, <3>6 DEF Once
      <3>8. Shown(i)'
        <4>1. \A o \in Kept(i)' : \E j \in Places(i)' : o = posts'[j]
          BY <3>4 DEF Kept
        <4>2. \A o \in Kept(i)' : heap'[o] = ServerPost(i)
          BY <3>5, <4>1
        <4> QED
          BY <1>2, <2>3, <3>3, <3>4, <4>2 DEF Shown
      <3>9. Placed(i)'
        BY <1>2, <1>8, <3>1, <3>2 DEF Placed
      <3> QED
        BY <2>2, <3>7, <3>8, <3>9 DEF Settled
    <2> QED
      BY <2>4, <2>5
  <1> QED
    BY <1>1, <1>6, <1>7, <1>14 DEF CauseInv

-----------------------------------------------------------------------------
LEMMA CauseInit == Init => CauseInv
  <1> SUFFICES ASSUME Init PROVE CauseInv
    OBVIOUS
  <1>1. TypeInv /\ MarksInv
    BY TypeInit, MarksInit
  <1>2. \A s \in Slots : call[s].op = "idle"
    BY DEF Init, Idle
  <1>3. /\ Loads = {} /\ Running({"more"}) = {}
        /\ \A i : LikesOf(i) = {} /\ DeletesOf(i) = {} /\ CreatesOf(i) = {}
    BY <1>2 DEF Loads, LikesOf, DeletesOf, CreatesOf, Running
  <1>4. DOMAIN heap = {} /\ DOMAIN posts = {}
    BY DEF Init
  <1>5. \A i : Places(i) = {}
    BY <1>4 DEF Places
  <1>6. \A i : Kept(i) = {} /\ Free(i)
    BY <1>3, <1>5 DEF Kept, Free
  <1>7. Born /\ LoadGuards /\ LoadAnswers
    <2>1. \A i \in unborn : others[i] = 0
      BY DEF Init
    <2> QED
      BY <1>3, <1>4, <2>1 DEF Born, LoadGuards, LoadAnswers
  <1>8. \A i : Settled(i)
    BY <1>3, <1>5, <1>6 DEF Settled, Once, Shown, Made, Placed, Coming
  <1> QED
    BY <1>1, <1>7, <1>8 DEF CauseInv

\* Every step keeps the posts that no cause has met settled.
LEMMA CauseNext == CauseInv /\ [Next]_vars => CauseInv'
  <1> SUFFICES ASSUME CauseInv, [Next]_vars PROVE CauseInv'
    OBVIOUS
  <1>1. TypeInv' /\ MarksInv'
    BY TypeNext, MarksNext DEF CauseInv
  <1>2. CASE UNCHANGED vars
    <2>1. UNCHANGED <<table, myLikes, others, unborn, heap, posts, page, hasMore, call, overlap, shifted, excused>>
      BY <1>2 DEF vars, server, pageState, paging, history
    <2>2. /\ \A i : /\ LikesOf(i)' = LikesOf(i) /\ DeletesOf(i)' = DeletesOf(i) /\ CreatesOf(i)' = CreatesOf(i)
                    /\ Places(i)' = Places(i) /\ Kept(i)' = Kept(i) /\ (Free(i)' <=> Free(i))
          /\ Loads' = Loads /\ Running({"more"})' = Running({"more"}) /\ (FetchServed' <=> FetchServed)
      BY <1>2, PageStays DEF vars
    <2>3. \A i : ServerPost(i)' = ServerPost(i)
      BY <2>1 DEF ServerPost
    <2>4. Born'
      BY <2>1, <2>2 DEF CauseInv, Born
    <2>5. LoadGuards' /\ LoadAnswers'
      BY <2>1, <2>2, <2>3 DEF CauseInv, LoadGuards, LoadAnswers
    <2>6. ASSUME NEW i \in Ids \ excused' PROVE Settled(i)'
      <3>1. Settled(i)
        BY <2>1 DEF CauseInv
      <3> QED
        BY <2>1, <2>2, <2>3, <3>1 DEF Settled, Once, Shown, Made, Placed, Coming
    <2> QED
      BY <1>1, <2>4, <2>5, <2>6 DEF CauseInv
  <1>3. ASSUME NEW s \in Slots, Begin(s) PROVE CauseInv'
    <2>1. call[s] = Idle
      BY <1>3 DEF Begin
    <2>2. ASSUME NEW op \in {"fetch", "more"}, BeginLoad(s, op) PROVE CauseInv'
      BY <1>1, <2>1, <2>2, LoadBegins
    <2>3. ASSUME CriarPost(s) PROVE CauseInv'
      BY <1>1, <2>1, <2>3, CreateBegins
    <2>4. ASSUME NEW i \in AnyId, RemovePost(s, i) PROVE CauseInv'
      BY <1>1, <2>1, <2>4, RemoveBegins
    <2>5. ASSUME NEW i \in AnyId, ToggleLike(s, i) PROVE CauseInv'
      BY <1>1, <2>1, <2>5, LikeBegins
    <2> QED
      BY <1>3, <2>2, <2>3, <2>4, <2>5 DEF Begin
  <1>4. ASSUME NEW s \in Slots, Serve(s) PROVE CauseInv'
    BY <1>1, <1>4, FeedServed, CreateServed, DeleteServed, LikeServed, CallFails DEF Serve
  <1>5. ASSUME NEW s \in Slots, End(s) PROVE CauseInv'
    <2>1. ASSUME EndLoad(s) PROVE CauseInv'
      <3>1. call[s].op \in {"fetch", "more"}
        BY <2>1 DEF EndLoad, Back
      <3> QED
        BY <1>1, <2>1, <3>1, LoadFailed, FetchEnds, MoreEnds
    <2>2. ASSUME EndCreate(s) PROVE CauseInv'
      BY <1>1, <2>2, CreateFailed, CreateEnds
    <2>3. ASSUME EndRemove(s) PROVE CauseInv'
      BY <1>1, <2>3, RemoveEnds
    <2>4. ASSUME EndLike(s) PROVE CauseInv'
      BY <1>1, <2>4, LikeEnds
    <2> QED
      BY <1>5, <2>1, <2>2, <2>3, <2>4 DEF End
  <1>6. ASSUME NEW s \in Slots, ServeCached(s) PROVE CauseInv'
    BY <1>1, <1>6, CachedServed
  <1>7. ASSUME OtherPages, UNCHANGED <<pageState, call>> PROVE CauseInv'
    <2>1. PICK i \in Ids : OtherUserLikes(i) \/ OtherTabLikes(i) \/ OtherDelete(i) \/ OtherCreate(i)
      BY <1>7 DEF OtherPages
    <2> QED
      BY <1>1, <1>7, <2>1, OthersChange, OthersCreate
  <1> QED
    BY <1>2, <1>3, <1>4, <1>5, <1>6, <1>7 DEF Next

LEMMA CauseSpec == Spec => []CauseInv
  BY CauseInit, CauseNext, PTL DEF Spec

\* The list differs from the server only with a cause: whatever the number of
\* posts, of calls in flight and of calls made, in whatever order they are
\* served, fail and end, and whatever other pages do at the server meanwhile.
\* A listed post is shown as the server has it, or a call about it is in
\* flight, unless it is the empty post of a create, somebody else changed it
\* while the page had it, a fetch overlapped a change of it, the answer of a
\* change was lost, or it came with an outdated or a shifted page
\* (post-store.ts, server.cpp).
THEOREM DisplayHasCauseHolds == Spec => []DisplayHasCause
  <1>1. CauseInv => DisplayHasCause
    <2> SUFFICES ASSUME CauseInv, NEW k \in DOMAIN posts, NEW p, p = heap[posts[k]],
                        p.id # NoId, p.id \notin excused, Changes(p.id) = {}
                 PROVE  Contains(table, p.id) /\ p = ServerPost(p.id)
      BY DEF DisplayHasCause
    <2>1. HeapType /\ ServerType
      BY DEF CauseInv, TypeInv
    <2>2. posts[k] \in DOMAIN heap
      BY <2>1 DEF HeapType
    <2>3. p \in PostType
      BY <2>1, <2>2 DEF HeapType
    <2>4. p.id \in Ids
      BY <2>3 DEF PostType, AnyId
    <2>5. Shown(p.id)
      BY <2>4 DEF CauseInv, Settled
    <2>6. posts[k] \in Kept(p.id)
      BY DEF Kept, Places
    <2>7. LikesOf(p.id) = {}
      BY DEF Changes, LikesOf, Running
    <2>8. p.id \in Range(table) /\ p = ServerPost(p.id)
      BY <2>5, <2>6, <2>7 DEF Shown
    <2>9. Contains(table, p.id)
      BY <2>1, <2>8 DEF Contains, Range, ServerType
    <2> QED
      BY <2>8, <2>9
  <1> QED
    BY <1>1, CauseSpec, PTL

\* A post is listed twice only with a cause: a delete that fails puts its post
\* back once, wherever the list has moved to, and a create, a page or a reload
\* lists what the list does not have (post-store.ts).
THEOREM DuplicateHasCauseHolds == Spec => []DuplicateHasCause
  <1>1. CauseInv => DuplicateHasCause
    <2> SUFFICES ASSUME CauseInv, NEW i \in Ids, i \notin excused
                 PROVE  ~(Cardinality(Places(i)) > 1)
      BY DEF DuplicateHasCause
    <2>1. \A j, k \in Places(i) : j = k
      BY DEF CauseInv, Settled, Once
    <2>2. CASE Places(i) = {}
      BY <2>2, FS_EmptySet
    <2>3. CASE Places(i) # {}
      <3>1. PICK k : Places(i) = {k}
        BY <2>1, <2>3
      <3>2. Cardinality(Places(i)) = 1
        BY <3>1, FS_Singleton
      <3> QED
        BY <3>2
    <2> QED
      BY <2>2, <2>3
  <1> QED
    BY <1>1, CauseSpec, PTL
=============================================================================
