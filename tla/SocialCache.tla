---------------------------- MODULE SocialCache ----------------------------
(***************************************************************************)
(* The post handlers of CrownServer (backend/src/server/server.cpp) over   *)
(* the database and the Redis cache of backend/src/cache/cache.h.          *)
(*                                                                         *)
(* Handlers run concurrently on the threads of the gRPC server.  A read    *)
(* looks its key up, queries the database on a miss and fills the cache; a *)
(* write commits in the database and then deletes the keys it knows of,    *)
(* one after the other.  Every call to the database or to Redis is a step  *)
(* of its own.  A database call may be refused, or take effect while its   *)
(* answer is lost (Client returns "" or -100 after a timeout).  An entry   *)
(* may expire at any moment after it was set (SETEX).                      *)
(*                                                                         *)
(* A row is reduced to what the handlers' answers can differ in: its post, *)
(* its likes_count and is_liked_by_me.  A list has one page; invalidation  *)
(* deletes all pages of a list together (del_pattern).  toggle_like is one *)
(* step here; LikeToggle opens it up.                                      *)
(***************************************************************************)
EXTENDS Integers, Sequences, FiniteSets

CONSTANTS
    Users, Posts, Handlers,
    Author,         \* author_id of each post that may be created
    NoUser,         \* no authenticated user, ""
    Nothing,        \* no cache entry, no value
    Outcomes,       \* of a database call: subset of {"ok", "refused", "lost"}
    CacheFaults,    \* may a Redis command fail?
    MaxWrites       \* bound on the writes of a behaviour

ASSUME CacheAssumption ==
    /\ IsFiniteSet(Users) /\ IsFiniteSet(Posts)
    /\ Author \in [Posts -> Users]
    /\ NoUser \notin Users
    /\ "ok" \in Outcomes /\ Outcomes \subseteq {"ok", "refused", "lost"}
    /\ CacheFaults \in BOOLEAN
    /\ MaxWrites \in Nat

VARIABLES
    live,       \* posts in the database
    created,    \* post ids handed out so far (generateSecId never repeats)
    likers,     \* rows of likes, per post
    cache,      \* Redis: a value or Nothing for each key
    pc,         \* what a handler does next
    user,       \* the authenticated user of the handler's call
    key,        \* reads: the cache key
    val,        \* reads: what the database answered
    post,       \* DeletePost: the post id
    todo,       \* writes: keys still to be deleted from the cache
    writes,     \* number of committed writes, for MaxWrites
    excused     \* keys whose entry may be stale, see StaleHasCause

vars == <<live, created, likers, cache, pc, user, key, val, post, todo, writes, excused>>

PostKey(p) == <<"post", p>>
FeedKey == <<"feed", NoUser>>
UserPostsKey(u) == <<"uposts", u>>
PostCountKey(u) == <<"pcount", u>>

PostKeys == {PostKey(p) : p \in Posts}
UserPostsKeys == {UserPostsKey(u) : u \in Users}
PostCountKeys == {PostCountKey(u) : u \in Users}
Keys == PostKeys \cup {FeedKey} \cup UserPostsKeys \cup PostCountKeys

\* Nothing stands for no key.
ASSUME NothingAssumption == Nothing \notin Keys

\* The server starts over any database, with an empty cache.
Init ==
    /\ live \in SUBSET Posts /\ created = live
    /\ likers \in {l \in [Posts -> SUBSET Users] : \A p \in Posts \ live : l[p] = {}}
    /\ cache = [k \in Keys |-> Nothing]
    /\ pc = [h \in Handlers |-> "idle"]
    /\ user = [h \in Handlers |-> NoUser]
    /\ key = [h \in Handlers |-> Nothing]
    /\ val = [h \in Handlers |-> Nothing]
    /\ post = [h \in Handlers |-> Nothing]
    /\ todo = [h \in Handlers |-> <<>>]
    /\ writes = 0
    /\ excused = {}

-----------------------------------------------------------------------------
(* What the database answers.                                              *)

\* A row of get_post, get_feed and get_user_posts.
RowOf(p, viewer) ==
    [post |-> p, likes |-> Cardinality(likers[p]), mine |-> viewer \in likers[p]]

\* A cached number; a set, as the cached lists are.
Count(n) == {[count |-> n]}

\* Mutant of FailedCount: the error code is cached as a count.
MutFailedCount == Count(-100)

\* CountUserPosts after count() failed with a negative code.
FailedCount == Count(0)

\* get_post, get_feed, get_user_posts and count(*), by the key they fill;
\* a missing post answers null.
DbValue(k, viewer) ==
    CASE k[1] = "post"   -> IF k[2] \in live THEN {RowOf(k[2], viewer)} ELSE Nothing
      [] k[1] = "feed"   -> {RowOf(p, viewer) : p \in live}
      [] k[1] = "uposts" -> {RowOf(p, viewer) : p \in {q \in live : Author[q] = k[2]}}
      [] k[1] = "pcount" -> Count(Cardinality({p \in live : Author[p] = k[2]}))

\* The part of a value that is the same for every viewer.
Shared(k, v) ==
    IF v = Nothing \/ k[1] = "pcount" THEN v
    ELSE {[post |-> r.post, likes |-> r.likes] : r \in v}

\* The entry of k differs from what the database would answer now.
Stale(k) == cache[k] # Nothing /\ Shared(k, cache[k]) # Shared(k, DbValue(k, NoUser))

Goto(h, s) == pc' = [pc EXCEPT ![h] = s]

\* The read returns.
Return(h) ==
    /\ Goto(h, "idle")
    /\ user' = [user EXCEPT ![h] = NoUser]
    /\ key' = [key EXCEPT ![h] = Nothing]

-----------------------------------------------------------------------------
(* GetPost, ListFeed, ListUserPosts, CountUserPosts: one read path.        *)

\* The read of key k on behalf of u goes on.
Continue(h, u, k, s) ==
    /\ Goto(h, s)
    /\ user' = [user EXCEPT ![h] = u]
    /\ key' = [key EXCEPT ![h] = k]

\* A read begins.  A failed GET is a miss, be there an entry or not.  A hit is
\* the answer, except that CountUserPosts reads a hit a second time.
Lookup(h, u, k) ==
    /\ pc[h] = "idle"
    /\ \/ (cache[k] = Nothing \/ CacheFaults) /\ Continue(h, u, k, "query")
       \/ cache[k] # Nothing /\ k \in PostCountKeys /\ Continue(h, u, k, "reread")
       \/ cache[k] # Nothing /\ k \notin PostCountKeys /\ UNCHANGED <<pc, user, key>>
    /\ UNCHANGED <<live, created, likers, cache, val, post, todo, writes, excused>>

\* A public method, which the interceptor lets pass without a user.
GetPost(h, p) == Lookup(h, NoUser, PostKey(p))

ListFeed(h, u) == Lookup(h, u, FeedKey)

\* u looks at the posts of a.
ListUserPosts(h, u, a) == Lookup(h, u, UserPostsKey(a))

\* Login counts the posts of the user who logs in.
CountUserPosts(h, u) == Lookup(h, u, PostCountKey(u))

\* get_int of CountUserPosts, which answers 0 when the entry went since
\* get_json.
Reread(h) ==
    /\ pc[h] = "reread"
    /\ Return(h)
    /\ UNCHANGED <<live, created, likers, cache, val, post, todo, writes, excused>>

\* The query.  A failed list answers an empty list and a failed or empty
\* get_post NOT_FOUND, both uncached; a failed count is taken for 0.
Query(h) ==
    /\ pc[h] = "query"
    /\ \E o \in Outcomes :
         LET k == key[h]
             v == IF o = "ok" THEN DbValue(k, user[h])
                  ELSE IF k \in PostCountKeys THEN FailedCount ELSE Nothing
         IN  IF v = Nothing THEN Return(h) /\ UNCHANGED val
             ELSE Goto(h, "fill") /\ val' = [val EXCEPT ![h] = v] /\ UNCHANGED <<user, key>>
    /\ UNCHANGED <<live, created, likers, cache, post, todo, writes, excused>>

\* set_json with the key's TTL, then the answer.  The entry is excused when
\* its value was overtaken by a write since the query, or came from a
\* failed count.
Fill(h) ==
    /\ pc[h] = "fill"
    /\ LET k == key[h] IN
         \/ /\ cache' = [cache EXCEPT ![k] = val[h]]
            /\ excused' = IF Shared(k, val[h]) # Shared(k, DbValue(k, NoUser))
                          THEN excused \cup {k} ELSE excused \ {k}
         \/ CacheFaults /\ UNCHANGED <<cache, excused>>
    /\ Return(h)
    /\ val' = [val EXCEPT ![h] = Nothing]
    /\ UNCHANGED <<live, created, likers, post, todo, writes>>

-----------------------------------------------------------------------------
(* CreatePost, DeletePost, ToggleLike.                                     *)

\* The handler goes on after a write: the keys to delete when the database
\* confirmed it, an INTERNAL answer when it did not.  A write that took
\* effect without being confirmed leaves the entries of its keys behind, and
\* any write that took effect leaves the entry it has no invalidation for.
AfterWrite(h, o, ks, forgotten) ==
    /\ IF o = "ok"
       THEN Goto(h, "invalidate") /\ todo' = [todo EXCEPT ![h] = ks]
       ELSE Goto(h, "idle") /\ UNCHANGED todo
    /\ excused' = CASE o = "ok" -> excused \cup {forgotten}
                    [] o = "lost" -> excused \cup {forgotten} \cup {ks[i] : i \in DOMAIN ks}
                    [] OTHER -> excused
    /\ writes' = writes + 1

\* The keys CreatePost deletes.
CreateKeys(u) == <<FeedKey, PostCountKey(u)>>

\* insert_return; an empty answer is reported as "nao foi postado o post".
CreatePost(h, p) ==
    /\ pc[h] = "idle" /\ writes < MaxWrites
    /\ p \in Posts \ created
    /\ \E o \in Outcomes :
         /\ live' = IF o = "refused" THEN live ELSE live \cup {p}
         /\ created' = created \cup {p}
         /\ AfterWrite(h, o, CreateKeys(Author[p]), UserPostsKey(Author[p]))
    /\ UNCHANGED <<likers, cache, user, key, val, post>>

\* The select of id, author_id and image_url with its early returns.
DeleteSelect(h, u, p) ==
    /\ pc[h] = "idle" /\ writes < MaxWrites
    /\ p \in live /\ Author[p] = u
    /\ Goto(h, "delete")
    /\ post' = [post EXCEPT ![h] = p]
    /\ UNCHANGED <<live, created, likers, cache, user, key, val, todo, writes, excused>>

\* Mutant of DeleteKeys: the post's own entry is forgotten.
MutDeleteKeys(p) == <<FeedKey, UserPostsKey(Author[p])>>

\* The keys DeletePost deletes.
DeleteKeys(p) == <<PostKey(p), FeedKey, UserPostsKey(Author[p])>>

\* The delete, which cascades to the likes; deleting nothing is a success.
DeleteExecute(h) ==
    /\ pc[h] = "delete"
    /\ LET p == post[h] IN \E o \in Outcomes :
         /\ live' = IF o = "refused" THEN live ELSE live \ {p}
         /\ likers' = IF o = "refused" THEN likers ELSE [likers EXCEPT ![p] = {}]
         /\ AfterWrite(h, o, DeleteKeys(p), PostCountKey(Author[p]))
    /\ post' = [post EXCEPT ![h] = Nothing]
    /\ UNCHANGED <<created, cache, user, key, val>>

\* Mutant of LikeKeys: the lists are forgotten.
MutLikeKeys(p) == <<PostKey(p)>>

\* The keys ToggleLike deletes (and like:user:post, which nothing sets).
LikeKeys(p) == <<PostKey(p), FeedKey>>

\* rpc toggle_like; a missing post violates the foreign key.
ToggleLike(h, u, p) ==
    /\ pc[h] = "idle" /\ writes < MaxWrites
    /\ p \in live
    /\ \E o \in Outcomes :
         /\ likers' = IF o = "refused" THEN likers
                      ELSE [likers EXCEPT ![p] = IF u \in @ THEN @ \ {u} ELSE @ \cup {u}]
         /\ AfterWrite(h, o, LikeKeys(p), UserPostsKey(Author[p]))
    /\ UNCHANGED <<live, created, cache, user, key, val, post>>

\* The next invalidate_*: DEL of one key, or of all keys of a pattern.  Its
\* result is ignored.
Invalidate(h) ==
    /\ pc[h] = "invalidate"
    /\ LET k == Head(todo[h]) IN
         \/ cache' = [cache EXCEPT ![k] = Nothing] /\ excused' = excused \ {k}
         \/ CacheFaults /\ excused' = excused \cup {k} /\ UNCHANGED cache
    /\ todo' = [todo EXCEPT ![h] = Tail(@)]
    /\ Goto(h, IF Len(todo[h]) = 1 THEN "idle" ELSE "invalidate")
    /\ UNCHANGED <<live, created, likers, user, key, val, post, writes>>

\* Mutant of Expire: entries are set without a TTL.
MutExpire(k) == FALSE /\ UNCHANGED vars

\* The TTL of an entry runs out.
Expire(k) ==
    /\ cache[k] # Nothing
    /\ cache' = [cache EXCEPT ![k] = Nothing]
    /\ excused' = excused \ {k}
    /\ UNCHANGED <<live, created, likers, pc, user, key, val, post, todo, writes>>

Step(h) == Reread(h) \/ Query(h) \/ Fill(h) \/ DeleteExecute(h) \/ Invalidate(h)

Next ==
    \/ \E h \in Handlers :
         \/ Step(h)
         \/ \E p \in Posts : GetPost(h, p) \/ CreatePost(h, p)
         \/ \E u \in Users : ListFeed(h, u) \/ CountUserPosts(h, u)
         \/ \E u, a \in Users : ListUserPosts(h, u, a)
         \/ \E u \in Users, p \in Posts : DeleteSelect(h, u, p) \/ ToggleLike(h, u, p)
    \/ \E k \in Keys : Expire(k)

\* A handler that has begun runs to its return; Redis expires every entry.
Fairness ==
    /\ \A h \in Handlers : WF_vars(Step(h))
    /\ \A k \in Keys : WF_vars(Expire(k))

Spec == Init /\ [][Next]_vars /\ Fairness

-----------------------------------------------------------------------------
Rows == [post : Posts, likes : 0..Cardinality(Users), mine : BOOLEAN]

\* The state keeps its types: an entry of the cache is of the kind its key says.
TypeOK ==
    /\ live \subseteq created /\ created \subseteq Posts
    /\ likers \in [Posts -> SUBSET Users]
    /\ \A k \in Keys : \/ cache[k] = Nothing
                       \/ k \in PostCountKeys /\ \E n \in 0..Cardinality(Posts) : cache[k] = Count(n)
                       \/ k \notin PostCountKeys /\ cache[k] \subseteq Rows
    /\ pc \in [Handlers -> {"idle", "reread", "query", "fill", "delete", "invalidate"}]
    /\ \A h \in Handlers : pc[h] \in {"reread", "query", "fill"} <=> key[h] \in Keys
    /\ \A h \in Handlers : todo[h] # <<>> <=> pc[h] = "invalidate"

\* An entry is stale only for a reason: a confirmed write has not reached its
\* invalidation yet, or the entry was filled from a query a write overtook or
\* a count that failed, or a write took effect unconfirmed, or a Redis command
\* failed, or a write has no invalidation for it: CreatePost and ToggleLike
\* forget the author's list, DeletePost the author's number of posts.  Nothing
\* else leaves a stale entry behind, in any interleaving.
StaleHasCause ==
    \A k \in Keys : Stale(k) =>
        \/ k \in excused
        \/ \E h \in Handlers : \E i \in DOMAIN todo[h] : todo[h][i] = k

\* When the writes stop, staleness ends: from some point on every cached
\* post and list is what the database holds, whatever races, lost answers
\* and failed Redis commands there were.
Settles == <>[](\A k \in Keys \ PostCountKeys : ~Stale(k))

\* Whoever asks for the feed is answered is_liked_by_me as it is for them:
\* a cached feed that is otherwise up to date has every user's own flags.
LikedByMe ==
    \A u \in Users : cache[FeedKey] # Nothing /\ ~Stale(FeedKey) =>
        cache[FeedKey] = DbValue(FeedKey, u)
=============================================================================
