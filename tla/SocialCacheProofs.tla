-------------------------- MODULE SocialCacheProofs --------------------------
(***************************************************************************)
(* Proofs about SocialCache for any finite sets of users and posts and any *)
(* handlers.                                                               *)
(***************************************************************************)
EXTENDS SocialCache, FiniteSetTheorems, TLAPS

\* A value fits its key.
Fits(k, v) ==
    IF k \in PostCountKeys THEN \E n \in 0 .. Cardinality(Posts) : v = Count(n) ELSE v \subseteq Rows

\* The types of all variables, and of the locals where they are used.
CacheType ==
    /\ live \subseteq created /\ created \subseteq Posts
    /\ likers \in [Posts -> SUBSET Users]
    /\ cache = [k \in Keys |-> cache[k]]
    /\ \A k \in Keys : cache[k] = Nothing \/ Fits(k, cache[k])
    /\ pc \in [Handlers -> {"idle", "reread", "query", "fill", "delete", "invalidate"}]
    /\ key = [h \in Handlers |-> key[h]] /\ val = [h \in Handlers |-> val[h]]
    /\ post = [h \in Handlers |-> post[h]]
    /\ todo \in [Handlers -> Seq(Keys)]
    /\ \A h \in Handlers : pc[h] \in {"reread", "query", "fill"} <=> key[h] \in Keys
    /\ \A h \in Handlers : pc[h] = "fill" => Fits(key[h], val[h])
    /\ \A h \in Handlers : pc[h] = "delete" => post[h] \in Posts
    /\ \A h \in Handlers : todo[h] # <<>> <=> pc[h] = "invalidate"

\* Nobody has read a post that was not created yet.
OnlyCreated ==
    \A p \in Posts \ created :
        /\ cache[PostKey(p)] = Nothing
        /\ \A h \in Handlers : ~(pc[h] = "fill" /\ key[h] = PostKey(p))

Inv == CacheType /\ OnlyCreated /\ StaleHasCause

\* What every viewer is answered for a key, and is the key to be deleted?
Seen(k) == Shared(k, DbValue(k, NoUser))
Awaited(k) == \E h \in Handlers : \E i \in DOMAIN todo[h] : todo[h][i] = k

-----------------------------------------------------------------------------
(* Keys and values.                                                        *)

LEMMA KeysApart ==
    /\ \A p \in Posts : PostKey(p) \in Keys /\ PostKey(p)[1] = "post" /\ PostKey(p)[2] = p
    /\ FeedKey \in Keys /\ FeedKey[1] = "feed"
    /\ \A u \in Users : UserPostsKey(u) \in Keys /\ UserPostsKey(u)[1] = "uposts" /\ UserPostsKey(u)[2] = u
    /\ \A u \in Users : PostCountKey(u) \in Keys /\ PostCountKey(u)[1] = "pcount" /\ PostCountKey(u)[2] = u
    /\ \A k \in Keys : k \in PostCountKeys <=> k[1] = "pcount"
  BY DEF Keys, PostKeys, UserPostsKeys, PostCountKeys, PostKey, FeedKey, UserPostsKey, PostCountKey

LEMMA KeyKinds ==
    ASSUME NEW k \in Keys
    PROVE  \/ \E p \in Posts : k = PostKey(p)
           \/ k = FeedKey
           \/ \E u \in Users : k = UserPostsKey(u)
           \/ \E u \in Users : k = PostCountKey(u)
  BY DEF Keys, PostKeys, UserPostsKeys, PostCountKeys

\* What the database answers, key by key.
LEMMA DbPost == \A p, u : DbValue(PostKey(p), u) = IF p \in live THEN {RowOf(p, u)} ELSE Nothing
  BY DEF DbValue, PostKey

LEMMA DbFeed == \A u : DbValue(FeedKey, u) = {RowOf(p, u) : p \in live}
  BY DEF DbValue, FeedKey

LEMMA DbUserPosts ==
    \A a, u : DbValue(UserPostsKey(a), u) = {RowOf(p, u) : p \in {q \in live : Author[q] = a}}
  BY DEF DbValue, UserPostsKey

LEMMA DbCount == \A a, u : DbValue(PostCountKey(a), u) = Count(Cardinality({p \in live : Author[p] = a}))
  BY DEF DbValue, PostCountKey

\* A number of posts is at most that of all posts, of likes that of all users.
LEMMA PostsCounted ==
    ASSUME NEW S \in SUBSET Posts
    PROVE  Cardinality(S) \in 0 .. Cardinality(Posts)
  BY CacheAssumption, FS_Subset, FS_CardinalityType

LEMMA RowTyped ==
    ASSUME likers \in [Posts -> SUBSET Users], NEW p \in Posts, NEW u
    PROVE  RowOf(p, u) \in Rows
  <1>1. Cardinality(likers[p]) \in 0 .. Cardinality(Users)
    BY CacheAssumption, FS_Subset, FS_CardinalityType
  <1>2. (u \in likers[p]) \in BOOLEAN
    OBVIOUS
  <1> QED
    BY <1>1, <1>2 DEF RowOf, Rows

\* Every answer of the database fits the key it is asked for.
LEMMA AnswerFits ==
    ASSUME CacheType, NEW k \in Keys, NEW u
    PROVE  DbValue(k, u) = Nothing \/ Fits(k, DbValue(k, u))
  <1>0. live \subseteq Posts /\ likers \in [Posts -> SUBSET Users]
    BY DEF CacheType
  <1>1. ASSUME NEW p \in Posts, k = PostKey(p) PROVE DbValue(k, u) = Nothing \/ Fits(k, DbValue(k, u))
    BY <1>0, <1>1, DbPost, RowTyped, KeysApart DEF Fits
  <1>2. CASE k = FeedKey
    BY <1>0, <1>2, DbFeed, RowTyped, KeysApart DEF Fits
  <1>3. ASSUME NEW a \in Users, k = UserPostsKey(a) PROVE Fits(k, DbValue(k, u))
    <2>1. \A p \in {q \in live : Author[q] = a} : RowOf(p, u) \in Rows
      BY <1>0, RowTyped
    <2>2. k \in Keys /\ k \notin PostCountKeys
      BY <1>3, KeysApart
    <2> QED
      BY <1>3, <2>1, <2>2, DbUserPosts DEF Fits
  <1>4. ASSUME NEW a \in Users, k = PostCountKey(a) PROVE Fits(k, DbValue(k, u))
    <2>1. {p \in live : Author[p] = a} \in SUBSET Posts
      BY <1>0
    <2>2. Cardinality({p \in live : Author[p] = a}) \in 0 .. Cardinality(Posts)
      BY <2>1, PostsCounted
    <2>3. k \in PostCountKeys
      BY <1>4, KeysApart
    <2> QED
      BY <1>4, <2>2, <2>3, DbCount DEF Fits
  <1> QED
    BY <1>1, <1>2, <1>3, <1>4, KeyKinds

\* A change of one post shows only in its own entry, the feed, and the list
\* and the number of its author's posts; a like does not show in the number.
LEMMA SeenStep ==
    ASSUME NEW p \in Posts, live' \ {p} = live \ {p},
           \A q \in live \ {p} : likers'[q] = likers[q],
           NEW k \in Keys \ {PostKey(p), FeedKey, UserPostsKey(Author[p])},
           k # PostCountKey(Author[p]) \/ live' = live
    PROVE  Seen(k)' = Seen(k)
  <1>0. \A q \in live \ {p} : RowOf(q, NoUser)' = RowOf(q, NoUser)
    BY DEF RowOf
  <1>1. ASSUME NEW q \in Posts, k = PostKey(q) PROVE DbValue(k, NoUser)' = DbValue(k, NoUser)
    <2>1. q # p
      BY <1>1
    <2>2. DbValue(PostKey(q), NoUser)' = IF q \in live' THEN {RowOf(q, NoUser)'} ELSE Nothing
      BY DEF DbValue, PostKey
    <2>3. q \in live' <=> q \in live
      BY <2>1
    <2> QED
      BY <1>0, <1>1, <2>1, <2>2, <2>3, DbPost
  <1>2. ASSUME NEW a \in Users, k = UserPostsKey(a) PROVE DbValue(k, NoUser)' = DbValue(k, NoUser)
    <2>1. a # Author[p]
      BY <1>2
    <2>2. DbValue(UserPostsKey(a), NoUser)' = {RowOf(q, NoUser)' : q \in {r \in live' : Author[r] = a}}
      BY DEF DbValue, UserPostsKey
    <2>3. {r \in live' : Author[r] = a} = {r \in live : Author[r] = a}
      BY <2>1
    <2>4. \A q \in {r \in live : Author[r] = a} : RowOf(q, NoUser)' = RowOf(q, NoUser)
      BY <1>0, <2>1
    <2>5. {RowOf(q, NoUser)' : q \in {r \in live : Author[r] = a}}
            = {RowOf(q, NoUser) : q \in {r \in live : Author[r] = a}}
      BY <2>4
    <2> QED
      BY <1>2, <2>2, <2>3, <2>5, DbUserPosts
  <1>3. ASSUME NEW a \in Users, k = PostCountKey(a) PROVE DbValue(k, NoUser)' = DbValue(k, NoUser)
    <2>1. DbValue(PostCountKey(a), NoUser)' = Count(Cardinality({q \in live' : Author[q] = a}))
      BY DEF DbValue, PostCountKey
    <2>2. {q \in live' : Author[q] = a} = {q \in live : Author[q] = a}
      BY <1>3
    <2> QED
      BY <1>3, <2>1, <2>2, DbCount
  <1>4. DbValue(k, NoUser)' = DbValue(k, NoUser)
    BY <1>1, <1>2, <1>3, KeyKinds
  <1> QED
    BY <1>4 DEF Seen, Shared

LEMMA SeenSame == ASSUME live' = live, likers' = likers, NEW k PROVE Seen(k)' = Seen(k)
  BY DEF Seen, Shared, DbValue, RowOf

\* A step keeps StaleHasCause if every entry is excused, awaits its deletion,
\* is absent or up to date afterwards, or is as it was.
LEMMA CauseStep ==
    ASSUME StaleHasCause,
           \A k \in Keys :
             \/ k \in excused' \/ Awaited(k)' \/ cache'[k] = Nothing
             \/ Shared(k, cache'[k]) = Seen(k)'
             \/ /\ cache'[k] = cache[k] /\ Seen(k)' = Seen(k)
                /\ k \in excused => k \in excused'
                /\ Awaited(k) => Awaited(k)'
    PROVE  StaleHasCause'
  <1> SUFFICES ASSUME NEW k \in Keys, Stale(k)' PROVE k \in excused' \/ Awaited(k)'
    BY DEF StaleHasCause, Awaited
  <1>1. cache'[k] # Nothing /\ Shared(k, cache'[k]) # Seen(k)'
    BY DEF Stale, Seen, Shared
  <1>2. ASSUME cache'[k] = cache[k], Seen(k)' = Seen(k)
        PROVE  k \in excused \/ Awaited(k)
    <2>1. Stale(k)
      BY <1>1, <1>2 DEF Stale, Seen
    <2> QED
      BY <2>1 DEF StaleHasCause, Awaited
  <1> QED
    BY <1>1, <1>2

LEMMA InitInv == Init => Inv
  <1> SUFFICES ASSUME Init PROVE Inv
    OBVIOUS
  <1>1. CacheType
    BY NothingAssumption DEF Init, CacheType
  <1>2. OnlyCreated
    BY KeysApart DEF Init, OnlyCreated
  <1>3. StaleHasCause
    BY DEF Init, StaleHasCause, Stale
  <1> QED
    BY <1>1, <1>2, <1>3 DEF Inv

-----------------------------------------------------------------------------
(* The reads.                                                              *)

\* A step that only moves one handler along the read path.
LEMMA ReadStep ==
    ASSUME Inv, NEW h \in Handlers, UNCHANGED <<live, created, likers, cache, post, todo, excused>>,
           pc' = [pc EXCEPT ![h] = pc'[h]], key' = [key EXCEPT ![h] = key'[h]],
           val' = [val EXCEPT ![h] = val'[h]],
           pc[h] # "invalidate", pc'[h] \in {"idle", "reread", "query", "fill"},
           pc'[h] # "idle" <=> key'[h] \in Keys,
           pc'[h] = "fill" => /\ Fits(key'[h], val'[h])
                              /\ \A p \in Posts \ created : key'[h] # PostKey(p)
    PROVE  Inv'
  <1>1. \A g \in Handlers : g # h => pc'[g] = pc[g] /\ key'[g] = key[g] /\ val'[g] = val[g]
    BY DEF Inv, CacheType
  <1>2. pc' \in [Handlers -> {"idle", "reread", "query", "fill", "delete", "invalidate"}]
    BY DEF Inv, CacheType
  <1>3. key' = [g \in Handlers |-> key'[g]] /\ val' = [g \in Handlers |-> val'[g]]
    BY DEF Inv, CacheType
  <1>4. /\ \A g \in Handlers : pc'[g] \in {"reread", "query", "fill"} <=> key'[g] \in Keys
        /\ \A g \in Handlers : pc'[g] = "delete" => post[g] \in Posts
        /\ \A g \in Handlers : todo[g] # <<>> <=> pc'[g] = "invalidate"
    BY <1>1 DEF Inv, CacheType
  <1>5. \A g \in Handlers : pc'[g] = "fill" => Fits(key'[g], val'[g])
    BY <1>1 DEF Inv, CacheType
  <1>6. CacheType'
    BY <1>2, <1>3, <1>4, <1>5 DEF Inv, CacheType, Fits
  <1>7. OnlyCreated'
    BY <1>1 DEF Inv, OnlyCreated
  <1>8. StaleHasCause'
    BY SeenSame, CauseStep DEF Inv, Awaited
  <1> QED
    BY <1>6, <1>7, <1>8 DEF Inv

LEMMA LookupInv == ASSUME Inv, NEW h \in Handlers, NEW u, NEW k \in Keys, Lookup(h, u, k) PROVE Inv'
  <1>0. pc \in [Handlers -> {"idle", "reread", "query", "fill", "delete", "invalidate"}]
        /\ key = [g \in Handlers |-> key[g]] /\ val = [g \in Handlers |-> val[g]]
        /\ (pc[h] \in {"reread", "query", "fill"} <=> key[h] \in Keys)
    BY DEF Inv, CacheType
  <1>1. /\ UNCHANGED <<live, created, likers, cache, post, todo, excused, val>> /\ pc[h] = "idle"
        /\ pc' = [pc EXCEPT ![h] = pc'[h]] /\ key' = [key EXCEPT ![h] = key'[h]]
        /\ val' = [val EXCEPT ![h] = val'[h]]
        /\ \/ pc'[h] \in {"query", "reread"} /\ key'[h] = k
           \/ pc'[h] = "idle" /\ key'[h] = key[h]
    <2>1. UNCHANGED <<live, created, likers, cache, post, todo, excused, val>> /\ pc[h] = "idle"
      BY DEF Lookup
    <2>2. CASE Continue(h, u, k, "query") \/ Continue(h, u, k, "reread")
      BY <1>0, <2>1, <2>2 DEF Continue, Goto
    <2>3. CASE UNCHANGED <<pc, user, key>>
      BY <1>0, <2>1, <2>3
    <2> QED
      BY <2>2, <2>3 DEF Lookup
  <1> QED
    BY <1>0, <1>1, ReadStep

LEMMA RereadInv == ASSUME Inv, NEW h \in Handlers, Reread(h) PROVE Inv'
  <1>1. /\ UNCHANGED <<live, created, likers, cache, post, todo, excused>> /\ pc[h] = "reread"
        /\ pc' = [pc EXCEPT ![h] = pc'[h]] /\ key' = [key EXCEPT ![h] = key'[h]]
        /\ val' = [val EXCEPT ![h] = val'[h]] /\ pc'[h] = "idle" /\ key'[h] = Nothing
    BY DEF Reread, Return, Goto, Inv, CacheType
  <1> QED
    BY <1>1, ReadStep, NothingAssumption

LEMMA QueryInv == ASSUME Inv, NEW h \in Handlers, Query(h) PROVE Inv'
  <1>0. /\ key[h] \in Keys /\ pc[h] = "query"
        /\ pc \in [Handlers -> {"idle", "reread", "query", "fill", "delete", "invalidate"}]
        /\ key = [g \in Handlers |-> key[g]] /\ val = [g \in Handlers |-> val[g]]
    BY DEF Query, Inv, CacheType
  <1>1. UNCHANGED <<live, created, likers, cache, post, todo, excused>>
    BY DEF Query
  <1>2. PICK o \in Outcomes :
          LET v == IF o = "ok" THEN DbValue(key[h], user[h])
                   ELSE IF key[h] \in PostCountKeys THEN FailedCount ELSE Nothing
          IN  IF v = Nothing THEN Return(h) /\ UNCHANGED val
              ELSE Goto(h, "fill") /\ val' = [val EXCEPT ![h] = v] /\ UNCHANGED <<user, key>>
    BY DEF Query
  <1> DEFINE v == IF o = "ok" THEN DbValue(key[h], user[h])
                  ELSE IF key[h] \in PostCountKeys THEN FailedCount ELSE Nothing
  <1>3. v = Nothing \/ Fits(key[h], v)
    <2>1. CASE o = "ok"
      BY <1>0, <2>1, AnswerFits DEF Inv
    <2>2. CASE o # "ok" /\ key[h] \in PostCountKeys
      <3>1. 0 \in 0 .. Cardinality(Posts)
        BY CacheAssumption, FS_CardinalityType
      <3> QED
        BY <2>2, <3>1 DEF Fits, FailedCount
    <2> QED
      BY <2>1, <2>2
  <1>4. ASSUME v # Nothing, NEW p \in Posts \ created PROVE key[h] # PostKey(p)
    <2> SUFFICES ASSUME key[h] = PostKey(p) PROVE FALSE
      OBVIOUS
    <2>1. p \notin live
      BY DEF Inv, CacheType
    <2>2. DbValue(key[h], user[h]) = Nothing /\ key[h] \notin PostCountKeys
      BY <2>1, DbPost, KeysApart
    <2> QED
      BY <1>4, <2>2
  <1>5. CASE v = Nothing
    <2>1. /\ pc' = [pc EXCEPT ![h] = pc'[h]] /\ key' = [key EXCEPT ![h] = key'[h]]
          /\ val' = [val EXCEPT ![h] = val'[h]] /\ pc'[h] = "idle" /\ key'[h] = Nothing
      BY <1>0, <1>2, <1>5 DEF Return, Goto
    <2> QED
      BY <1>0, <1>1, <2>1, ReadStep, NothingAssumption
  <1>6. CASE v # Nothing
    <2>1. /\ pc' = [pc EXCEPT ![h] = pc'[h]] /\ key' = [key EXCEPT ![h] = key'[h]]
          /\ val' = [val EXCEPT ![h] = val'[h]] /\ pc'[h] = "fill" /\ key'[h] = key[h] /\ val'[h] = v
      BY <1>0, <1>2, <1>6 DEF Goto
    <2> QED
      BY <1>0, <1>1, <1>3, <1>4, <1>6, <2>1, ReadStep
  <1> QED
    BY <1>5, <1>6

\* The entry of a fill is up to date or excused.
LEMMA FillInv == ASSUME Inv, NEW h \in Handlers, Fill(h) PROVE Inv'
  <1>0. /\ key[h] \in Keys /\ pc[h] = "fill" /\ Fits(key[h], val[h])
        /\ \A p \in Posts \ created : key[h] # PostKey(p)
    BY DEF Fill, Inv, CacheType, OnlyCreated
  <1> PICK k \in Keys : k = key[h]
    BY <1>0
  <1>1. UNCHANGED <<live, created, likers, post, todo>>
    BY DEF Fill
  <1>2. /\ pc'[h] = "idle" /\ key'[h] = Nothing
        /\ pc' \in [Handlers -> {"idle", "reread", "query", "fill", "delete", "invalidate"}]
        /\ key' = [g \in Handlers |-> key'[g]] /\ val' = [g \in Handlers |-> val'[g]]
        /\ \A g \in Handlers : g # h => pc'[g] = pc[g] /\ key'[g] = key[g] /\ val'[g] = val[g]
    BY DEF Fill, Return, Goto, Inv, CacheType
  <1>3. /\ cache' = [c \in Keys |-> cache'[c]]
        /\ \A c \in Keys : c # k => cache'[c] = cache[c] /\ (c \in excused => c \in excused')
        /\ \/ cache'[k] = val[h] /\ (k \in excused' \/ Shared(k, val[h]) = Seen(k))
           \/ cache'[k] = cache[k] /\ excused' = excused
    BY <1>0 DEF Fill, Inv, CacheType, Seen
  <1>4. CacheType'
    <2>1. \A c \in Keys : cache'[c] = Nothing \/ Fits(c, cache'[c])
      BY <1>0, <1>3 DEF Inv, CacheType
    <2>2. \A g \in Handlers : pc'[g] = "fill" => Fits(key'[g], val'[g])
      BY <1>2 DEF Inv, CacheType
    <2>3. /\ \A g \in Handlers : pc'[g] \in {"reread", "query", "fill"} <=> key'[g] \in Keys
          /\ \A g \in Handlers : pc'[g] = "delete" => post[g] \in Posts
          /\ \A g \in Handlers : todo[g] # <<>> <=> pc'[g] = "invalidate"
      BY <1>0, <1>2, NothingAssumption DEF Inv, CacheType
    <2> QED
      BY <1>1, <1>2, <1>3, <2>1, <2>2, <2>3 DEF Inv, CacheType, Fits
  <1>5. OnlyCreated'
    BY <1>0, <1>1, <1>2, <1>3, KeysApart DEF Inv, OnlyCreated
  <1>6. StaleHasCause'
    <2>1. \A c \in Keys : Seen(c)' = Seen(c)
      BY <1>1, SeenSame
    <2>2. \A c \in Keys : Awaited(c) => Awaited(c)'
      BY <1>1 DEF Awaited
    <2>3. ASSUME NEW c \in Keys
          PROVE  \/ c \in excused' \/ Shared(c, cache'[c]) = Seen(c)'
                 \/ cache'[c] = cache[c] /\ (c \in excused => c \in excused')
      BY <1>3, <2>1
    <2> QED
      BY <2>1, <2>2, <2>3, CauseStep DEF Inv
  <1> QED
    BY <1>4, <1>5, <1>6 DEF Inv

-----------------------------------------------------------------------------
(* The writes.                                                             *)

\* A write keeps the invariant if it shows only in the keys it deletes, the
\* one it forgets, and keys without an entry.
LEMMA WriteStep ==
    ASSUME Inv, NEW h \in Handlers, NEW o \in Outcomes, NEW ks \in Seq(Keys), ks # <<>>,
           NEW forgotten, AfterWrite(h, o, ks, forgotten), pc[h] \in {"idle", "delete"},
           UNCHANGED <<cache, key, val>>, created \subseteq created',
           live' \subseteq created', created' \subseteq Posts, likers' \in [Posts -> SUBSET Users],
           post' = [g \in Handlers |-> post'[g]], \A g \in Handlers : g # h => post'[g] = post[g],
           o = "refused" => live' = live /\ likers' = likers,
           \A k \in Keys : \/ \E i \in DOMAIN ks : ks[i] = k
                           \/ k = forgotten \/ cache[k] = Nothing \/ Seen(k)' = Seen(k)
    PROVE  Inv'
  <1>0. /\ o \in {"ok", "refused", "lost"} /\ todo \in [Handlers -> Seq(Keys)] /\ todo[h] = <<>>
        /\ key[h] \notin Keys
        /\ pc \in [Handlers -> {"idle", "reread", "query", "fill", "delete", "invalidate"}]
    BY CacheAssumption DEF Inv, CacheType
  <1>1. /\ pc' \in [Handlers -> {"idle", "reread", "query", "fill", "delete", "invalidate"}]
        /\ todo' \in [Handlers -> Seq(Keys)]
        /\ \A g \in Handlers : g # h => pc'[g] = pc[g] /\ todo'[g] = todo[g]
        /\ IF o = "ok" THEN pc'[h] = "invalidate" /\ todo'[h] = ks
                       ELSE pc'[h] = "idle" /\ todo'[h] = <<>>
    BY <1>0 DEF AfterWrite, Goto
  <1>2. /\ excused \subseteq excused'
        /\ o # "refused" => forgotten \in excused'
        /\ o = "lost" => \A i \in DOMAIN ks : ks[i] \in excused'
    BY <1>0 DEF AfterWrite
  <1>3. CacheType'
    <2>1. /\ \A g \in Handlers : pc'[g] \in {"reread", "query", "fill"} <=> key[g] \in Keys
          /\ \A g \in Handlers : pc'[g] = "delete" => post'[g] \in Posts
          /\ \A g \in Handlers : todo'[g] # <<>> <=> pc'[g] = "invalidate"
          /\ \A g \in Handlers : pc'[g] = "fill" => Fits(key[g], val[g])
      BY <1>0, <1>1 DEF Inv, CacheType
    <2> QED
      BY <1>1, <2>1 DEF Inv, CacheType, Fits
  <1>4. OnlyCreated'
    BY <1>1 DEF Inv, OnlyCreated
  <1>5. StaleHasCause'
    <2>1. ASSUME NEW k \in Keys PROVE Awaited(k) => Awaited(k)'
      <3> SUFFICES ASSUME NEW g \in Handlers, NEW i \in DOMAIN todo[g], todo[g][i] = k
                   PROVE  Awaited(k)'
        BY DEF Awaited
      <3>1. g # h
        BY <1>0
      <3> QED
        BY <1>1, <3>1 DEF Awaited
    <2>2. ASSUME NEW k \in Keys
          PROVE  \/ k \in excused' \/ Awaited(k)' \/ cache'[k] = Nothing
                 \/ cache'[k] = cache[k] /\ Seen(k)' = Seen(k)
      <3>1. CASE o = "refused"
        BY <3>1, SeenSame
      <3>2. CASE o = "lost"
        BY <1>2, <3>2
      <3>3. CASE o = "ok"
        BY <1>1, <1>2, <3>3 DEF Awaited
      <3> QED
        BY <1>0, <3>1, <3>2, <3>3
    <2> QED
      BY <1>2, <2>1, <2>2, CauseStep DEF Inv
  <1> QED
    BY <1>3, <1>4, <1>5 DEF Inv

LEMMA CreateInv == ASSUME Inv, NEW h \in Handlers, NEW p \in Posts, CreatePost(h, p) PROVE Inv'
  <1>1. PICK o \in Outcomes :
          /\ live' = IF o = "refused" THEN live ELSE live \cup {p}
          /\ created' = created \cup {p}
          /\ AfterWrite(h, o, CreateKeys(Author[p]), UserPostsKey(Author[p]))
    BY DEF CreatePost
  <1>2. UNCHANGED <<likers, cache, user, key, val, post>> /\ p \notin created /\ pc[h] = "idle"
    BY DEF CreatePost
  <1>3. Author[p] \in Users
    BY CacheAssumption
  <1> PICK ks : ks = CreateKeys(Author[p])
    OBVIOUS
  <1>4. ks = <<FeedKey, PostCountKey(Author[p])>> /\ ks \in Seq(Keys) /\ ks # <<>>
    BY <1>3, KeysApart DEF CreateKeys
  <1>5. ASSUME NEW k \in Keys
        PROVE  \/ \E i \in DOMAIN ks : ks[i] = k
               \/ k = UserPostsKey(Author[p]) \/ cache[k] = Nothing \/ Seen(k)' = Seen(k)
    <2>1. CASE k = PostKey(p)
      BY <1>2, <2>1 DEF Inv, OnlyCreated
    <2>2. CASE k = FeedKey
      <3>1. 1 \in DOMAIN ks /\ ks[1] = FeedKey
        BY <1>4
      <3> QED
        BY <2>2, <3>1
    <2>3. CASE k = PostCountKey(Author[p])
      <3>1. 2 \in DOMAIN ks /\ ks[2] = PostCountKey(Author[p])
        BY <1>4
      <3> QED
        BY <2>3, <3>1
    <2>4. CASE k \notin {PostKey(p), FeedKey, PostCountKey(Author[p]), UserPostsKey(Author[p])}
      BY <1>1, <1>2, <2>4, SeenStep
    <2> QED
      BY <2>1, <2>2, <2>3, <2>4
  <1>6. /\ live' \subseteq created' /\ created' \subseteq Posts /\ likers' \in [Posts -> SUBSET Users]
        /\ post' = [g \in Handlers |-> post'[g]]
    BY <1>1, <1>2 DEF Inv, CacheType
  <1>9. /\ AfterWrite(h, o, ks, UserPostsKey(Author[p])) /\ created \subseteq created'
        /\ o = "refused" => live' = live /\ likers' = likers
    BY <1>1, <1>2
  <1>10. ks \in Seq(Keys) /\ ks # <<>>
    BY <1>4
  <1> QED
    BY <1>2, <1>5, <1>6, <1>9, <1>10, WriteStep

LEMMA DeleteSelectInv ==
    ASSUME Inv, NEW h \in Handlers, NEW u \in Users, NEW p \in Posts, DeleteSelect(h, u, p)
    PROVE  Inv'
  <1>1. /\ UNCHANGED <<live, created, likers, cache, key, val, todo, excused>>
        /\ pc[h] = "idle" /\ pc'[h] = "delete" /\ post'[h] = p
        /\ pc' \in [Handlers -> {"idle", "reread", "query", "fill", "delete", "invalidate"}]
        /\ post' = [g \in Handlers |-> post'[g]]
        /\ \A g \in Handlers : g # h => pc'[g] = pc[g] /\ post'[g] = post[g]
    BY DEF DeleteSelect, Goto, Inv, CacheType
  <1>2. CacheType'
    BY <1>1 DEF Inv, CacheType, Fits
  <1>3. OnlyCreated'
    BY <1>1 DEF Inv, OnlyCreated
  <1>4. StaleHasCause'
    BY <1>1, SeenSame, CauseStep DEF Inv, Awaited
  <1> QED
    BY <1>2, <1>3, <1>4 DEF Inv

LEMMA DeleteExecuteInv == ASSUME Inv, NEW h \in Handlers, DeleteExecute(h) PROVE Inv'
  <1>0. post[h] \in Posts /\ pc[h] = "delete"
    BY DEF DeleteExecute, Inv, CacheType
  <1> PICK p \in Posts : p = post[h]
    BY <1>0
  <1>1. PICK o \in Outcomes :
          /\ live' = IF o = "refused" THEN live ELSE live \ {p}
          /\ likers' = IF o = "refused" THEN likers ELSE [likers EXCEPT ![p] = {}]
          /\ AfterWrite(h, o, DeleteKeys(p), PostCountKey(Author[p]))
    BY DEF DeleteExecute
  <1>2. UNCHANGED <<created, cache, user, key, val>>
    BY DEF DeleteExecute
  <1>3. Author[p] \in Users
    BY CacheAssumption
  <1> PICK ks : ks = DeleteKeys(p)
    OBVIOUS
  <1>4. ks = <<PostKey(p), FeedKey, UserPostsKey(Author[p])>> /\ ks \in Seq(Keys) /\ ks # <<>>
    BY <1>3, KeysApart DEF DeleteKeys
  <1>5. ks[1] = PostKey(p) /\ ks[2] = FeedKey /\ ks[3] = UserPostsKey(Author[p]) /\ DOMAIN ks = 1 .. 3
    BY <1>4
  <1>6. /\ live' \subseteq created' /\ created' \subseteq Posts /\ likers' \in [Posts -> SUBSET Users]
        /\ \A q \in Posts : q # p => likers'[q] = likers[q]
    BY <1>1, <1>2 DEF Inv, CacheType
  <1>7. post' = [g \in Handlers |-> post'[g]] /\ \A g \in Handlers : g # h => post'[g] = post[g]
    BY DEF DeleteExecute, Inv, CacheType
  <1>8. ASSUME NEW k \in Keys
        PROVE  (\E i \in DOMAIN ks : ks[i] = k) \/ k = PostCountKey(Author[p]) \/ Seen(k)' = Seen(k)
    <2>1. CASE k \in {PostKey(p), FeedKey, UserPostsKey(Author[p])}
      BY <1>5, <2>1
    <2>2. CASE k \notin {PostKey(p), FeedKey, UserPostsKey(Author[p]), PostCountKey(Author[p])}
      <3>1. live' \ {p} = live \ {p} /\ \A q \in live \ {p} : likers'[q] = likers[q]
        BY <1>1, <1>6 DEF Inv, CacheType
      <3> QED
        BY <2>2, <3>1, SeenStep
    <2> QED
      BY <2>1, <2>2
  <1>9. /\ AfterWrite(h, o, ks, PostCountKey(Author[p])) /\ created \subseteq created'
        /\ o = "refused" => live' = live /\ likers' = likers
    BY <1>1, <1>2
  <1>10. ks \in Seq(Keys) /\ ks # <<>>
    BY <1>4
  <1> QED
    BY <1>0, <1>2, <1>6, <1>7, <1>8, <1>9, <1>10, WriteStep

LEMMA ToggleInv ==
    ASSUME Inv, NEW h \in Handlers, NEW u \in Users, NEW p \in Posts, ToggleLike(h, u, p)
    PROVE  Inv'
  <1>1. PICK o \in Outcomes :
          /\ likers' = IF o = "refused" THEN likers
                       ELSE [likers EXCEPT ![p] = IF u \in @ THEN @ \ {u} ELSE @ \cup {u}]
          /\ AfterWrite(h, o, LikeKeys(p), UserPostsKey(Author[p]))
    BY DEF ToggleLike
  <1>2. UNCHANGED <<live, created, cache, user, key, val, post>> /\ pc[h] = "idle"
    BY DEF ToggleLike
  <1> PICK ks : ks = LikeKeys(p)
    OBVIOUS
  <1>4. ks = <<PostKey(p), FeedKey>> /\ ks \in Seq(Keys) /\ ks # <<>>
    BY KeysApart DEF LikeKeys
  <1>5. ks[1] = PostKey(p) /\ ks[2] = FeedKey /\ DOMAIN ks = 1 .. 2
    BY <1>4
  <1>6. /\ live' \subseteq created' /\ created' \subseteq Posts /\ likers' \in [Posts -> SUBSET Users]
        /\ \A q \in Posts : q # p => likers'[q] = likers[q]
        /\ post' = [g \in Handlers |-> post'[g]]
    BY <1>1, <1>2 DEF Inv, CacheType
  <1>8. ASSUME NEW k \in Keys
        PROVE  (\E i \in DOMAIN ks : ks[i] = k) \/ k = UserPostsKey(Author[p]) \/ Seen(k)' = Seen(k)
    <2>1. CASE k \in {PostKey(p), FeedKey}
      BY <1>5, <2>1
    <2>2. CASE k \notin {PostKey(p), FeedKey, UserPostsKey(Author[p])}
      <3>1. live' = live /\ \A q \in live \ {p} : likers'[q] = likers[q]
        BY <1>2, <1>6 DEF Inv, CacheType
      <3> QED
        BY <2>2, <3>1, SeenStep
    <2> QED
      BY <2>1, <2>2
  <1>9. /\ AfterWrite(h, o, ks, UserPostsKey(Author[p])) /\ created \subseteq created'
        /\ o = "refused" => live' = live /\ likers' = likers
    BY <1>1, <1>2
  <1>10. ks \in Seq(Keys) /\ ks # <<>>
    BY <1>4
  <1> QED
    BY <1>2, <1>6, <1>8, <1>9, <1>10, WriteStep

\* The deletion of one key, which may fail: the key is not awaited any more,
\* the rest of the handler's keys still are.
LEMMA InvalidateInv == ASSUME Inv, NEW h \in Handlers, Invalidate(h) PROVE Inv'
  <1>0. /\ pc[h] = "invalidate" /\ todo \in [Handlers -> Seq(Keys)] /\ todo[h] # <<>>
        /\ todo[h] \in Seq(Keys)
        /\ pc \in [Handlers -> {"idle", "reread", "query", "fill", "delete", "invalidate"}]
    BY DEF Invalidate, Inv, CacheType
  <1>1. /\ Head(todo[h]) \in Keys /\ Tail(todo[h]) \in Seq(Keys)
        /\ Len(todo[h]) = 1 <=> Tail(todo[h]) = <<>>
    <2>1. ASSUME NEW q \in Seq(Keys), q # <<>>
          PROVE  Head(q) \in Keys /\ Tail(q) \in Seq(Keys) /\ (Len(q) = 1 <=> Tail(q) = <<>>)
      <3>1. Head(q) \in Keys /\ Tail(q) \in Seq(Keys) /\ Len(Tail(q)) = Len(q) - 1 /\ Len(q) \in Nat
        BY <2>1
      <3>2. \A t \in Seq(Keys) : Len(t) = 0 <=> t = <<>>
        OBVIOUS
      <3>3. PICK t \in Seq(Keys) : t = Tail(q)
        BY <3>1
      <3>4. Len(t) = 0 <=> t = <<>>
        BY <3>2
      <3>5. Len(q) = 1 <=> Len(t) = 0
        BY <3>1, <3>3
      <3> QED
        BY <3>1, <3>3, <3>4, <3>5, Zenon
    <2> QED
      BY <1>0, <2>1
  <1> PICK k \in Keys : k = Head(todo[h])
    BY <1>1
  <1>2. UNCHANGED <<live, created, likers, key, val, post>>
    BY DEF Invalidate
  <1>3. /\ todo' \in [Handlers -> Seq(Keys)] /\ todo'[h] = Tail(todo[h])
        /\ pc' \in [Handlers -> {"idle", "reread", "query", "fill", "delete", "invalidate"}]
        /\ pc'[h] = IF Len(todo[h]) = 1 THEN "idle" ELSE "invalidate"
        /\ \A g \in Handlers : g # h => pc'[g] = pc[g] /\ todo'[g] = todo[g]
    BY <1>0, <1>1 DEF Invalidate, Goto
  <1>4. /\ cache' = [c \in Keys |-> cache'[c]]
        /\ \A c \in Keys : c # k => cache'[c] = cache[c] /\ (c \in excused => c \in excused')
        /\ cache'[k] = Nothing \/ (cache'[k] = cache[k] /\ k \in excused')
    BY DEF Invalidate, Inv, CacheType
  <1>5. CacheType'
    <2>1. \A c \in Keys : cache'[c] = Nothing \/ Fits(c, cache'[c])
      BY <1>4 DEF Inv, CacheType
    <2>2. /\ \A g \in Handlers : pc'[g] \in {"reread", "query", "fill"} <=> key[g] \in Keys
          /\ \A g \in Handlers : pc'[g] = "delete" => post[g] \in Posts
          /\ \A g \in Handlers : pc'[g] = "fill" => Fits(key[g], val[g])
      BY <1>0, <1>3 DEF Inv, CacheType
    <2>3. \A g \in Handlers : todo'[g] # <<>> <=> pc'[g] = "invalidate"
      BY <1>1, <1>3 DEF Inv, CacheType
    <2> QED
      BY <1>2, <1>3, <1>4, <2>1, <2>2, <2>3 DEF Inv, CacheType, Fits
  <1>6. OnlyCreated'
    <2>1. \A p \in Posts \ created : cache'[PostKey(p)] = Nothing
      BY <1>4, KeysApart DEF Inv, OnlyCreated
    <2>2. \A g \in Handlers : pc'[g] = "fill" => pc[g] = "fill"
      BY <1>3
    <2> QED
      BY <1>2, <2>1, <2>2 DEF Inv, OnlyCreated
  <1>7. StaleHasCause'
    <2>1. ASSUME NEW c \in Keys, c # k, Awaited(c) PROVE Awaited(c)'
      <3>1. PICK g \in Handlers : \E i \in DOMAIN todo[g] : todo[g][i] = c
        BY <2>1 DEF Awaited
      <3>2. CASE g # h
        BY <1>3, <3>1, <3>2 DEF Awaited
      <3>3. CASE g = h
        <4>1. PICK i \in 1 .. Len(todo[h]) : todo[h][i] = c
          BY <1>0, <3>1, <3>3
        <4>2. i # 1
          BY <1>0, <2>1, <4>1
        <4>3. i - 1 \in DOMAIN Tail(todo[h]) /\ Tail(todo[h])[i - 1] = c
          BY <1>0, <4>1, <4>2
        <4> QED
          BY <1>3, <4>3 DEF Awaited
      <3> QED
        BY <3>2, <3>3
    <2>2. \A c \in Keys : Seen(c)' = Seen(c)
      BY <1>2, SeenSame
    <2>3. ASSUME NEW c \in Keys
          PROVE  \/ c \in excused' \/ cache'[c] = Nothing
                 \/ /\ cache'[c] = cache[c] /\ (c \in excused => c \in excused')
                    /\ Awaited(c) => Awaited(c)'
      <3>1. CASE c = k
        BY <1>4, <3>1
      <3>2. CASE c # k
        BY <1>4, <2>1, <3>2
      <3> QED
        BY <3>1, <3>2
    <2> QED
      BY <2>2, <2>3, CauseStep DEF Inv
  <1> QED
    BY <1>5, <1>6, <1>7 DEF Inv

LEMMA ExpireInv == ASSUME Inv, NEW k \in Keys, Expire(k) PROVE Inv'
  <1>1. UNCHANGED <<live, created, likers, pc, user, key, val, post, todo>>
    BY DEF Expire
  <1>2. /\ cache' = [c \in Keys |-> cache'[c]] /\ cache'[k] = Nothing
        /\ \A c \in Keys : c # k => cache'[c] = cache[c] /\ (c \in excused => c \in excused')
    BY DEF Expire, Inv, CacheType
  <1>3. CacheType'
    <2>1. \A c \in Keys : cache'[c] = Nothing \/ Fits(c, cache'[c])
      BY <1>2 DEF Inv, CacheType
    <2> QED
      BY <1>1, <1>2, <2>1 DEF Inv, CacheType, Fits
  <1>4. OnlyCreated'
    BY <1>1, <1>2, KeysApart DEF Inv, OnlyCreated
  <1>5. StaleHasCause'
    <2>1. \A c \in Keys : Seen(c)' = Seen(c) /\ (Awaited(c) => Awaited(c)')
      BY <1>1, SeenSame DEF Awaited
    <2> QED
      BY <1>2, <2>1, CauseStep DEF Inv
  <1> QED
    BY <1>3, <1>4, <1>5 DEF Inv

LEMMA NextInv == Inv /\ [Next]_vars => Inv'
  <1> SUFFICES ASSUME Inv, [Next]_vars PROVE Inv'
    OBVIOUS
  <1>1. ASSUME NEW h \in Handlers, NEW p \in Posts, GetPost(h, p) PROVE Inv'
    BY <1>1, LookupInv, KeysApart DEF GetPost
  <1>2. ASSUME NEW h \in Handlers, NEW u \in Users, ListFeed(h, u) \/ CountUserPosts(h, u) PROVE Inv'
    BY <1>2, LookupInv, KeysApart DEF ListFeed, CountUserPosts
  <1>3. ASSUME NEW h \in Handlers, NEW u \in Users, NEW a \in Users, ListUserPosts(h, u, a) PROVE Inv'
    BY <1>3, LookupInv, KeysApart DEF ListUserPosts
  <1>4. CASE UNCHANGED vars
    <2>1. CacheType' /\ OnlyCreated'
      BY <1>4 DEF vars, Inv, CacheType, OnlyCreated, Fits
    <2>2. StaleHasCause'
      BY <1>4, SeenSame, CauseStep DEF vars, Inv, Awaited
    <2> QED
      BY <2>1, <2>2 DEF Inv
  <1> QED
    BY <1>1, <1>2, <1>3, <1>4, RereadInv, QueryInv, FillInv, DeleteExecuteInv, InvalidateInv,
       CreateInv, DeleteSelectInv, ToggleInv, ExpireInv DEF Next, Step

LEMMA SpecInv == Spec => []Inv
  BY InitInv, NextInv, PTL DEF Spec

-----------------------------------------------------------------------------
\* The entries of the cache are of the kind their keys say: counts within
\* the number of posts, rows within the posts and the number of users.
THEOREM TypeCorrect == Spec => []TypeOK
  <1>1. Inv => TypeOK
    BY DEF Inv, CacheType, TypeOK, Fits
  <1> QED
    BY SpecInv, <1>1, PTL

\* A stale entry has one of the named causes: the invalidations after a write
\* cover all that the write changes, except the entry it forgets.
THEOREM StaleHasCauseHolds == Spec => []StaleHasCause
  <1>1. Inv => StaleHasCause
    BY DEF Inv
  <1> QED
    BY SpecInv, <1>1, PTL
=============================================================================
