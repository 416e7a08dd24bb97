-------------------------- MODULE LikeToggleProofs --------------------------
(***************************************************************************)
(* Proofs about LikeToggle for any users, posts and concurrent calls.      *)
(***************************************************************************)
EXTENDS LikeToggle, FiniteSetTheorems, TLAPS

\* What a call may rely on between two of its statements: the row locks give
\* each likes row at most one writer, and a writer's row is as it found it.
Locks ==
    /\ \A c \in Calls : pc[c] \in {"key", "inc", "insCommit"} => Row(c) \notin likes
    /\ \A c \in Calls : pc[c] \in {"inc", "insCommit"} => target[c] \in live \ deleting
    /\ \A c \in Calls : found[c] => pc[c] \in {"dec", "delCommit"} /\ Row(c) \in likes
    /\ \A c \in Calls : pc[c] = "delCommit" => target[c] \notin deleting
    /\ \A c, d \in Calls : c # d /\ Row(c) = Row(d) => ~(HoldsRow(c) /\ HoldsRow(d))

Inv == TypeOK /\ Locks /\ NoOrphanLikes

LEMMA InitInv == Init => Inv
  BY LikeAssumption DEF Init, Inv, TypeOK, Locks, NoOrphanLikes, HoldsRow

LEMMA NextType == Inv /\ [Next]_vars => TypeOK'
  <1> SUFFICES ASSUME Inv, [Next]_vars PROVE TypeOK'
    OBVIOUS
  <1> USE LikeAssumption DEF Inv, TypeOK
  <1>1. ASSUME NEW c \in Calls, NEW p \in Posts, Call(c, p) PROVE TypeOK'
    BY <1>1 DEF Call, Goto
  <1>2. ASSUME NEW c \in Calls, Exists(c) PROVE TypeOK'
    BY <1>2 DEF Exists, Goto
  <1>3. ASSUME NEW c \in Calls, DeleteRow(c) PROVE TypeOK'
    BY <1>3 DEF DeleteRow, Goto
  <1>4. ASSUME NEW c \in Calls, InsertRow(c) PROVE TypeOK'
    BY <1>4 DEF InsertRow, Goto, End
  <1>4a. ASSUME NEW c \in Calls, ForeignKey(c) PROVE TypeOK'
    BY <1>4a DEF ForeignKey, Goto, End
  <1>5. ASSUME NEW c \in Calls, UpdateCount(c) PROVE TypeOK'
    BY <1>5 DEF UpdateCount, Goto
  <1>6. ASSUME NEW c \in Calls, CommitUnlike(c) PROVE TypeOK'
    BY <1>6 DEF CommitUnlike, End, Floor0
  <1>7. ASSUME NEW c \in Calls, CommitLike(c) PROVE TypeOK'
    <2>1. Row(c) \in Users \X Posts
      BY <1>7 DEF CommitLike, Row
    <2> QED
      BY <1>7, <2>1 DEF CommitLike, End
  <1>8. ASSUME NEW p \in Posts, DeletePostRow(p) PROVE TypeOK'
    BY <1>8 DEF DeletePostRow
  <1>9. ASSUME NEW p \in Posts, CascadeCommit(p) PROVE TypeOK'
    BY <1>9 DEF CascadeCommit
  <1>10. ASSUME NEW c \in Calls, DeadlockAbort(c) PROVE TypeOK'
    BY <1>10 DEF DeadlockAbort, End
  <1>11. CASE UNCHANGED vars
    BY <1>11 DEF vars
  <1> QED
    BY <1>1, <1>2, <1>3, <1>4, <1>4a, <1>5, <1>6, <1>7, <1>8, <1>9, <1>10, <1>11
       DEF Next, Step

\* The locks protect the rows across every statement of every call.
LEMMA NextLocks == Inv /\ [Next]_vars => Locks' /\ NoOrphanLikes'
  <1> SUFFICES ASSUME Inv, [Next]_vars PROVE Locks' /\ NoOrphanLikes'
    OBVIOUS
  <1> USE LikeAssumption DEF Inv, TypeOK, Locks, NoOrphanLikes, HoldsRow, Row
  <1>1. ASSUME NEW c \in Calls, NEW p \in Posts, Call(c, p)
        PROVE  Locks' /\ NoOrphanLikes'
    <2>1. /\ pc[c] = "idle" /\ pc'[c] = "exists"
          /\ \A d \in Calls : d # c => pc'[d] = pc[d] /\ target'[d] = target[d]
          /\ likes' = likes /\ live' = live /\ deleting' = deleting /\ found' = found
      BY <1>1 DEF Call, Goto
    <2>2. ~found[c] /\ ~HoldsRow(c)' /\ \A d \in Calls : d # c => HoldsRow(d)' = HoldsRow(d)
      BY <2>1
    <2>3. \A d \in Calls : d # c => Row(d)' = Row(d)
      BY <2>1
    <2>4. \A d \in Calls : pc'[d] \in {"key", "inc", "insCommit"} => Row(d)' \notin likes'
      BY <2>1, <2>3
    <2>5. \A d \in Calls :
             pc'[d] \in {"inc", "insCommit"} => target'[d] \in live' \ deleting'
      BY <2>1
    <2>6. \A d \in Calls :
             found'[d] => pc'[d] \in {"dec", "delCommit"} /\ Row(d)' \in likes'
      BY <2>1, <2>2, <2>3
    <2>7. \A d \in Calls : pc'[d] = "delCommit" => target'[d] \notin deleting'
      BY <2>1
    <2>8. ASSUME NEW d \in Calls, NEW e \in Calls, d # e, Row(d)' = Row(e)'
          PROVE  ~(HoldsRow(d)' /\ HoldsRow(e)')
      BY <2>2, <2>3, <2>8
    <2>9. NoOrphanLikes'
      BY <2>1
    <2> QED
      BY <2>4, <2>5, <2>6, <2>7, <2>8, <2>9
  <1>2. ASSUME NEW c \in Calls, Exists(c)
        PROVE  Locks' /\ NoOrphanLikes'
    BY <1>2 DEF Exists, Goto
  <1>3. ASSUME NEW c \in Calls, DeleteRow(c)
        PROVE  Locks' /\ NoOrphanLikes'
    BY <1>3 DEF DeleteRow, Goto, RowFree
  <1>4. ASSUME NEW c \in Calls, InsertRow(c)
        PROVE  Locks' /\ NoOrphanLikes'
    BY <1>4 DEF InsertRow, Goto, End, RowFree
  <1>4a. ASSUME NEW c \in Calls, ForeignKey(c)
        PROVE  Locks' /\ NoOrphanLikes'
    BY <1>4a DEF ForeignKey, Goto, End
  <1>5. ASSUME NEW c \in Calls, UpdateCount(c)
        PROVE  Locks' /\ NoOrphanLikes'
    BY <1>5 DEF UpdateCount, Goto
  <1>6. ASSUME NEW c \in Calls, CommitUnlike(c)
        PROVE  Locks' /\ NoOrphanLikes'
    BY <1>6 DEF CommitUnlike, End
  <1>7. ASSUME NEW c \in Calls, CommitLike(c)
        PROVE  Locks' /\ NoOrphanLikes'
    BY <1>7 DEF CommitLike, End
  <1>8. ASSUME NEW p \in Posts, DeletePostRow(p)
        PROVE  Locks' /\ NoOrphanLikes'
    BY <1>8 DEF DeletePostRow, HoldsPost, SharesPost
  <1>9. ASSUME NEW p \in Posts, CascadeCommit(p)
        PROVE  Locks' /\ NoOrphanLikes'
    BY <1>9 DEF CascadeCommit
  <1>10. ASSUME NEW c \in Calls, DeadlockAbort(c)
        PROVE  Locks' /\ NoOrphanLikes'
    BY <1>10 DEF DeadlockAbort, End
  <1>11. CASE UNCHANGED vars
    BY <1>11 DEF vars
  <1> QED
    BY <1>1, <1>2, <1>3, <1>4, <1>4a, <1>5, <1>6, <1>7, <1>8, <1>9, <1>10, <1>11
       DEF Next, Step

LEMMA NextInv == Inv /\ [Next]_vars => Inv'
  BY NextType, NextLocks DEF Inv

-----------------------------------------------------------------------------
\* The number of likes rows of a post, with the set of rows explicit.
Likers(L, p) == {u \in Users : <<u, p>> \in L}

LEMMA LikersFinite ==
    \A L, p : IsFiniteSet(Likers(L, p)) /\ Cardinality(Likers(L, p)) \in Nat
  <1> TAKE L, p
  <1>1. Likers(L, p) \subseteq Users
    BY DEF Likers
  <1> QED
    BY <1>1, LikeAssumption, FS_Subset, FS_CardinalityType

LEMMA LikersAdd ==
    ASSUME NEW L, NEW u \in Users, NEW p, <<u, p>> \notin L
    PROVE  /\ Cardinality(Likers(L \cup {<<u, p>>}, p)) = Cardinality(Likers(L, p)) + 1
           /\ \A q : q # p => Likers(L \cup {<<u, p>>}, q) = Likers(L, q)
  <1>1. Likers(L \cup {<<u, p>>}, p) = Likers(L, p) \cup {u} /\ u \notin Likers(L, p)
    BY DEF Likers
  <1>2. \A q : q # p => Likers(L \cup {<<u, p>>}, q) = Likers(L, q)
    BY DEF Likers
  <1> QED
    BY <1>1, <1>2, LikersFinite, FS_AddElement

LEMMA LikersRemove ==
    ASSUME NEW L, NEW u \in Users, NEW p, <<u, p>> \in L
    PROVE  /\ Cardinality(Likers(L \ {<<u, p>>}, p)) = Cardinality(Likers(L, p)) - 1
           /\ Cardinality(Likers(L, p)) >= 1
           /\ \A q : q # p => Likers(L \ {<<u, p>>}, q) = Likers(L, q)
  <1>1. Likers(L \ {<<u, p>>}, p) = Likers(L, p) \ {u} /\ u \in Likers(L, p)
    BY DEF Likers
  <1>2. \A q : q # p => Likers(L \ {<<u, p>>}, q) = Likers(L, q)
    BY DEF Likers
  <1>3. Cardinality(Likers(L \ {<<u, p>>}, p)) = Cardinality(Likers(L, p)) - 1
    BY <1>1, LikersFinite, FS_RemoveElement
  <1>4. Cardinality(Likers(L \ {<<u, p>>}, p)) \in Nat /\ Cardinality(Likers(L, p)) \in Nat
    BY LikersFinite
  <1>5. Cardinality(Likers(L, p)) >= 1
    BY <1>3, <1>4
  <1> QED
    BY <1>2, <1>3, <1>5

\* What a commit does to the likes rows and the counters: a like adds one of
\* each, an unlike removes at most one row and always lowers the counter,
\* the cascade drops a whole post.
LikeEffect(c) ==
    /\ pc[c] = "insCommit"
    /\ Row(c) \notin likes /\ target[c] \in Posts
    /\ live' = live /\ likes' = likes \cup {Row(c)}
    /\ count' = [count EXCEPT ![target[c]] = @ + 1]
    /\ drifted' = drifted

UnlikeEffect(c) ==
    /\ pc[c] = "delCommit"
    /\ target[c] \in Posts
    /\ found[c] => Row(c) \in likes
    /\ live' = live
    /\ likes' = IF found[c] THEN likes \ {Row(c)} ELSE likes
    /\ count' = IF target[c] \in live
                THEN [count EXCEPT ![target[c]] = Floor0(@ - 1)] ELSE count
    /\ drifted' = IF target[c] \in live /\ ~found[c] THEN drifted \cup {target[c]} ELSE drifted

CascadeEffect(p) ==
    /\ live' = live \ {p}
    /\ likes' = {r \in likes : r[2] # p}
    /\ \A q \in Posts \ {p} : count'[q] = count[q]
    /\ drifted' = drifted

Effect ==
    \/ UNCHANGED <<live, likes, count, drifted>>
    \/ \E c \in Calls : LikeEffect(c) \/ UnlikeEffect(c)
    \/ \E p \in Posts : CascadeEffect(p)

\* No other step touches rows or counters.
LEMMA StepEffect == Inv /\ [Next]_vars => Effect
  <1> SUFFICES ASSUME Inv, [Next]_vars PROVE Effect
    OBVIOUS
  <1> USE LikeAssumption
  <1>0. TypeOK /\ Locks
    BY DEF Inv
  <1>1. ASSUME NEW c \in Calls, CommitUnlike(c) PROVE UnlikeEffect(c)
    BY <1>0, <1>1 DEF CommitUnlike, TypeOK, Locks, UnlikeEffect
  <1>2. ASSUME NEW c \in Calls, CommitLike(c) PROVE LikeEffect(c)
    BY <1>0, <1>2 DEF CommitLike, TypeOK, Locks, LikeEffect
  <1>3. ASSUME NEW p \in Posts, CascadeCommit(p) PROVE CascadeEffect(p)
    BY <1>0, <1>3 DEF CascadeCommit, TypeOK, CascadeEffect
  <1>4. ASSUME NEW c \in Calls,
               \/ \E p \in Posts : Call(c, p)
               \/ Exists(c) \/ DeleteRow(c) \/ InsertRow(c) \/ UpdateCount(c)
               \/ ForeignKey(c) \/ DeadlockAbort(c)
        PROVE  UNCHANGED <<live, likes, count, drifted>>
    BY <1>4 DEF Call, Exists, DeleteRow, InsertRow, ForeignKey, UpdateCount, DeadlockAbort
  <1>5. ASSUME NEW p \in Posts, DeletePostRow(p)
        PROVE  UNCHANGED <<live, likes, count, drifted>>
    BY <1>5 DEF DeletePostRow
  <1>6. CASE UNCHANGED vars
    BY <1>6 DEF vars, Effect
  <1>7. CASE Next
    BY <1>1, <1>2, <1>3, <1>4, <1>5, <1>7 DEF Next, Step, Effect
  <1> QED
    BY <1>6, <1>7

\* The size of the likes rows of a post after each effect.
LEMMA EffectSize ==
    ASSUME TypeOK, NEW q \in live'
    PROVE  /\ \A c \in Calls : LikeEffect(c) =>
                 /\ q \in live /\ q \in Posts
                 /\ q = target[c] => /\ Cardinality(Likers(likes', q)) = Cardinality(Likers(likes, q)) + 1
                                     /\ count'[q] = count[q] + 1
                 /\ q # target[c] => /\ Cardinality(Likers(likes', q)) = Cardinality(Likers(likes, q))
                                     /\ count'[q] = count[q]
           /\ \A c \in Calls : UnlikeEffect(c) =>
                 /\ q \in live /\ q \in Posts
                 /\ q = target[c] =>
                      /\ count'[q] = Floor0(count[q] - 1)
                      /\ ~found[c] => Cardinality(Likers(likes', q)) = Cardinality(Likers(likes, q))
                      /\ found[c] => /\ Cardinality(Likers(likes', q)) = Cardinality(Likers(likes, q)) - 1
                                     /\ Cardinality(Likers(likes, q)) >= 1
                 /\ q # target[c] => /\ Cardinality(Likers(likes', q)) = Cardinality(Likers(likes, q))
                                     /\ count'[q] = count[q]
           /\ \A p \in Posts : CascadeEffect(p) =>
                 /\ q \in live /\ q \in Posts
                 /\ Cardinality(Likers(likes', q)) = Cardinality(Likers(likes, q))
                 /\ count'[q] = count[q]
  <1>1. ASSUME NEW c \in Calls, LikeEffect(c)
        PROVE  /\ q \in live /\ q \in Posts
               /\ q = target[c] => /\ Cardinality(Likers(likes', q)) = Cardinality(Likers(likes, q)) + 1
                                   /\ count'[q] = count[q] + 1
               /\ q # target[c] => /\ Cardinality(Likers(likes', q)) = Cardinality(Likers(likes, q))
                                   /\ count'[q] = count[q]
    <2>1. UserOf[c] \in Users /\ Row(c) = <<UserOf[c], target[c]>>
      BY LikeAssumption DEF Row
    <2>2. q \in live /\ q \in Posts
      BY <1>1 DEF LikeEffect, TypeOK
    <2>3. ASSUME q = target[c]
          PROVE  Cardinality(Likers(likes', q)) = Cardinality(Likers(likes, q)) + 1
      BY <1>1, <2>1, <2>3, LikersAdd DEF LikeEffect
    <2>4. ASSUME q # target[c]
          PROVE  Likers(likes', q) = Likers(likes, q)
      BY <1>1, <2>1, <2>4 DEF Likers, LikeEffect
    <2>5. count'[q] = IF q = target[c] THEN count[q] + 1 ELSE count[q]
      BY <1>1, <2>2 DEF LikeEffect, TypeOK
    <2> QED
      BY <2>2, <2>3, <2>4, <2>5
  <1>2. ASSUME NEW c \in Calls, UnlikeEffect(c)
        PROVE  /\ q \in live /\ q \in Posts
               /\ q = target[c] =>
                    /\ count'[q] = Floor0(count[q] - 1)
                    /\ ~found[c] => Cardinality(Likers(likes', q)) = Cardinality(Likers(likes, q))
                    /\ found[c] => /\ Cardinality(Likers(likes', q)) = Cardinality(Likers(likes, q)) - 1
                                   /\ Cardinality(Likers(likes, q)) >= 1
               /\ q # target[c] => /\ Cardinality(Likers(likes', q)) = Cardinality(Likers(likes, q))
                                   /\ count'[q] = count[q]
    <2>1. UserOf[c] \in Users /\ Row(c) = <<UserOf[c], target[c]>>
      BY LikeAssumption DEF Row
    <2>2. q \in live /\ q \in Posts
      BY <1>2 DEF UnlikeEffect, TypeOK
    <2>3. ASSUME q = target[c], found[c]
          PROVE  /\ Cardinality(Likers(likes', q)) = Cardinality(Likers(likes, q)) - 1
                 /\ Cardinality(Likers(likes, q)) >= 1
      BY <1>2, <2>1, <2>3, LikersRemove DEF UnlikeEffect
    <2>4. ASSUME q # target[c] \/ ~found[c]
          PROVE  Likers(likes', q) = Likers(likes, q)
      BY <1>2, <2>1, <2>4 DEF Likers, UnlikeEffect
    <2>5. count'[q] = IF q = target[c] THEN Floor0(count[q] - 1) ELSE count[q]
      BY <1>2, <2>2 DEF UnlikeEffect, TypeOK
    <2> QED
      BY <2>2, <2>3, <2>4, <2>5
  <1>3. ASSUME NEW p \in Posts, CascadeEffect(p)
        PROVE  /\ q \in live /\ q \in Posts
               /\ Cardinality(Likers(likes', q)) = Cardinality(Likers(likes, q))
               /\ count'[q] = count[q]
    <2>1. q # p /\ q \in live /\ q \in Posts /\ count'[q] = count[q]
      BY <1>3 DEF CascadeEffect, TypeOK
    <2>2. Likers(likes', q) = Likers(likes, q)
      BY <1>3, <2>1 DEF Likers, CascadeEffect
    <2> QED
      BY <2>1, <2>2
  <1> QED
    BY <1>1, <1>2, <1>3

LEMMA NextNeverOver == Inv /\ CounterNeverOver /\ [Next]_vars => CounterNeverOver'
  <1> SUFFICES ASSUME Inv, CounterNeverOver, [Next]_vars, NEW q \in live'
               PROVE  count'[q] <= Cardinality(Likers(likes', q))
    BY DEF CounterNeverOver, LikersOf, Likers
  <1>0. /\ TypeOK /\ Effect
        /\ \A p \in live : count[p] <= Cardinality(Likers(likes, p))
    BY StepEffect DEF Inv, CounterNeverOver, LikersOf, Likers
  <1>1. CASE UNCHANGED <<live, likes, count, drifted>>
    BY <1>0, <1>1
  <1>2. ASSUME NEW c \in Calls, LikeEffect(c)
        PROVE  count'[q] <= Cardinality(Likers(likes', q))
    <2>1. q \in live /\ count[q] \in Nat /\ Cardinality(Likers(likes, q)) \in Nat
      BY <1>0, <1>2, EffectSize, LikersFinite DEF TypeOK
    <2> QED
      BY <1>0, <1>2, <2>1, EffectSize
  <1>3. ASSUME NEW c \in Calls, UnlikeEffect(c)
        PROVE  count'[q] <= Cardinality(Likers(likes', q))
    <2>1. q \in live /\ count[q] \in Nat /\ Cardinality(Likers(likes, q)) \in Nat
      BY <1>0, <1>3, EffectSize, LikersFinite DEF TypeOK
    <2> QED
      BY <1>0, <1>3, <2>1, EffectSize DEF Floor0
  <1>4. ASSUME NEW p \in Posts, CascadeEffect(p)
        PROVE  count'[q] <= Cardinality(Likers(likes', q))
    BY <1>0, <1>4, EffectSize
  <1> QED
    BY <1>0, <1>1, <1>2, <1>3, <1>4 DEF Effect

\* For any users, posts and concurrent calls the columns keep their types,
\* likes_count never negative among them.
THEOREM LikesTypeCorrect == Spec => []TypeOK
  <1>1. Inv => TypeOK
    BY DEF Inv
  <1> QED
    BY <1>1, InitInv, NextInv, PTL DEF Spec

\* No interleaving of toggles with the cascade leaves a like of a deleted post.
THEOREM LikesNoOrphans == Spec => []NoOrphanLikes
  <1>1. Inv => NoOrphanLikes
    BY DEF Inv
  <1> QED
    BY <1>1, InitInv, NextInv, PTL DEF Spec

\* For any number of users, tabs and posts, likes_count never exceeds the
\* number of likes rows: the counter's only failure is to drift down.
THEOREM LikesNeverOver == Spec => []CounterNeverOver
  <1>1. Init => CounterNeverOver
    <2> SUFFICES ASSUME Init, NEW p \in live
                 PROVE  count[p] <= Cardinality(Likers(likes, p))
      BY DEF CounterNeverOver, LikersOf, Likers
    <2>1. count[p] = 0
      BY DEF Init
    <2> QED
      BY <2>1, LikersFinite
  <1>2. (Inv /\ CounterNeverOver) /\ [Next]_vars => (Inv /\ CounterNeverOver)'
    BY NextInv, NextNeverOver
  <1> QED
    BY <1>1, <1>2, InitInv, PTL DEF Spec

LEMMA NextDrift == Inv /\ DriftHasCause /\ [Next]_vars => DriftHasCause'
  <1> SUFFICES ASSUME Inv, DriftHasCause, [Next]_vars, NEW q \in live' \ drifted'
               PROVE  count'[q] = Cardinality(Likers(likes', q))
    BY DEF DriftHasCause, LikersOf, Likers
  <1>0. /\ TypeOK /\ Effect /\ q \in live'
        /\ \A p \in live \ drifted : count[p] = Cardinality(Likers(likes, p))
    BY StepEffect DEF Inv, DriftHasCause, LikersOf, Likers
  <1>1. CASE UNCHANGED <<live, likes, count, drifted>>
    BY <1>0, <1>1
  <1>2. ASSUME NEW c \in Calls, LikeEffect(c)
        PROVE  count'[q] = Cardinality(Likers(likes', q))
    <2>1. q \notin drifted
      BY <1>2 DEF LikeEffect
    <2> QED
      BY <1>0, <1>2, <2>1, EffectSize
  <1>3. ASSUME NEW c \in Calls, UnlikeEffect(c)
        PROVE  count'[q] = Cardinality(Likers(likes', q))
    <2>1. q \in live /\ count[q] \in Nat /\ Cardinality(Likers(likes, q)) \in Nat
      BY <1>0, <1>3, EffectSize, LikersFinite DEF TypeOK
    <2>2. q \notin drifted /\ (q = target[c] => found[c])
      BY <1>3, <2>1 DEF UnlikeEffect
    <2> QED
      BY <1>0, <1>3, <2>1, <2>2, EffectSize DEF Floor0
  <1>4. ASSUME NEW p \in Posts, CascadeEffect(p)
        PROVE  count'[q] = Cardinality(Likers(likes', q))
    <2>1. q \notin drifted
      BY <1>4 DEF CascadeEffect
    <2> QED
      BY <1>0, <1>4, <2>1, EffectSize
  <1> QED
    BY <1>0, <1>1, <1>2, <1>3, <1>4 DEF Effect

LEMMA InitDrift == Init => DriftHasCause
  <1> SUFFICES ASSUME Init, NEW p \in live PROVE count[p] = Cardinality(LikersOf(p))
    BY DEF DriftHasCause
  <1>1. count[p] = 0 /\ LikersOf(p) = {}
    BY DEF Init, LikersOf
  <1> QED
    BY <1>1, FS_EmptySet

\* For any number of users, tabs and posts: a counter differs from the
\* number of likes rows only after an unlike that removed no row.
THEOREM LikesDriftHasCause == Spec => []DriftHasCause
  <1>1. (Inv /\ DriftHasCause) /\ [Next]_vars => (Inv /\ DriftHasCause)'
    BY NextInv, NextDrift
  <1> QED
    BY <1>1, InitInv, InitDrift, PTL DEF Spec

-----------------------------------------------------------------------------
\* One tab per user: the calls in the database serve different users.
OneCallPerUser == \A c, d \in Calls : UserOf[c] = UserOf[d] => c = d

\* Then nobody else touches the rows of a call's user: what EXISTS saw still
\* holds when the DELETE runs.
Serial ==
    /\ drifted = {}
    /\ \A c \in Calls : target[c] \in live =>
         /\ pc[c] = "delete" => Row(c) \in likes
         /\ pc[c] \in {"dec", "delCommit"} => found[c]

LEMMA NextSerial ==
    ASSUME OneCallPerUser
    PROVE  Inv /\ Serial /\ [Next]_vars => Serial'
  <1> SUFFICES ASSUME Inv, Serial, [Next]_vars PROVE Serial'
    OBVIOUS
  <1>0. TypeOK /\ \A c, d \in Calls : UserOf[c] = UserOf[d] => c = d
    BY DEF Inv, OneCallPerUser
  <1> USE LikeAssumption, <1>0 DEF TypeOK, Serial, Row
  <1>1. ASSUME NEW c \in Calls, NEW p \in Posts, Call(c, p) PROVE Serial'
    BY <1>1 DEF Call, Goto
  <1>2. ASSUME NEW c \in Calls, Exists(c) PROVE Serial'
    BY <1>2 DEF Exists, Goto
  <1>3. ASSUME NEW c \in Calls, DeleteRow(c) PROVE Serial'
    BY <1>3 DEF DeleteRow, Goto
  <1>4. ASSUME NEW c \in Calls, InsertRow(c) \/ ForeignKey(c) PROVE Serial'
    BY <1>4 DEF InsertRow, ForeignKey, Goto, End
  <1>5. ASSUME NEW c \in Calls, UpdateCount(c) PROVE Serial'
    BY <1>5 DEF UpdateCount, Goto
  <1>6. ASSUME NEW c \in Calls, CommitUnlike(c) PROVE Serial'
    BY <1>6 DEF CommitUnlike, End
  <1>7. ASSUME NEW c \in Calls, CommitLike(c) PROVE Serial'
    BY <1>7 DEF CommitLike, End
  <1>8. ASSUME NEW p \in Posts, DeletePostRow(p) PROVE Serial'
    BY <1>8 DEF DeletePostRow
  <1>9. ASSUME NEW p \in Posts, CascadeCommit(p) PROVE Serial'
    BY <1>9 DEF CascadeCommit
  <1>10. ASSUME NEW c \in Calls, DeadlockAbort(c) PROVE Serial'
    BY <1>10 DEF DeadlockAbort, End
  <1>11. CASE UNCHANGED vars
    BY <1>11 DEF vars
  <1> QED
    BY <1>1, <1>2, <1>3, <1>4, <1>5, <1>6, <1>7, <1>8, <1>9, <1>10, <1>11 DEF Next, Step

\* For any users and posts: if no user has two calls in the database at
\* once, likes_count is exactly the number of likes rows, deletes included.
\* The toggle is correct as long as the client serialises a user's toggles.
THEOREM LikesExactWhenSerial == OneCallPerUser => (Spec => []CounterExact)
  <1> SUFFICES ASSUME OneCallPerUser PROVE Spec => []CounterExact
    OBVIOUS
  <1>1. Init => Serial
    BY DEF Init, Serial
  <1>2. (Inv /\ Serial /\ DriftHasCause) /\ [Next]_vars => (Inv /\ Serial /\ DriftHasCause)'
    BY NextInv, NextSerial, NextDrift
  <1>3. Serial /\ DriftHasCause => CounterExact
    BY DEF Serial, DriftHasCause, CounterExact
  <1> QED
    BY <1>1, <1>2, <1>3, InitInv, InitDrift, PTL DEF Spec
=============================================================================
