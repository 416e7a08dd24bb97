----------------------------- MODULE LikeToggle -----------------------------
(***************************************************************************)
(* The SQL function toggle_like of backend/sql/001_new.sql as concurrent   *)
(* ToggleLike calls execute it, and the deletion of a post with its        *)
(* ON DELETE CASCADE.                                                      *)
(*                                                                         *)
(* Each statement of the function is one action.  The transactions run at  *)
(* the database's default isolation, READ COMMITTED: a statement sees what *)
(* was committed when it starts, a row that was written stays locked until *)
(* the end of its transaction, and the writes of a transaction take effect *)
(* together when it commits.                                               *)
(***************************************************************************)
EXTENDS Integers, FiniteSets

CONSTANTS
    Users, Posts,
    Calls,      \* ToggleLike handlers that may be in the database at once
    UserOf,     \* the user a handler serves
    NoPost

ASSUME LikeAssumption ==
    /\ IsFiniteSet(Users)
    /\ UserOf \in [Calls -> Users]
    /\ NoPost \notin Posts

VARIABLES
    live,       \* posts: the rows of table posts
    likes,      \* likes: pairs <<user_id, post_id>>
    count,      \* posts.likes_count
    pc,         \* the statement a call executes next
    target,     \* p_post_id of the call
    found,      \* the DELETE of the call found its row
    deleting,   \* posts whose DELETE holds the row and is cascading
    drifted     \* posts an unlike was charged to without removing a row

vars == <<live, likes, count, pc, target, found, deleting, drifted>>

Init ==
    /\ live = Posts
    /\ likes = {}
    /\ count = [p \in Posts |-> 0]
    /\ pc = [c \in Calls |-> "idle"]
    /\ target = [c \in Calls |-> NoPost]
    /\ found = [c \in Calls |-> FALSE]
    /\ deleting = {}
    /\ drifted = {}

LikersOf(p) == {u \in Users : <<u, p>> \in likes}

-----------------------------------------------------------------------------
Row(c) == <<UserOf[c], target[c]>>

\* The call has written its likes row and still holds it.
HoldsRow(c) ==
    \/ pc[c] \in {"key", "inc", "insCommit"}
    \/ pc[c] \in {"dec", "delCommit"} /\ found[c]

\* The call has updated the post row and still holds it.
HoldsPost(c) == pc[c] \in {"insCommit", "delCommit"}

\* The foreign key of a new likes row keeps its post from being deleted.
SharesPost(c) == pc[c] \in {"inc", "insCommit"}

RowFree(c) == \A d \in Calls \ {c} : Row(d) = Row(c) => ~HoldsRow(d)
PostFree(c) == \A d \in Calls \ {c} : target[d] = target[c] => ~HoldsPost(d)

Goto(c, s) == pc' = [pc EXCEPT ![c] = s]

\* The call returns to its handler, by commit or by rollback.
End(c) ==
    /\ pc' = [pc EXCEPT ![c] = "idle"]
    /\ target' = [target EXCEPT ![c] = NoPost]
    /\ found' = [found EXCEPT ![c] = FALSE]

\* The handler's rpc("toggle_like", {user, post}).
Call(c, p) ==
    /\ pc[c] = "idle"
    /\ Goto(c, "exists")
    /\ target' = [target EXCEPT ![c] = p]
    /\ UNCHANGED <<live, likes, count, found, deleting, drifted>>

\* IF EXISTS (SELECT 1 FROM likes ...): committed rows only, no lock.
Exists(c) ==
    /\ pc[c] = "exists"
    /\ Goto(c, IF Row(c) \in likes THEN "delete" ELSE "insert")
    /\ UNCHANGED <<live, likes, count, target, found, deleting, drifted>>

\* DELETE FROM likes: waits for a committed row that another transaction,
\* toggle or cascade, is deleting, and may then find it gone.
DeleteRow(c) ==
    /\ pc[c] = "delete"
    /\ Row(c) \in likes => RowFree(c) /\ target[c] \notin deleting
    /\ found' = [found EXCEPT ![c] = Row(c) \in likes]
    /\ Goto(c, "dec")
    /\ UNCHANGED <<live, likes, count, target, deleting, drifted>>

\* INSERT INTO likes: waits for a concurrent writer of the same key; a
\* primary key violation rolls the call back.
InsertRow(c) ==
    /\ pc[c] = "insert"
    /\ RowFree(c)
    /\ IF Row(c) \notin likes
       THEN Goto(c, "key") /\ UNCHANGED <<target, found>>
       ELSE End(c)
    /\ UNCHANGED <<live, likes, count, deleting, drifted>>

\* Mutant of ForeignKey: a violation is retried instead of raised.
MutForeignKey(c) ==
    /\ pc[c] = "key"
    /\ target[c] \notin deleting
    /\ Goto(c, IF target[c] \in live THEN "inc" ELSE "exists")
    /\ UNCHANGED <<live, likes, count, target, found, deleting, drifted>>

\* The INSERT's foreign key: waits for a delete of the post in progress; a
\* missing post rolls the call back, a present one is kept by the check.
ForeignKey(c) ==
    /\ pc[c] = "key"
    /\ target[c] \notin deleting
    /\ IF target[c] \in live
       THEN Goto(c, "inc") /\ UNCHANGED <<target, found>>
       ELSE End(c)
    /\ UNCHANGED <<live, likes, count, deleting, drifted>>

\* UPDATE posts SET likes_count ...: takes the post row.
UpdateCount(c) ==
    /\ pc[c] \in {"dec", "inc"}
    /\ PostFree(c) /\ target[c] \notin deleting
    /\ Goto(c, IF pc[c] = "dec" THEN "delCommit" ELSE "insCommit")
    /\ UNCHANGED <<live, likes, count, target, found, deleting, drifted>>

\* Mutant of Floor0: the floor is lost and with it the type of the column.
MutFloor0(n) == n

\* GREATEST(n, 0)
Floor0(n) == IF n > 0 THEN n ELSE 0

\* The end of the "unlike" branch; an UPDATE of a vanished post is no error.
CommitUnlike(c) ==
    /\ pc[c] = "delCommit"
    /\ likes' = IF found[c] THEN likes \ {Row(c)} ELSE likes
    /\ count' = IF target[c] \in live
                THEN [count EXCEPT ![target[c]] = Floor0(@ - 1)] ELSE count
    /\ drifted' = IF target[c] \in live /\ ~found[c] THEN drifted \cup {target[c]} ELSE drifted
    /\ End(c)
    /\ UNCHANGED <<live, deleting>>

\* Mutant of CommitLike: the counter is written without the row.
MutCommitLike(c) ==
    /\ pc[c] = "insCommit"
    /\ likes' = likes
    /\ count' = [count EXCEPT ![target[c]] = @ + 1]
    /\ End(c)
    /\ UNCHANGED <<live, deleting, drifted>>

\* Mutant of CommitLike: the update of the counter is lost.
MutLostUpdate(c) ==
    /\ pc[c] = "insCommit"
    /\ likes' = likes \cup {Row(c)}
    /\ count' = count
    /\ End(c)
    /\ UNCHANGED <<live, deleting, drifted>>

\* The end of the "like" branch.
CommitLike(c) ==
    /\ pc[c] = "insCommit"
    /\ likes' = likes \cup {Row(c)}
    /\ count' = [count EXCEPT ![target[c]] = @ + 1]
    /\ End(c)
    /\ UNCHANGED <<live, deleting, drifted>>

\* DeletePost's DELETE FROM posts takes the post row, and its cascade the
\* likes rows that no unlike holds ...
DeletePostRow(p) ==
    /\ p \in live \ deleting
    /\ \A c \in Calls : target[c] = p => ~HoldsPost(c) /\ ~SharesPost(c)
    /\ deleting' = deleting \cup {p}
    /\ UNCHANGED <<live, likes, count, pc, target, found, drifted>>

\* Mutant of CascadeCommit: the foreign key does not cascade.
MutCascadeCommit(p) ==
    /\ p \in deleting
    /\ \A c \in Calls : target[c] = p => ~found[c]
    /\ live' = live \ {p}
    /\ count' = [count EXCEPT ![p] = 0]
    /\ deleting' = deleting \ {p}
    /\ UNCHANGED <<likes, pc, target, found, drifted>>

\* ... and goes through when no unlike holds one of the others.
CascadeCommit(p) ==
    /\ p \in deleting
    /\ \A c \in Calls : target[c] = p => ~found[c]
    /\ live' = live \ {p}
    /\ likes' = {r \in likes : r[2] # p}
    /\ count' = [count EXCEPT ![p] = 0]
    /\ deleting' = deleting \ {p}
    /\ UNCHANGED <<pc, target, found, drifted>>

\* An unlike that holds its likes row and waits for the post row, and a
\* delete that holds the post row and waits for the likes row, wait for each
\* other; the database rolls one of them back.
DeadlockAbort(c) ==
    /\ pc[c] = "dec" /\ found[c] /\ target[c] \in deleting
    /\ \/ deleting' = deleting \ {target[c]} /\ UNCHANGED <<pc, target, found>>
       \/ End(c) /\ UNCHANGED deleting
    /\ UNCHANGED <<live, likes, count, drifted>>

Step(c) ==
    \/ Exists(c) \/ DeleteRow(c) \/ InsertRow(c) \/ ForeignKey(c)
    \/ UpdateCount(c) \/ CommitUnlike(c) \/ CommitLike(c)

Next ==
    \/ \E c \in Calls : Step(c) \/ DeadlockAbort(c) \/ \E p \in Posts : Call(c, p)
    \/ \E p \in Posts : DeletePostRow(p) \/ CascadeCommit(p)

\* The database runs every statement that is not blocked, serves the waiters
\* of a lock in turn (so a statement that can proceed again and again does),
\* finishes a delete it has begun, and looks for a deadlock on behalf of
\* each waiter.
Fairness ==
    /\ \A c \in Calls : SF_vars(Step(c)) /\ WF_vars(DeadlockAbort(c))
    /\ \A p \in Posts : SF_vars(CascadeCommit(p))

Spec == Init /\ [][Next]_vars /\ Fairness

-----------------------------------------------------------------------------
\* The tables, locks and calls keep their types; likes_count is never negative
\* (GREATEST in toggle_like).
TypeOK ==
    /\ live \in SUBSET Posts
    /\ likes \in SUBSET (Users \X Posts)
    /\ count \in [Posts -> Nat]
    /\ pc \in [Calls -> {"idle", "exists", "delete", "insert", "key",
                         "dec", "inc", "delCommit", "insCommit"}]
    /\ target \in [Calls -> Posts \cup {NoPost}]
    /\ \A c \in Calls : pc[c] = "idle" <=> target[c] = NoPost
    /\ found \in [Calls -> BOOLEAN]
    /\ deleting \in SUBSET live
    /\ drifted \in SUBSET Posts

\* Whatever calls and deletes interleave, likes_count never exceeds the
\* number of likes rows of the post: the counter can only drift down.
CounterNeverOver == \A p \in live : count[p] <= Cardinality(LikersOf(p))

\* The only way to a wrong counter is an unlike whose DELETE found its row
\* gone, taken by another call of the same user: every other post has
\* exactly as many likes rows as likes_count says, whatever interleaves.
DriftHasCause == \A p \in live \ drifted : count[p] = Cardinality(LikersOf(p))

\* likes_count is the number of likes rows of the post ("Like / Unlike com
\* contador").
CounterExact == \A p \in live : count[p] = Cardinality(LikersOf(p))

\* A likes row never outlives its post, although toggles and the cascade
\* interleave statement by statement.
NoOrphanLikes == \A r \in likes : r[2] \in live

\* Every ToggleLike call returns, whatever rows other calls and deletes hold.
EveryCallEnds == \A c \in Calls : pc[c] # "idle" ~> pc[c] = "idle"
=============================================================================
