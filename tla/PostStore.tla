------------------------------ MODULE PostStore ------------------------------
(***************************************************************************)
(* The post store of the client, frontend/src/stores/post-store.ts: the    *)
(* list a page shows, its optimistic changes, and the calls in flight.     *)
(* A store action runs without interruption up to its await and again from *)
(* the answer on.  The list holds objects: an action keeps a reference to  *)
(* the object it found before the await and writes to it afterwards, be it *)
(* still listed or not.  The server is the table of posts with their       *)
(* likes, and this page is not the only one to change it: other users, and *)
(* other tabs of this one, like, delete and create at any time, and nobody *)
(* tells the page.  Why an entry of the server's cache may be outdated is  *)
(* the subject of SocialCache; here a feed may be answered from such a one.*)
(***************************************************************************)
EXTENDS Integers, FiniteSets, SequencesExt

CONSTANTS
    Ids,            \* identifiers of posts
    NoId,           \* "", the identifier of an empty post
    Slots,          \* calls in flight at once
    Objs,           \* references to post objects of the page
    FetchLimit,     \* MAX_PAGE_FEED, the limit fetchPosts asks for
    PageSize,       \* the limit loadMore asks for, and hasMore's test
    MaxCalls,       \* bound on the calls of the page, and what others do to them
    OldLikes,       \* bound on the others' likes in an outdated row
    FirstPosts      \* the posts of the server at the start, newest first

ASSUME StoreAssumption ==
    /\ FetchLimit \in Nat /\ PageSize \in 1 .. FetchLimit
    /\ MaxCalls \in Nat /\ OldLikes \in Nat /\ IsFiniteSet(Objs) /\ NoId \notin Ids
    /\ FirstPosts \in Seq(Ids) /\ IsInjective(FirstPosts)

VARIABLES
    table,      \* server: posts, newest first
    myLikes,    \* server: posts this user likes
    others,     \* server: for each post, how many other users like it
    unborn,     \* server: identifiers no post has had yet
    heap,       \* the post objects somebody refers to
    posts,      \* state.posts: a sequence of references
    flags,      \* those of isLoading, isCreating, isDeleting that are set
    page, hasMore, likeVersions, pendingLikes,
    call,       \* the call of each slot: locals of its action, and its answer
    calls,      \* calls made so far, changes by others and outdated answers
    overlap,    \* history: posts a change was in flight for beside a fetch
    shifted,    \* history: the list need not end where the server's next page
                \* begins: a post was created since the last fetch was served,
                \* or an outdated page was
    excused     \* history: posts the list may show wrongly, or twice

server == <<table, myLikes, others, unborn>>
paging == <<page, hasMore>>
likeMarks == <<likeVersions, pendingLikes>>
history == <<overlap, shifted, excused>>
pageState == <<heap, posts, flags, paging, likeMarks>>
vars == <<server, pageState, call, calls, history>>

AnyId == Ids \cup {NoId}
Idle == [op |-> "idle"]

Init ==
    /\ table = FirstPosts /\ unborn = Ids \ Range(FirstPosts)
    /\ myLikes = {} /\ others = [i \in Ids |-> 0]
    /\ heap = << >> /\ posts = << >> /\ flags = {}
    /\ page = 1 /\ hasMore = TRUE
    /\ likeVersions = [i \in AnyId |-> 0] /\ pendingLikes = {}
    /\ call = [s \in Slots |-> Idle] /\ calls = 0
    /\ overlap = {} /\ shifted = FALSE /\ excused = {}

-----------------------------------------------------------------------------
\* A post in an answer, which n other users like.
PostWith(i, liked, n) == [id |-> i, liked |-> liked, count |-> IF liked THEN n + 1 ELSE n]
ServerPost(i) == PostWith(i, i \in myLikes, others[i])
NewPost(i) == PostWith(i, FALSE, 0)

\* ListFeed: offset (page - 1) * limit, at most limit posts.
FeedPage(pg, limit) ==
    LET ids == SubSeq(table, (pg - 1) * limit + 1,
                      IF pg * limit < Len(table) THEN pg * limit ELSE Len(table))
    IN  [k \in DOMAIN ids |-> ServerPost(ids[k])]

Running(ops) == {s \in Slots : call[s].op \in ops}
Loads == Running({"fetch", "more"})
Changes(i) == {s \in Running({"like", "delete"}) : call[s].id = i}

\* Posts a call in flight changes, removes, or has created at the server.
Changing ==
    {i \in Ids : Changes(i) # {} \/ \E s \in Running({"create"}) : call[s].st = "ok" /\ call[s].ans = <<NewPost(i)>>}

\* The page after a step: its list and its calls, and the objects that one
\* of them still refers to.
Page(h, ps, cs) ==
    /\ posts' = ps
    /\ call' = cs
    /\ heap' = [o \in Range(ps) \cup {cs[s].obj : s \in {t \in Slots : cs[t].op \in {"like", "delete"}}}
                |-> h[o]]

\* toPlain: new objects for the posts of an answer, at references not in use.
\* Room bounds them: the page has references left.
Room(n) == n <= Cardinality(Objs \ DOMAIN heap)
Fresh(n) == CHOOSE refs \in [1 .. n -> Objs \ DOMAIN heap] : IsInjective(refs)
WithNew(refs, ans) ==
    [o \in DOMAIN heap \cup Range(refs) |->
        IF o \in DOMAIN heap THEN heap[o] ELSE ans[CHOOSE k \in DOMAIN refs : refs[k] = o]]

\* find and findIndex: the first listed object of a post.
Places(i) == {k \in DOMAIN posts : heap[posts[k]].id = i}
IndexOf(i) == CHOOSE k \in Places(i) : \A j \in Places(i) : k <= j

\* splice(index, 1), and splice(index, 0, object), which appends past the end.
Unlisted(k) == RemoveAt(posts, k)
Relisted(k, o) == InsertAt(posts, IF k <= Len(posts) THEN k ELSE Len(posts) + 1, o)

Done(s) == [call EXCEPT ![s] = Idle]
Raise(f) == flags' = flags \cup {f}

\* Mutant of Lower: the flag is lowered on success only.
MutLower(f) == flags' = IF \E s \in Slots : call[s] # Idle /\ call[s].st = "failed" THEN flags ELSE flags \ {f}

\* finally { this.isLoading = false; } and its like.
Lower(f) == flags' = flags \ {f}

\* A change of post i begins, or lands, while a load may be in flight.
Overlapping(i) == overlap' = IF Loads # {} THEN overlap \cup {i} ELSE overlap

-----------------------------------------------------------------------------
\* fetchPosts and loadMore up to their await.
BeginLoad(s, op) ==
    /\ "isLoading" \notin flags /\ (op = "more" => hasMore)
    /\ Raise("isLoading")
    /\ call' = [call EXCEPT ![s] = [op |-> op, st |-> "sent", ans |-> << >>,
                                    page |-> IF op = "fetch" THEN 1 ELSE page + 1]]
    /\ overlap' = Changing
    /\ UNCHANGED <<server, heap, posts, paging, likeMarks, shifted, excused>>

\* criarPost up to its await.
CriarPost(s) ==
    /\ Raise("isCreating")
    /\ call' = [call EXCEPT ![s] = [op |-> "create", st |-> "sent", ans |-> << >>]]
    /\ UNCHANGED <<server, heap, posts, paging, likeMarks, history>>

\* removePost up to its await: the post leaves the list at once.
RemovePost(s, i) ==
    /\ Places(i) # {}
    /\ Raise("isDeleting")
    /\ LET k == IndexOf(i)
       IN  Page(heap, Unlisted(k),
                [call EXCEPT ![s] = [op |-> "delete", st |-> "sent", id |-> i,
                                     index |-> k, obj |-> posts[k], ans |-> << >>]])
    /\ Overlapping(i)
    /\ UNCHANGED <<server, paging, likeMarks, shifted, excused>>

\* Mutant of MayLike: without the test of _pendingLikes.
MutMayLike(i) == Places(i) # {}

\* The early returns of toggleLike.
MayLike(i) == Places(i) # {} /\ i \notin pendingLikes

\* toggleLike up to its await, with the optimistic change.
ToggleLike(s, i) ==
    /\ MayLike(i)
    /\ likeVersions' = [likeVersions EXCEPT ![i] = @ + 1]
    /\ pendingLikes' = pendingLikes \cup {i}
    /\ LET o == posts[IndexOf(i)]
           p == heap[o]
       IN  Page([heap EXCEPT ![o].liked = ~@, ![o].count = IF p.liked THEN @ - 1 ELSE @ + 1], posts,
                [call EXCEPT ![s] = [op |-> "like", st |-> "sent", id |-> i, obj |-> o, prev |-> p,
                                     version |-> likeVersions[i] + 1, ans |-> << >>]])
    /\ Overlapping(i)
    /\ UNCHANGED <<server, flags, paging, shifted, excused>>

-----------------------------------------------------------------------------
Pending(s, ops) == call[s].op \in ops /\ call[s].st = "sent"
Answer(s, a) == call' = [call EXCEPT ![s].st = "ok", ![s].ans = a]

Limit(s) == IF call[s].op = "fetch" THEN FetchLimit ELSE PageSize

\* The server answers ListFeed: with the page, or, when get_feed fails, with
\* no post at all.
ServeFeed(s) ==
    /\ Pending(s, {"fetch", "more"})
    /\ \E a \in {FeedPage(call[s].page, Limit(s)), << >>} : Answer(s, a)
    /\ shifted' = (shifted /\ call[s].op = "more")
    /\ UNCHANGED <<server, pageState, overlap, excused>>

\* What an entry of the feed's cache may hold that was filled for another
\* reader, or before a change: posts there are or were, with old likes.
OldPages(limit) ==
    {a \in SeqOf({PostWith(i, liked, n) : i \in Ids \ unborn, liked \in BOOLEAN, n \in 0 .. OldLikes}, limit) :
        \A j, k \in DOMAIN a : a[j].id = a[k].id => j = k}

\* The server answers ListFeed from such an entry.
ServeCached(s) ==
    /\ Pending(s, {"fetch", "more"})
    /\ \E a \in OldPages(Limit(s)) :
         /\ Answer(s, a)
         /\ overlap' = overlap \cup {a[k].id : k \in DOMAIN a}
    /\ shifted' = TRUE
    /\ UNCHANGED <<server, pageState, excused>>

\* A post under a new identifier comes first.
Insert(i) ==
    /\ unborn' = unborn \ {i}
    /\ table' = <<i>> \o table
    /\ shifted' = TRUE

\* The server creates a post, and answers with it or, when it cannot read it
\* back, with an empty post.
ServeCreate(s) ==
    /\ Pending(s, {"create"})
    /\ \E i \in unborn :
         /\ Insert(i)
         /\ \E j \in {i, NoId} : Answer(s, <<NewPost(j)>>)
         /\ Overlapping(i)
    /\ UNCHANGED <<myLikes, others, pageState, excused>>

\* Mutant of Cascade: the likes of a deleted post stay.
MutCascade(i) == myLikes

\* The likes a deletion leaves.
Cascade(i) == myLikes \ {i}

\* The post leaves the table, and its likes with it.
Delete(i) ==
    /\ \E k \in DOMAIN table : table[k] = i /\ table' = RemoveAt(table, k)
    /\ myLikes' = Cascade(i)

\* The server deletes the post.
ServeDelete(s) ==
    /\ Pending(s, {"delete"})
    /\ Delete(call[s].id)
    /\ Answer(s, << >>)
    /\ UNCHANGED <<others, unborn, pageState, history>>

\* This user's like of a post is set or taken back.
Toggle(i) ==
    /\ Contains(table, i)
    /\ myLikes' = IF i \in myLikes THEN myLikes \ {i} ELSE myLikes \cup {i}

\* The server toggles the like and answers with its new state.
ServeLike(s) ==
    /\ Pending(s, {"like"})
    /\ LET i == call[s].id
       IN  Toggle(i) /\ Answer(s, PostWith(i, i \notin myLikes, others[i]))
    /\ UNCHANGED <<table, others, unborn, pageState, history>>

\* The call fails without effect: refused (a post that is gone is NOT_FOUND,
\* an empty identifier INVALID_ARGUMENT),
\* lost on the way, or a feed refused as UNAUTHENTICATED with no token left.
Fail(s) ==
    /\ call[s] # Idle /\ call[s].st = "sent"
    /\ \E st \in {"failed"} \cup (IF call[s].op = "fetch" THEN {"signedOut"} ELSE {}) :
         call' = [call EXCEPT ![s].st = st]
    /\ UNCHANGED <<server, pageState, history>>

\* The call takes effect and its answer is lost: the client sees a failure.
LoseAnswer(s) ==
    /\ call[s].op \in {"create", "delete", "like"} /\ call[s].st = "ok"
    /\ call' = [call EXCEPT ![s].st = "failed"]
    /\ excused' = IF call[s].op = "create" THEN excused ELSE excused \cup {call[s].id}
    /\ UNCHANGED <<server, pageState, overlap, shifted>>

-----------------------------------------------------------------------------
\* The page has an object of the post, or an answer with it is on its way.
Holds(i) ==
    \/ \E o \in DOMAIN heap : heap[o].id = i
    \/ \E s \in Running({"fetch", "more", "create"}) : \E k \in DOMAIN call[s].ans : call[s].ans[k].id = i

\* Somebody else changes the post: what the page has of it is outdated.
Disturb(i) == Overlapping(i) /\ excused' = IF Holds(i) THEN excused \cup {i} ELSE excused

\* Another user likes the post or takes a like back.
OtherUserLikes(i) ==
    /\ Contains(table, i)
    /\ \E n \in {others[i] - 1, others[i] + 1} \cap Nat : others' = [others EXCEPT ![i] = n]
    /\ Disturb(i)
    /\ UNCHANGED <<table, myLikes, unborn, shifted>>

\* This user does, in another tab.
OtherTabLikes(i) ==
    /\ Toggle(i)
    /\ Disturb(i)
    /\ UNCHANGED <<table, others, unborn, shifted>>

\* The author deletes the post, from another page.
OtherDelete(i) ==
    /\ Delete(i)
    /\ Disturb(i)
    /\ UNCHANGED <<others, unborn, shifted>>

\* Another page creates a post.
OtherCreate(i) ==
    /\ i \in unborn
    /\ Insert(i)
    /\ UNCHANGED <<myLikes, others, overlap, excused>>

-----------------------------------------------------------------------------
Back(s, op) == call[s].op = op /\ call[s].st \in {"ok", "failed", "signedOut"}
Ok(s) == call[s].st = "ok"

\* Mutant of Replaced: the answer is appended.
MutReplaced(refs) == posts \o refs

\* this.posts = posts.map(toPlain)
Replaced(refs) == refs

\* fetchPosts and loadMore end: the answer replaces the list or is appended
\* to it; after a failure the list stays, unless the user is signed out.
EndLoad(s) ==
    /\ Back(s, "fetch") \/ Back(s, "more")
    /\ LET ans == call[s].ans
           refs == Fresh(Len(ans))
       IN  IF Ok(s)
           THEN /\ Room(Len(ans))
                /\ Page(WithNew(refs, ans),
                        IF call[s].op = "fetch" THEN Replaced(refs) ELSE posts \o refs, Done(s))
                /\ page' = call[s].page
                /\ hasMore' = (Len(ans) = PageSize)
                /\ excused' = IF call[s].op = "fetch" THEN overlap
                              ELSE excused \cup
                                   (IF shifted THEN {ans[k].id : k \in DOMAIN ans} ELSE {})
           ELSE /\ Page(heap, IF call[s].st = "signedOut" THEN << >> ELSE posts, Done(s))
                /\ UNCHANGED <<paging, excused>>
    /\ Lower("isLoading")
    /\ overlap' = {}
    /\ UNCHANGED <<server, likeMarks, shifted>>

\* criarPost ends: the created post comes first.
EndCreate(s) ==
    /\ Back(s, "create")
    /\ IF Ok(s) THEN Room(1) /\ Page(WithNew(Fresh(1), call[s].ans), Fresh(1) \o posts, Done(s))
                ELSE Page(heap, posts, Done(s))
    /\ Lower("isCreating")
    /\ UNCHANGED <<server, paging, likeMarks, history>>

\* removePost ends: after a failure the object returns to its old index.
EndRemove(s) ==
    /\ Back(s, "delete")
    /\ Page(heap, IF Ok(s) THEN posts ELSE Relisted(call[s].index, call[s].obj), Done(s))
    /\ Lower("isDeleting")
    /\ UNCHANGED <<server, paging, likeMarks, history>>

\* The like this call made is still the last of its post.
Current(s) == likeVersions[call[s].id] = call[s].version

\* Mutant of Rollback: the optimistic values stay.
MutRollback(s) == heap[call[s].obj]

\* What a failed like leaves: the values it had read.
Rollback(s) == call[s].prev

\* toggleLike ends: answer or rollback go to the object found before.
EndLike(s) ==
    /\ Back(s, "like")
    /\ LET now == IF Ok(s) THEN call[s].ans ELSE Rollback(s)
       IN  Page(IF Current(s) THEN [heap EXCEPT ![call[s].obj] = now] ELSE heap, posts, Done(s))
    /\ pendingLikes' = pendingLikes \ {call[s].id}
    /\ UNCHANGED <<server, flags, paging, likeVersions, history>>

-----------------------------------------------------------------------------
Begin(s) ==
    /\ call[s] = Idle
    /\ \/ \E op \in {"fetch", "more"} : BeginLoad(s, op)
       \/ CriarPost(s)
       \/ \E i \in AnyId : RemovePost(s, i) \/ ToggleLike(s, i)

Serve(s) == ServeFeed(s) \/ ServeCreate(s) \/ ServeDelete(s) \/ ServeLike(s) \/ Fail(s) \/ LoseAnswer(s)

OtherPages == \E i \in Ids : OtherUserLikes(i) \/ OtherTabLikes(i) \/ OtherDelete(i) \/ OtherCreate(i)

End(s) == EndLoad(s) \/ EndCreate(s) \/ EndRemove(s) \/ EndLike(s)

Next ==
    \/ /\ calls < MaxCalls /\ calls' = calls + 1
       /\ \/ \E s \in Slots : Begin(s) \/ ServeCached(s)
          \/ OtherPages /\ UNCHANGED <<pageState, call>>
    \/ (\E s \in Slots : Serve(s) \/ End(s)) /\ UNCHANGED calls

Spec == Init /\ [][Next]_vars

-----------------------------------------------------------------------------
\* The state keeps its types: among others, the server's likes are of its posts
\* (ON DELETE CASCADE), and every listed reference has its object.
TypeOK ==
    /\ table \in Seq(Ids) /\ IsInjective(table)
    /\ myLikes \subseteq Range(table) /\ others \in [Ids -> Nat] /\ unborn \subseteq Ids \ Range(table)
    /\ DOMAIN heap \subseteq Objs
    /\ \A o \in DOMAIN heap : heap[o] \in [id : AnyId, liked : BOOLEAN, count : Int]
    /\ posts \in Seq(DOMAIN heap)
    /\ flags \subseteq {"isLoading", "isCreating", "isDeleting"}
    /\ page \in Nat /\ hasMore \in BOOLEAN
    /\ likeVersions \in [AnyId -> 0 .. calls] /\ pendingLikes \subseteq AnyId
    /\ DOMAIN call = Slots /\ calls \in 0 .. MaxCalls
    /\ overlap \subseteq AnyId /\ excused \subseteq AnyId /\ shifted \in BOOLEAN

\* No flag or pending mark outlives its calls, whichever of several calls of
\* the same kind fail and in whatever order they end: the spinner does not
\* stay, the guard of fetchPosts and loadMore opens again, a post can be
\* liked again.  A load and a like are marked as long as they run (their
\* guards admit one at a time); a second create or delete may clear the mark
\* of the first.
NoStuckFlag ==
    /\ "isLoading" \in flags <=> Loads # {}
    /\ Cardinality(Loads) <= 1
    /\ "isCreating" \in flags => Running({"create"}) # {}
    /\ "isDeleting" \in flags => Running({"delete"}) # {}
    /\ pendingLikes = {call[s].id : s \in Running({"like"})}

\* The like version never decides anything: with the pending mark before it,
\* every answer of a like is the answer of the latest like of its post.
VersionsAgree == \A s \in Running({"like"}) : Current(s)

\* A post that the list shows otherwise than the server has it (another like
\* or count, or a post that is gone), while no call about it is in flight, has
\* one of these causes: it is the empty post of a create that the server could
\* not read back; or, since the last reload,
\*  - somebody else, or another tab, liked or deleted it while the page had it:
\*    nothing brings such a change to the page;
\*  - it was changed while fetchPosts was in flight (the answer went to an
\*    object the fetch replaced, or the fetch had read the state before);
\*  - the answer of a change of it was lost;
\*  - it came with an outdated entry of the feed's cache, or with a page that
\*    had shifted.
\* The page's own calls, whatever fails and in whatever order they end, are
\* otherwise no cause; a reload of the database's feed that nothing overlaps
\* removes every difference.
DisplayHasCause ==
    \A k \in DOMAIN posts :
        LET p == heap[posts[k]]
        IN  \/ p.id = NoId \/ p.id \in excused \/ Changes(p.id) # {}
            \/ Contains(table, p.id) /\ p = ServerPost(p.id)

\* A post is listed twice only after such a cause: a
\* failed delete alone, wherever it puts its post back, duplicates nothing.
DuplicateHasCause == \A i \in Ids : Cardinality(Places(i)) > 1 => i \in excused
=============================================================================
