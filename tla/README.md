# Fox 2.0 in TLA+

A specification of the parts of Fox 2.0 whose correctness depends on the order in which things happen:
TLA+ modules translated from the source, TLC runs that check them on small instances, and TLAPS proofs
for instances of every size.

Fox 2.0 is a social network: *Crown*, a C++ gRPC backend over a PostgreSQL (Supabase) database, a Redis
cache and an S3 media store, and *Avocado*, a Vue client. Its own code is about 4,300 lines of C++, 144
lines of SQL and 8,000 lines of TypeScript and Vue. `backend/include`, `backend/src/libs` and
`frontend/src/proto` are vendored or generated and are left aside.

Contents: [1 the system](#1-the-system) · [2 the modules](#2-the-modules) · [3 the runs](#3-the-runs) ·
[4 bounds](#4-bounds) · [5 fairness](#5-fairness) · [6 the proofs](#6-the-proofs) ·
[7 what the code does differently from what it says](#7-where-code-and-text-disagree) ·
[8 not modelled](#8-not-modelled) · [9 plan](#9-plan)

## 1. The system

### How the parts interact

`main` starts a console thread, a *watcher* thread, the CDN server (an HTTP server on a thread of its own
with an `S3Context` that owns a task pool) and the gRPC server, and then waits. Each gRPC call passes the
rate-limit and authentication interceptors, runs its handler on a thread of the gRPC server, and passes the
interceptors again when its status is sent. Handlers call the database over HTTP (PostgREST), read and
invalidate entries of Redis, and hand deletions of media to the task pool through the global `g_cdn`. The
client keeps a list of posts and a session and talks to both servers; every `await` of it is a point where
another action of the user can come in between, and its storage is shared by the tabs of the browser.

### Components, their state and operations

| Component | Source | State | Operations | What is hard | What makes it correct |
|---|---|---|---|---|---|
| Task pool | `backend/src/worker/worker.h` | bounded queue, two condition variables, threads | submit, push, pop, destructor | lost wake-ups, back-pressure, shutdown | every closure runs once; no sleeper leaves work or room unused |
| Tables | `backend/sql/001_new.sql` | users, posts, likes, `likes_count` | `toggle_like`, cascade, read functions | concurrent transactions, locks, deadlock | the counter is the number of likes; no orphans |
| Post handlers | `backend/src/server/server.cpp` | none of their own | CreatePost, GetPost, DeletePost, ListFeed, ListUserPosts, ToggleLike, CountUserPosts | reads, writes and invalidations interleave; answers get lost | answers are right, or stale for a bounded time |
| Cache | `backend/src/cache/cache.h` | entries with a TTL | get, set, del, del_pattern, invalidate_* | staleness, failing commands | an entry agrees with the database or a known reason says why not |
| Users | `backend/src/server/server.cpp` | users table, cached profiles | UpsertUser, Login, GetUserById, GetUserByHandle | check-then-act, ignored failures | one row per user, one user per handle |
| Authentication | `backend/src/middlewares/authMiddle.cpp`, `backend/src/jwt` | users by context, Google's keys | validateToken, key refresh, SetUser, GetUser | unlocked reads, answers out of order, entries that stay | a call is served for the user of its own token; a good token is accepted |
| Rate limiter | `backend/src/middlewares/ratelimit.cpp` | queues of timestamps, a mutex | allowRequest, Intercept | concurrent calls, window boundary | no window exceeds its limit; nobody is refused without cause |
| Process | `backend/src/main.cpp`, `backend/src/command` | shutdown flag, condition variable | start, exit command, stop | lost wake-up, exit during start | an exit command stops the servers |
| CDN server | `backend/src/server/http_server.h` | `running_`, `s3_`, listening thread | start, shutdown, deleteObjectAsync | two threads tear it down while handlers use it | one teardown; no use of what is gone |
| Media | `backend/src/server/http_server.h`, `frontend/src/composables/useImageCdn.ts`, `FiLeUpload.vue`, `CreatePost.vue` | midia_hashes, S3 objects, the upload of each form | check, upload, register, serve, publish, clean-up | several stores, no transaction; requests lost or late | a URL a live post shows can be served; nothing is left behind without a cause |
| Post store | `frontend/src/stores/post-store.ts` | posts, paging, pending likes, flags | fetchPosts, loadMore, criarPost, removePost, toggleLike | state read before an await, used after it | the list is the server's, or a known cause says why not |
| Session | `frontend/src/composables/useAuth.ts`, `useSocialClient.ts`, `App.vue` | cookies, saved user, refreshPromise | restoreSession, refresh, login, logout | late answers, shared refresh, several tabs | logged out means logged out; shown user and token belong together |
| Profile | `frontend/src/composables/useProfileData.ts` | profile, posts | load | answers out of order | the last request wins |
| Pure helpers | `backend/src/crypto`, `backend/src/utils/sanitize.cpp`, `backend/src/codec` | none | Base64Decode, Sanitize*, compress* | boundaries | agree with a reference |

`PROJECT.json` lists these with their status, the hazards at the line where each bites, and the lines each
definition translates.

## 2. The modules

| Module | Models | State ↔ code | Actions ↔ code |
|---|---|---|---|
| `TaskService` | what the pool promises (abstract) | closures new, waiting in order, running, done | Accept, Start, Finish |
| `WorkerPool` | `worker.h` | `queue` = `queue_`, `running` = `running_`, where each worker and producer is, who waits on `cv_push_` and `cv_pop_` | Submit, PushEnter/PushWait (`push`), PopTake/PopEmpty (`pop`), RunTask (thread body), Shutdown (destructor), spurious wake-ups |
| `LikeToggle` | `toggle_like` and ON DELETE CASCADE under READ COMMITTED | `likes`, `count` = `likes_count`, `live` posts, locks by the place a call has reached | one action per statement: Exists, DeleteRow, InsertRow, ForeignKey, UpdateCount, the two commits; DeletePostRow, CascadeCommit; DeadlockAbort |
| `SocialCache` | the post handlers over database and Redis | `live`, `likers`; `cache` by key; for each handler its place, key, value and the keys still to delete | reads Lookup, Reread, Query, Fill; writes CreatePost, DeleteSelect, DeleteExecute, ToggleLike, Invalidate; Expire |
| `Users` | UpsertUser as Login and CreatePost run it, profiles by id and by handle | `rows` = table users (name and handle), `cache`, the locals of each handler | Upsert, Check, Update, CheckHandle, Insert, InvalidateUser; GetUser, Query, Fill; Expire |
| `Media` | an uploaded file from the form to its deletion | `objects` = the bucket, `rows` = midia_hashes, `posts` = image_url of live posts, `tasks` = deletions in the pool, forms and DeletePost calls | client: StartUpload, Abort, Check, Upload, UploadRefused, Register, LateRegister, Publish, Discard; DeletePost: DeleteSelect, DeleteExecute, Lookup, Unregister, Enqueue; pool: RunTask |
| `Auth` | the interceptor, users by context, the validator's keys | `users` = `users_`, `keys` = `keys_`, `recent` = the test of `lastFetch_`, the calls being served | Unchecked, Protected, Fetch, Store, BeginFind, EndFind, Crash, SetUser, Handle, Return, Age; Google: Rotate |
| `RateLimiter` | `ratelimit.cpp` and the path of a call through it | `usage` = `usage_`, `mutex`, `clock` = `nowSeconds()`, `rejected` = `rejected_` | Receive, NoRoute, Reject, Prune, Push, Handle, Send, Done, Tick |
| `Lifecycle` | `main.cpp`, `command.h`, start and stop of both servers | `flag` = `g_shuttingDown`, `cdnRunning` = `running_`, `s3` = `s3_`, `grpc` = `server_`, `gcdn` = `g_cdn`, the place of each thread | one action per access to shared state, named for the function |
| `PostStore` | `post-store.ts` with the server behind it | `posts` is a list of references into `heap`, so that an action can hold an object that is no longer listed; `flags`, `page`, `hasMore`, `likeVersions`, `pendingLikes`; `call` = the locals of each action at its await; the server is `table`, `myLikes` and `others`, the likes of everybody else; `NoId` = the identifier "" of an empty post | BeginLoad, CriarPost, RemovePost, ToggleLike up to the await; ServeFeed, ServeCached, ServeCreate, ServeDelete, ServeLike, Fail, LoseAnswer; OtherUserLikes, OtherTabLikes, OtherDelete, OtherCreate, which other pages do; EndLoad, EndCreate, EndRemove, EndLike after it |
| `Session` | `useSocialClient.ts`, `useAuth.ts`, `App.vue` | `jar` = cookies and saved user, shared; `pg` = user, login, `refreshPromise` and calls of each tab | Load, LoadWithCode, LoginOk, LoginFailed, Logout, AppCall, ReplyOk, ReplyUnauth, RefreshOk, RefreshFailed, Expire |
| `WorkerPoolProofs` | the theorems about `WorkerPool` and `Lifecycle` | | |
| `ClientProofs` | the theorems about `Session` and `PostStore` | | |
| `LikeToggleProofs`, `RateLimiterProofs`, `AuthProofs`, `UsersProofs`, `SocialCacheProofs`, `MediaProofs` | the theorems about the module each extends | | |
| `MC*` | constants for TLC | | |

How the modules fit together. `SocialCache` takes `toggle_like` as one step; `LikeToggle` opens that step up
and shows what it guarantees to concurrent callers. CreatePost is split between `SocialCache` (the post and
its cache keys) and `Users` (its upsert), DeletePost between `SocialCache` and `Media`: the parts share no
state but the post itself. `PostStore` sees the server as its tables, which other users and other
tabs change at any time (`OtherPages`). It has no cache of its own: why an entry is outdated is the subject of
`SocialCache`, and here a feed may come from any such entry, of posts there are or were with any likes of
them (`ServeCached`), or empty, which is what ListFeed answers when `get_feed` fails. CreatePost may answer with an
empty post, when it cannot read back what it wrote. `Media` composes the forms, the CDN routes, DeletePost and the pool over the three
stores they share. `Lifecycle` uses one fact of the pool, that its destructor never returns, which is theorem
`PoolNeverStops` of `WorkerPoolProofs` (`PoolJoins`). `WorkerPool` implements `TaskService` under the mapping
in `ImplementsService`; `Media` takes the pool at that service: a task handed over runs some time.

Choices of grain.

- A critical section is one step, because the mutex makes it one. Where the code reads shared state outside
  a lock (`RequestShutdown`, `deleteObjectAsync`, `findKey`, the two clock readings of `allowRequest`) each
  access is a step of its own.
- A data race is a choice over what the build can do: the use of `s3_` goes on with the value read first or
  crashes (`DeleteSubmit`); a search of `keys_` that a replacement overlaps finds the key, misses it, returns a
  torn one or crashes (`EndFind`, `Crash`).
- In the client, what runs from one event to the next `await` is one step: JavaScript does not interleave
  there. A continuation that has nothing to wait for runs with the event that resolved it (`Session`).
- A database call ends in one of three ways: it worked, it was refused, or it worked and its answer was lost.
  A select that fails is parsed to nothing, and several callers take that for an empty answer (`Users`, `Media`).
  A Redis command may fail, and the code ignores that; a failed GET is a miss with the entry still there.
- Data is what a property can tell apart. A post is its id, its likes and who likes it; a user row its name and
  handle, and names may share a handle; a URL is an object key and how often the serve route stands before it,
  because `check` puts it before a URL that has it already; a token is its user, its key id and whether it
  verifies (`Auth`), or its user only (`Session`, where the server may refuse any token).
- Variables marked as history in the modules (`excused`, `drifted`, `admitted`, `unsure`, `leaked`, `stuck`,
  `shared`, `overlap`, `late`, `mixed`...) are read by properties only.

A property named *...HasCause* lists what makes a wrong state possible. The run shows that there is no other
cause. That each cause is a real one was seen by leaving it out: TLC then finds a counterexample, for every one
of the causes in `SocialCache`, `Users`, `Media`, `Auth`, `Session` and `PostStore`.

External parts, modelled from how the code uses them: condition variables with spurious wake-ups;
PostgreSQL's row locks, foreign keys, key-share locks and deadlock detector; Redis expiry; gRPC's
`Shutdown`, which waits for the calls in flight, and its interceptor hooks, which do not stop a handler;
httplib's `stop()`, which reaches a server only once it listens; Google's key rotation; the network.

## 3. The runs

Passing runs.

| Run | Checks | Shows |
|---|---|---|
| `pool` | `TypeOK`, `OnePlace`, `NoStrandedWork`, `NoStrandedProducer`, `NoWorkerLeaves`, `ImplementsService`, `EveryTaskRuns` | No interleaving of three producers, two workers, spurious wake-ups and the destructor loses or repeats a closure. One `notify_one` per operation is enough: a queued closure always has an awake worker, and a free slot is never left to sleeping producers. No worker leaves its loop, not even after `shutdown()`. The pool is a bounded FIFO service in which every closure runs. |
| `likes` | `TypeOK`, `CounterNeverOver`, `DriftHasCause`, `NoOrphanLikes`, `EveryCallEnds` | With two tabs of one user, a second user and a concurrent delete: the counter is wrong only after an unlike that removed nothing, and then too low, never too high; no like outlives its post; the lock cycle between an unlike and a cascade is broken and every call ends. |
| `cache` | `TypeOK`, `StaleHasCause`, `Settles` | A cached post, list or count that differs from the database has one of the known causes: an invalidation still to come, a key the operation does not delete, a fill that a write overtook, an unconfirmed write, a failed DEL. When writes stop, cached posts and lists end up right for good. |
| `users` | `TypeOK`, `HandleClashHasCause`, `StaleByIdHasCause`, `Settles` | Two users share a handle only if an update gave it (it looks at nobody, and takes back the suffix of a first login), or an insert that another write overtook or whose look failed. A profile cached by id is stale only before the Login that changed it deletes it, after CreatePost changed the row, an overtaken fill or a failed DEL. All cached profiles become right, those by handle only through their TTL. |
| `media` | `DanglingHasCause`, `OrphanHasCause`, `LivePostServed` | A row without an object comes only from a DeletePost that could not delete the row before the object, not from registrations served late; an object nobody knows of only from a failure, an abort or a second upload of the file. A live post whose file was uploaded for it keeps it, unless its form was submitted again after a lost answer: deletion by hash could take the object of another post, and what prevents it is that the URL `check` returns is never served and never matches a row. |
| `auth` | `OkIsForTokenUser`, `RefusedHasCause` | A protected call that is answered OK had a valid token and ran for its user, whatever entry its context had before. A valid token with a published key is refused only if the second fetch failed, or another call replaced the keys during the search or between the second fetch and the search. |
| `limiter` | `TypeOK`, `WindowBound`, `RejectedForCause` | Racing calls never put more admissions into a window than the limit, and a call is refused only when admitted calls fill its window. |
| `lifecycle` | `ProcessTypeOK`, `OneTeardown`, `NoFreedPool`, `CleanStop`, `StopsOrHangs` | Two threads call `CdnServer::shutdown`, never at once. A handler that found `s3_` set never meets a destroyed pool, though the CDN goes first. A process without CDN whose watcher sleeps stops on command. Any process that is told to stop ends, or hangs in one of the places `Hung` names. Deadlock is not checked: the process ends. |
| `store` | `TypeOK`, `NoStuckFlag`, `VersionsAgree`, `DisplayHasCause`, `DuplicateHasCause` | No flag or pending mark outlives its calls. The like version never decides anything: the pending mark before it admits one like per post. A post shown otherwise than the server has it, or twice, is the empty post of a create, or was liked or deleted by somebody else or in another tab while the page had it, changed while a fetch was in flight, lost an answer, or came with an outdated cache entry or a page that had shifted; no order of the page's own calls and their failures is another cause, and a reload from the database that nothing overlaps repairs the list. |
| `session` | `LogoutHolds`, `SavedIsTokenUser`, `EveryCallEnds` | After a logout nothing comes back in any tab until a login, except an id token from a refresh that was under way. The saved user, whom the next load shows, is the user of the token, except after such a refresh or a login that kept another user's refresh token. Every protected call ends, although several wait for one refresh. |

Runs that end in a counterexample, each for a sentence of the repository that the code does not keep
(section 7): `cache_liked_by_me`, `session_restored`.

Each property of a passing run has a mutant in `PROJECT.json`: a plausible slip in the code (a notification
forgotten, a key left out of an invalidation, a boundary off by one) under which TLC finds it violated. The
mutated definitions stand before the ones they replace.

Where deadlock is not checked (`CHECK_DEADLOCK FALSE`) the system may stop: the process ends, it has crashed
(`Auth`), or the bound on events is used up (`store`, `session`, `media`).

## 4. Bounds

- `pool`: 2 workers, 3 producers, 4 closures, capacity 2. More producers than slots and more closures than
  slots and workers together, so that both condition variables have several waiters and the queue is both
  empty and full. The proofs remove the bounds.
- `likes`: one post, 2 users, 3 calls of which two are of one user. Locks are per row, so a second post would
  only add independent behaviour; two calls of one user are what the races need. The proofs remove the bounds.
- `cache`: 2 handlers, one user, one post, `MaxWrites = 1`. DeletePost tests the bound at its select, so two
  deletes, or a delete and another write, do race. `cache_liked_by_me` has two users.
- `users`: 2 users, two names with one handle and the empty name, 2 handlers, `MaxWrites = 2` upserts
  and `MaxReads = 2` reads that miss: enough for two first logins, a login that overtakes one, and a read around both.
- `media`: one file, 2 keys, 2 posts, 2 forms, 2 DeletePost calls. Files meet only through their hash, so one
  is the case that matters; two keys give a second upload of it. Forms and calls are symmetric.
- `auth`: 2 calls, 2 contexts, 2 users, `MaxRotations = 2`, so that an answer can be a whole rotation behind.
  Calls, contexts and users are symmetric.
- `limiter`: 2 calls, one address, one limited and one free method, limit 2, window 2, `MaxTime = 5`, enough
  for queues to fill, empty and fill again. The proofs remove the bounds.
- `lifecycle`: 2 handlers; the threads are what they are.
- `store`: 2 posts and a third that may be created, 3 actions at once, `MaxCalls = 4` calls of the page, changes
  by others and outdated answers together, `OldLikes = 0` likes of others in an outdated row (wrong as soon
  as somebody else likes the post), `FetchLimit = 3` for 50 and `PageSize = 2` for 20: their difference is what `hasMore` and the second page depend on. `Objs` has a
  reference for every object that can be alive: `Room`, the bound on objects in the guards of `EndLoad` and
  `EndCreate`, never holds a step back here. That `FirstPosts` has no post twice is the primary key of `posts`.
  The proofs remove the bounds.
- `session`: 2 tabs, one with two calls that share a refresh, 2 users, `MaxEvents = 3` loads, logins, logouts
  and expiries; calls and answers are not bounded.

## 5. Fairness

Weak fairness for each thread's own steps: a thread that can go on does. For handlers and gRPC calls the
server's threads justify it, for Redis its active expiry (`SocialCache`, `Users`), for the answers a page waits
for the browser, which settles every request with an answer or an error (`Session`). Nothing forces input: no
fairness on submissions, calls, loads, commands or the end of the input. In `likes`, a call that waits for a
lock gets its turn, which PostgreSQL's queue of waiters gives, and the deadlock detector runs. Spurious wake-ups
have no fairness. `Auth`, `Media`, `PostStore` and `RateLimiter` state safety only and need none.

## 6. The proofs

`tlapm` checks every leaf; the only assumptions are the named ASSUMEs of the modules. They say that sets
are finite where they are counted, that sizes are natural numbers, and that the marks for "no row", "no
user" or "no entry" are not values of the set they stand beside. Every theorem holds for any sets and any
bounds on calls, events and writes. Each proof has the same shape: an inductive invariant, a lemma that the
initial states satisfy it, one lemma for each action or kind of action, and the property as its consequence.

**`WorkerPoolProofs`** (any number of threads and closures, any capacity). `Inv` adds two facts to the
properties: nothing clears `running_`, so no worker is past its loop (`StillRunning`), and the queue is
within its capacity (`Bounded`). `NoStrandedWork` needs both: a worker that has left would not take the
closure for which it was woken. `NoStrandedProducer` compares numbers of threads and has its own step
lemma. Theorems: `PoolTypeCorrect`, `PoolOnePlace`, `PoolNoStrandedWork`, `PoolNoStrandedProducer`;
`PoolNeverStops`, that `NoWorkerLeaves` always holds, so that no join of the destructor returns; and
`PoolImplementsService`: every step is a step of `TaskService` or a stutter.

**`LikeToggleProofs`** (any users, posts, tabs and calls). The properties are not inductive: a commit is
right only because of what the call's earlier statements locked. `Locks` says it: between two statements
the row a call is about is as it found it, the post it refers to is not being deleted, and two calls never hold
the same row. `Inv` = `TypeOK` ∧ `Locks` ∧ `NoOrphanLikes`. One lemma per kind of commit then says what
it does to `count` and to the number of rows, and `LikesNeverOver`, `LikesDriftHasCause` and, when no two
calls serve the same user, `LikesExactWhenSerial` follow from it.

**`RateLimiterProofs`** (any calls, addresses, routes, limits and windows). The invariant compares the queue
with the history of admissions: the queue is the newest part of it, and what it has dropped is at least a
window old (`QueueOK`). An admission into a queue with room then has its predecessor by `max_requests`
outside the queue, hence a window earlier: `LimiterWindowBound`. That the clock is read twice does no
harm, since it only grows. `LimiterRejectedForCause` counts the queue's entries as recent admissions. The
pruning loop is handled by the least-number principle (`LeastNat`).

**`WorkerPoolProofs`, second part** (`Lifecycle`, any number of DeletePost handlers). `OneTeardown` needs to
know who got how far: main calls `CdnServer::shutdown` only after it has joined the watcher (`Joined`), the
CDN is built before `running_` is set, and only the thread that cleared `running_` takes it down (`Stages`).
Theorems: `ProcessTypeCorrect`, `OneTeardownHolds`, `NoFreedPoolHolds`; the last rests on the pool's joins
not returning, which is `PoolNeverStops` above.

**`AuthProofs`** (any calls, users, tokens, keys and rotations). A call past `SetUser` finds its own entry
because no other call in flight has its context (`OwnContext`), and what it entered is the user of its token
(`TokenKnown`, `RightUser`). For refusals the invariant says that, without one of the causes, the keys a
call searches after its second fetch hold the published key of its token (`RightKeys`). Theorems:
`OkIsForTokenUserHolds`, `RefusedHasCauseHolds`.

**`UsersProofs`** (any users, names, handles and calls). `HandleClashHasCause` rests on `FreeHolds`: a handler at
its insert that found the handle free, and was not overtaken, would still find it free. For
`StaleByIdHasCause` every write of a row excuses the entry or leaves its handler at the invalidation of that
entry, and a fill with an answer the table no longer gives is excused. Theorems: `TypeCorrect`, `HandleClashHasCauseHolds`, `StaleByIdHasCauseHolds`.

**`SocialCacheProofs`** (any users, posts and calls). `StaleHasCause` is nearly inductive; what it lacks is
`OnlyCreated`: nobody has cached or is about to cache a post that does not exist yet, so that CreatePost makes no
entry of its post stale. The work is in the write steps: each key whose answer (`Seen`) a write changes is among
the keys that write deletes or forgets, key by key (`SeenStep`, `CauseStep`), and a key leaves a `todo`
(`Awaited`) only when it is deleted or excused. Theorems: `TypeCorrect`, `StaleHasCauseHolds`.

**`MediaProofs`** (any files, keys, posts, clients and handlers). The invariant `KeyInv` follows one object
key through its life: nobody knows it before it is handed out (`OnlyUsed`); its URL is with one client
and its row is written once, at once or late (`Once`); until then nothing deletes it (`Pending`); the row goes
before the object (`RowFirst`); unless its form was submitted twice, at most one live post has its URL, none before
the submission, and the clean-up begins when that post is gone (`OnePost`); what did not leak has a row, or is on the way to one or
from one (`Kept`). `DanglingHasCauseHolds` follows from `RowFirst`, `OrphanHasCauseHolds` from `Kept`,
`LivePostServedHolds` from `OnePost`. That the URL of `check` never matches a row (`Found`) is what keeps a
second post of the same file from deleting the object of the first.

**`ClientProofs`**. `Session`, for any users, pages, calls and events: after a logout the refreshes under way are
those of then (`OldRefreshes`), and unless one crossed a login, every refresh token in use is the saved user's
(`OwnRefreshes`). Theorems: `LogoutIsFinal`, `SavedUserIsTokenUser`, and `NoForgottenWaiter`, the safety half of
`EveryCallEnds`: no call waits for a refresh that is over. `PostStore`, for any posts, slots, limits and numbers
of calls: `MarksInv` says that the guards admit one load, and one like of a post, at a time, and that a mark
stands for a call in flight. Theorems: `NoStuckFlagHolds`, `VersionsAgreeHolds`.

`TypeOK` of `PostStore` needs what a call carries (`CallType`) and that the object a like or a delete refers to
stays, and is of its post (`Refers`): `StoreTypeOK`. `DisplayHasCause` and `DuplicateHasCause` are consequences of
one invariant, `CauseInv`, which says of each post that no cause has met yet (`Settled`):

- it is listed once, or held by one delete, or on its way with one create, never two of these (`Once`);
- the object of it shows what the server has, or a like refers to that object and will leave it so, with its
  answer or, when it fails, with what it had read (`Shown`);
- a page that `loadMore` brings has it only while the store has not (`Coming`). That takes positions: until a
  create, of this page or another, or an outdated page shifts the pages, what the store has is before the next page in the table (`Placed`), deletes only move
  posts forward, and a created post that is not listed yet has shifted the pages, or a fetch that will
  replace the list is served (`Made`).

Besides, the overlap of a load holds every post with a change in flight (`LoadGuards`); its answer has no post
twice, ends where its page ends, and agrees with the server on what no change overlapped (`LoadAnswers`); and
nothing is about a post that does not exist yet (`Born`). So an answer that replaces the list leaves all posts
outside the overlap settled, which is why a reload that nothing overlaps repairs the list. What others do settles nothing and
unsettles one post at most: it is excused if the page has it, and in the overlap of a load (`OthersChange`,
`OthersCreate`); an outdated page puts all its posts there (`CachedServed`). There is a lemma for
each action, or two where it succeeds or fails; a post the step is not about is dealt with by `StillShown`,
`StillPlaced` and `StillComing`. `WFMin` of the library gives the first place `find` returns (`IndexOfPlace`).
Theorems: `DisplayHasCauseHolds`, `DuplicateHasCauseHolds`.

Only model-checked: liveness (`EveryTaskRuns`, both `EveryCallEnds`, both `Settles`, `CleanStop`,
`StopsOrHangs`, and the fairness of `TaskService` in `ImplementsService`), which is beyond the prover. Every
invariant that a passing run checks is a theorem.

## 7. Where code and text disagree

| Run | The text | What the code does |
|---|---|---|
| `cache_liked_by_me` | `is_liked_by_me` | the feed is cached with the first reader's flags, for all |
| `session_restored` | `README.md:113` "Sessão restaurada automaticamente" | `restoreSession` gives up when the one-day cookie of the id token is gone, although the thirty-day refresh token and the saved user are there |

Also observed, and part of what the passing properties say:

- `TaskQueue::shutdown` never clears `running_`: the destructor's joins never return (`NoWorkerLeaves`,
  theorem `PoolNeverStops`). An exit command can be lost between the watcher's test and its sleep, or be skipped
  during the start, and `stop()` before `listen()` is lost (`Hung` in `StopsOrHangs`).
- An unlike that deletes no row still decrements `likes_count` (`DriftHasCause`).
- CreatePost and ToggleLike keep the cached list by author, DeletePost the cached number of posts; CreatePost
  reports a post as not created when only the answer was lost (`StaleHasCause`).
- A call the limiter refuses has run: `Intercept` lets it proceed and replaces the status (`Handle` follows
  `Reject`). The same holds for a call whose token is refused (`Handle` in `Auth`).
- An update gives every user the plain handle of the name, so the suffix of a first login lasts until the second
  (`HandleClashHasCause`).
- The URL `check` returns for a file that exists has the serve route twice and is never served, so a post that
  reuses a file shows no image (`LivePostServed`).
- `restoreSession` calls `getProfile`, which the generated client does not have: the saved user is shown and the
  refresh below it is never reached (`Load` in `Session`). Any failure of a refresh deletes both tokens.
- The answer of a like goes to an object that a reload may have replaced, and is then lost to the list until the
  next reload (`DisplayHasCause`).
- `README.md:129` has "Contadores atualizados em tempo real". The counter of a post moves at once with the like of
  this page; likes and deletions by others reach it with the next reload only, and not with one that is
  answered from an outdated entry of the feed's cache. They are the first of the causes in `DisplayHasCause`, and TLC finds a
  counterexample as soon as that one is left out.
- CreatePost answers OK with an empty post when it cannot read the new one back, and the store lists it under the
  identifier "" until the next reload (`DisplayHasCause`). ListFeed answers OK with no post when `get_feed` fails,
  and the store then shows an empty feed.
- `usage_` of the limiter and `users_` of the interceptor grow with every address and context they see;
  CountUserPosts reads its key twice, and an entry that expires in between counts as 0.

## 8. Not modelled

- The codec (libvips, ffmpeg), RSA verification, JSON, Base64 and libsodium: computation on bytes by
  libraries. Their result is a Boolean or a new identifier where a module needs it.
- A token whose header or payload has a field of the wrong JSON type: `value()` throws out of `validateToken`
  (`validator.cpp:200`). `Auth` has the tokens Google issues and those that fail to verify.
- What a refused or token-less call does as the user of an earlier call (`users_`): `Handle` in `Auth` has it, and
  `OkIsForTokenUser` is about the calls that are answered OK.
- The sanitizer: string rewriting character by character, with no state.
- Configuration, logging, query-string building: no behaviour with a history. `Client::login` and the
  token refresh of the database client are not used by the server.
- `useProfileData.ts`: one await; its hazard (an earlier answer that comes last) is in `PROJECT.json`.
- Pages, components and styles: rendering.
- Real time: Redis TTLs and cookies are "some time later"; the limiter counts whole seconds, as the code does.
- Vendored and generated code: `backend/include`, `backend/src/libs` and `frontend/src/proto` are more than 95 in
  100 of the repository's lines (protobuf, OpenSSL, ngtcp2, httplib, nlohmann/json...). A share of all lines
  therefore says little; of the program's own code with state, what is left out is listed above.

## 9. Plan

Done: all modules of section 2, their runs, and the proofs of section 6. What is left is the hazard of
`useProfileData.ts` (section 8), should that composable grow a second await or a state of its own.
