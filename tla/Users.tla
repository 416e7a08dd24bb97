-------------------------------- MODULE Users --------------------------------
(***************************************************************************)
(* The users of CrownServer (backend/src/server/server.cpp): UpsertUser as *)
(* Login and CreatePost run it, the handle it derives from the name, and   *)
(* the profiles by id and by handle with their cache entries.              *)
(*                                                                         *)
(* Handlers run concurrently; each call to the database or to Redis is a   *)
(* step.  A select may fail and is then taken for an empty answer; a write *)
(* may be refused, or take effect without an answer, and the handler goes  *)
(* on either way.  The table has a primary key on id and no constraint on  *)
(* handle.  A row is reduced to its username and handle.                   *)
(***************************************************************************)
EXTENDS Naturals, FiniteSets

CONSTANTS
    Ids,            \* user ids, from the tokens
    Names,          \* the names tokens may carry
    NoName,         \* the empty name, one of Names
    FirstUser, FirstName,
    Handlers,
    HandleOf,       \* sanitize_handle: several names may share a handle
    Nothing,        \* no row, no entry, no value
    Failures,       \* may calls of the database and of Redis fail?
    MaxWrites,      \* bound on the upserts of a behaviour
    MaxReads        \* bound on the reads that miss the cache

ASSUME UsersAssumption ==
    /\ FirstUser \in Ids /\ FirstName \in Names \ {NoName}
    /\ NoName \in Names /\ HandleOf \in [Names -> {HandleOf[n] : n \in Names}]
    /\ Failures \in BOOLEAN /\ MaxWrites \in Nat /\ MaxReads \in Nat
    /\ Nothing \notin Ids

VARIABLES
    rows,       \* table users
    cache,      \* Redis, by key
    at,         \* what each handler does next, with its locals
    writes,     \* upserts begun
    reads,      \* reads that missed the cache
    unsure,     \* history: ids whose handle was written without a valid check
    excused     \* history: keys whose entry may be stale, see StaleByIdHasCause

vars == <<rows, cache, at, writes, reads, unsure, excused>>

\* The handle of a name, and the one with the suffix "_" and
\* GenerateRandomHex(4), taken to be new: one for each user.
Plain(n) == <<HandleOf[n], Nothing>>
Suffixed(n, i) == <<HandleOf[n], i>>
Handles == {Plain(n) : n \in Names} \cup {Suffixed(n, i) : n \in Names, i \in Ids}

\* Nothing stands for no row.
ASSUME NothingAssumption == Nothing \notin [name : Names, handle : Handles]

UserKey(i) == <<"user", i>>
HandleKey(hd) == <<"handleuser", hd>>
Keys == {UserKey(i) : i \in Ids} \cup {HandleKey(hd) : hd \in Handles}

Idle == [pc |-> "idle"]

\* The server starts over a table that is empty or has the first user, and
\* an empty cache.
Init ==
    /\ \E old \in {{}, {FirstUser}} :
         rows = [i \in Ids |-> IF i \in old THEN [name |-> FirstName, handle |-> Plain(FirstName)]
                               ELSE Nothing]
    /\ cache = [k \in Keys |-> Nothing]
    /\ at = [h \in Handlers |-> Idle]
    /\ writes = 0 /\ reads = 0
    /\ unsure = {} /\ excused = {}

-----------------------------------------------------------------------------
Known == {i \in Ids : rows[i] # Nothing}
Owners(hd) == {i \in Known : rows[i].handle = hd}

\* The rows the select of a read may answer with.
Answers(k) ==
    IF k[1] = "user" THEN {[id |-> i, row |-> rows[i]] : i \in Known \cap {k[2]}}
    ELSE {[id |-> i, row |-> rows[i]] : i \in Owners(k[2])}

Stale(k) == cache[k] # Nothing /\ cache[k] \notin Answers(k)

Goto(h, s) == at' = [at EXCEPT ![h].pc = s]
Now(h, s) == at[h].pc = s

\* The upsert is over: Login goes on to invalidate_user, CreatePost has
\* nothing to invalidate.
After(h) == IF at[h].op = "login" THEN [at[h] EXCEPT !.pc = "invalidate"] ELSE Idle

-----------------------------------------------------------------------------
\* Login, or CreatePost, of a user whose token carries a name.
Upsert(h, op, i, n) ==
    /\ Now(h, "idle") /\ writes < MaxWrites
    /\ at' = [at EXCEPT ![h] = [pc |-> "check", op |-> op, id |-> i, name |-> n,
                                free |-> FALSE, raced |-> FALSE]]
    /\ writes' = writes + 1
    /\ UNCHANGED <<rows, cache, reads, unsure, excused>>

\* The select by id; a failed one looks like a new user.
Check(h) ==
    /\ Now(h, "check")
    /\ \/ Goto(h, IF at[h].id \in Known THEN "update" ELSE "handle")
       \/ Failures /\ Goto(h, "handle")
    /\ UNCHANGED <<rows, cache, writes, reads, unsure, excused>>

\* A write of user i's row by handler h, answered or not: handlers that
\* have looked a handle up are overtaken, and an entry by id that CreatePost
\* makes stale stays so until it expires.
Write(h, i, r) ==
    /\ rows' = [rows EXCEPT ![i] = r]
    /\ at' = [g \in Handlers |->
                IF g = h THEN After(h)
                ELSE IF at[g].pc = "insert" THEN [at[g] EXCEPT !.raced = TRUE] ELSE at[g]]
    /\ excused' = IF at[h].op = "login" THEN excused ELSE excused \cup {UserKey(i)}

\* The write is refused; its result is not looked at.
Skip(h) == at' = [at EXCEPT ![h] = After(h)] /\ UNCHANGED <<rows, unsure, excused>>

\* Mutant of Renamed: the new name is written, the handle is forgotten.
MutRenamed(r, n) == IF n = NoName THEN r ELSE [r EXCEPT !.name = n]

\* What an update makes of a row: an empty name changes nothing of it.
Renamed(r, n) == IF n = NoName THEN r ELSE [name |-> n, handle |-> Plain(n)]

\* update_execute: the handle is derived from the name again, without a
\* look at the other users.
Update(h) ==
    /\ Now(h, "update")
    /\ LET i == at[h].id
       IN  \/ /\ Write(h, i, Renamed(rows[i], at[h].name))
              /\ unsure' = IF at[h].name = NoName THEN unsure ELSE unsure \cup {i}
           \/ Failures /\ Skip(h)
    /\ UNCHANGED <<cache, writes, reads>>

\* The select by handle; a failed one finds the handle free.
CheckHandle(h) ==
    /\ Now(h, "handle")
    /\ \/ at' = [at EXCEPT ![h].pc = "insert", ![h].free = Owners(Plain(at[h].name)) = {}]
       \/ Failures /\ at' = [at EXCEPT ![h].pc = "insert", ![h].free = TRUE, ![h].raced = TRUE]
    /\ UNCHANGED <<rows, cache, writes, reads, unsure, excused>>

\* Mutant of NewHandle: the answer of the select is ignored.
MutNewHandle(h) == Plain(at[h].name)

\* The handle of the new row.
NewHandle(h) ==
    IF at[h].free THEN Plain(at[h].name) ELSE Suffixed(at[h].name, at[h].id)

\* The insert; the primary key refuses a user who has come in between, and
\* the refusal is ignored.
Insert(h) ==
    /\ Now(h, "insert")
    /\ LET i == at[h].id
       IN  \/ /\ i \notin Known
              /\ Write(h, i, [name |-> at[h].name, handle |-> NewHandle(h)])
              /\ unsure' = IF at[h].raced THEN unsure \cup {i} ELSE unsure
           \/ (Failures \/ i \in Known) /\ Skip(h)
    /\ UNCHANGED <<cache, writes, reads>>

\* Mutant of LoginKey: the entry by handle is deleted instead.
MutLoginKey(h) == HandleKey(Plain(at[h].name))

\* The key Login deletes.
LoginKey(h) == UserKey(at[h].id)

\* invalidate_user at the end of Login.
InvalidateUser(h) ==
    /\ Now(h, "invalidate")
    /\ \/ cache' = [cache EXCEPT ![LoginKey(h)] = Nothing] /\ excused' = excused \ {LoginKey(h)}
       \/ Failures /\ excused' = excused \cup {LoginKey(h)} /\ UNCHANGED cache
    /\ at' = [at EXCEPT ![h] = Idle]
    /\ UNCHANGED <<rows, writes, reads, unsure>>

-----------------------------------------------------------------------------
\* GetUserById and GetUserByHandle: an empty handle is refused, a hit is
\* the answer; a failed GET is a miss, be there an entry or not.
GetUser(h, k) ==
    /\ Now(h, "idle") /\ reads < MaxReads
    /\ reads' = reads + 1
    /\ k # HandleKey(Plain(NoName)) /\ (cache[k] = Nothing \/ Failures)
    /\ at' = [at EXCEPT ![h] = [pc |-> "query", key |-> k]]
    /\ UNCHANGED <<rows, cache, writes, unsure, excused>>

\* The select, limited to one row; none, or a failure, is NOT_FOUND.
Query(h) ==
    /\ Now(h, "query")
    /\ \/ \E v \in Answers(at[h].key) : at' = [at EXCEPT ![h] = [pc |-> "fill", key |-> at[h].key, val |-> v]]
       \/ (Failures \/ Answers(at[h].key) = {}) /\ at' = [at EXCEPT ![h] = Idle]
    /\ UNCHANGED <<rows, cache, writes, reads, unsure, excused>>

\* set_json with CACHE_TTL_USER.
Fill(h) ==
    /\ Now(h, "fill")
    /\ LET k == at[h].key
       IN  \/ /\ cache' = [cache EXCEPT ![k] = at[h].val]
              /\ excused' = IF at[h].val \in Answers(k) THEN excused \ {k} ELSE excused \cup {k}
           \/ Failures /\ UNCHANGED <<cache, excused>>
    /\ at' = [at EXCEPT ![h] = Idle]
    /\ UNCHANGED <<rows, writes, reads, unsure>>

\* Mutant of Expire: entries by handle are set without a TTL.
MutExpire(k) ==
    /\ cache[k] # Nothing /\ k[1] = "user"
    /\ cache' = [cache EXCEPT ![k] = Nothing]
    /\ UNCHANGED <<rows, at, writes, reads, unsure, excused>>

\* The TTL of an entry runs out.
Expire(k) ==
    /\ cache[k] # Nothing
    /\ cache' = [cache EXCEPT ![k] = Nothing]
    /\ UNCHANGED <<rows, at, writes, reads, unsure, excused>>

Step(h) ==
    \/ Check(h) \/ Update(h) \/ CheckHandle(h) \/ Insert(h) \/ InvalidateUser(h)
    \/ Query(h) \/ Fill(h)

Next ==
    \/ \E h \in Handlers :
         \/ Step(h)
         \/ \E op \in {"login", "post"}, i \in Ids, n \in Names : Upsert(h, op, i, n)
         \/ \E k \in Keys : GetUser(h, k)
    \/ \E k \in Keys : Expire(k)

\* A handler that has begun runs to its return; Redis expires every entry.
Fairness == (\A h \in Handlers : WF_vars(Step(h))) /\ (\A k \in Keys : WF_vars(Expire(k)))

Spec == Init /\ [][Next]_vars /\ Fairness

-----------------------------------------------------------------------------
\* The handle of a row is the one of its name, with or without the suffix.
RowType(i) == UNION {[name : {n}, handle : {Plain(n), Suffixed(n, i)}] : n \in Names}

\* The state keeps its types; the handle of a row, also of a cached one, is
\* that of its name (sanitize_handle), whatever upserts interleave.
TypeOK ==
    /\ \A i \in Ids : rows[i] = Nothing \/ rows[i] \in RowType(i)
    /\ \A k \in Keys : cache[k] = Nothing \/ cache[k].row \in RowType(cache[k].id)
    /\ \A h \in Handlers :
         at[h].pc \in {"idle", "check", "update", "handle", "insert", "invalidate", "query", "fill"}
    /\ writes \in 0 .. MaxWrites /\ reads \in 0 .. MaxReads /\ unsure \subseteq Known

\* Two users share a handle only if one of them got it from an update, which
\* looks at nobody else (and so takes back the suffix a first login added),
\* or from an insert that another write overtook after its look at the
\* handles, or whose look failed.  First logins one after the other never
\* share one.
HandleClashHasCause ==
    \A i, j \in Known : i # j /\ rows[i].handle = rows[j].handle => i \in unsure \/ j \in unsure

\* The entry of a profile by id is stale only while a Login that changed the
\* row has not deleted it yet, or because CreatePost changed the row, a
\* fill was overtaken by a write, or the deletion failed.
StaleByIdHasCause ==
    \A i \in Ids : Stale(UserKey(i)) =>
        \/ UserKey(i) \in excused
        \/ \E h \in Handlers : Now(h, "invalidate") /\ at[h].id = i

\* When the upserts stop, every cached profile, by id and by the handle that
\* no write deletes, becomes the row of the table.
Settles == <>[](\A k \in Keys : ~Stale(k))
=============================================================================
