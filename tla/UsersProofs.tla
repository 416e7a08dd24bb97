----------------------------- MODULE UsersProofs -----------------------------
(***************************************************************************)
(* Proofs about Users for any users, names, handles and handlers.          *)
(***************************************************************************)
EXTENDS Users, TLAPS

UpsertRecord ==
    [pc : {"check", "update", "handle", "insert", "invalidate"}, op : {"login", "post"},
     id : Ids, name : Names, free : BOOLEAN, raced : BOOLEAN]
QueryRecord == [pc : {"query"}, key : Keys]

\* What a select may answer with.
Value == UNION {[id : {i}, row : RowType(i)] : i \in Ids}
FillRecord == [pc : {"fill"}, key : Keys, val : Value]

\* The types of all variables; an update is of a user who has a row.
UsersType ==
    /\ rows \in [Ids -> {Nothing} \cup UNION {RowType(i) : i \in Ids}]
    /\ \A i \in Ids : rows[i] \in {Nothing} \cup RowType(i)
    /\ cache \in [Keys -> {Nothing} \cup Value]
    /\ at \in [Handlers -> {Idle} \cup UpsertRecord \cup QueryRecord \cup FillRecord]
    /\ \A h \in Handlers : at[h].pc = "update" => at[h].id \in Known
    /\ writes \in 0 .. MaxWrites /\ reads \in 0 .. MaxReads /\ unsure \subseteq Known

\* A handler that found a handle free and was not overtaken may rely on it.
FreeHolds ==
    \A h \in Handlers : Now(h, "insert") /\ at[h].free /\ ~at[h].raced => Owners(Plain(at[h].name)) = {}

Inv == UsersType /\ FreeHolds /\ HandleClashHasCause /\ StaleByIdHasCause

-----------------------------------------------------------------------------
\* The rows a name may have, and what a row shows of its name.
LEMMA RowIntro ==
    ASSUME NEW i \in Ids, NEW n \in Names, NEW hd \in {Plain(n), Suffixed(n, i)}
    PROVE  [name |-> n, handle |-> hd] \in RowType(i) /\ [name |-> n, handle |-> hd] # Nothing
  <1>1. [name |-> n, handle |-> hd] \in [name : Names, handle : Handles]
    BY DEF Handles
  <1> QED
    BY <1>1, NothingAssumption DEF RowType

LEMMA RowElim ==
    ASSUME NEW i \in Ids, NEW r \in RowType(i)
    PROVE  /\ \E n \in Names : r.name = n /\ r.handle \in {Plain(n), Suffixed(n, i)}
           /\ r # Nothing
  <1>1. PICK n \in Names : r \in [name : {n}, handle : {Plain(n), Suffixed(n, i)}]
    BY DEF RowType
  <1>2. r.name = n /\ r.handle \in {Plain(n), Suffixed(n, i)}
    BY <1>1
  <1>3. r \in [name : Names, handle : Handles]
    BY <1>1 DEF Handles
  <1> QED
    BY <1>2, <1>3, NothingAssumption

\* A suffixed handle is of one user only.
LEMMA SuffixOwn ==
    ASSUME NEW i \in Ids, NEW j \in Ids, NEW n \in Names, NEW m \in Names,
           Suffixed(n, i) \in {Plain(m), Suffixed(m, j)}
    PROVE  i = j
  BY UsersAssumption DEF Plain, Suffixed

LEMMA ValueIntro ==
    ASSUME NEW i \in Ids, NEW r \in RowType(i)
    PROVE  [id |-> i, row |-> r] \in Value
  BY DEF Value

LEMMA ValueElim ==
    ASSUME NEW v \in Value
    PROVE  v.id \in Ids /\ v.row \in RowType(v.id)
  BY DEF Value

\* The answer of the select by id.
LEMMA ByIdAnswers ==
    ASSUME NEW i \in Ids
    PROVE  Answers(UserKey(i)) = IF rows[i] = Nothing THEN {} ELSE {[id |-> i, row |-> rows[i]]}
  BY DEF Answers, UserKey, Known

\* Whatever the key, the answers of a select are of the type of cached values.
LEMMA AnswersType ==
    ASSUME UsersType, NEW k \in Keys, NEW v \in Answers(k)
    PROVE  v \in Value
  <1>1. PICK i \in Known : v = [id |-> i, row |-> rows[i]]
    BY DEF Answers, Owners
  <1>2. i \in Ids /\ rows[i] \in RowType(i)
    BY DEF UsersType, Known
  <1> QED
    BY <1>1, <1>2, ValueIntro

\* What a handler at each place has.
LEMMA AtUpsert ==
    ASSUME UsersType, NEW h \in Handlers,
           at[h].pc \in {"check", "update", "handle", "insert", "invalidate"}
    PROVE  at[h] \in UpsertRecord
  BY DEF UsersType, Idle, QueryRecord, FillRecord

LEMMA AtRead ==
    ASSUME UsersType, NEW h \in Handlers
    PROVE  /\ at[h].pc = "query" => at[h] \in QueryRecord
           /\ at[h].pc = "fill" => at[h] \in FillRecord
  BY DEF UsersType, Idle, UpsertRecord, QueryRecord, FillRecord

LEMMA InitInv == Init => Inv
  <1> SUFFICES ASSUME Init PROVE Inv
    OBVIOUS
  <1>1. PICK old \in {{}, {FirstUser}} :
          rows = [i \in Ids |-> IF i \in old THEN [name |-> FirstName, handle |-> Plain(FirstName)]
                                ELSE Nothing]
    BY DEF Init
  <1>2. \A i \in Ids : rows[i] \in {Nothing} \cup RowType(i) /\ (rows[i] # Nothing => i = FirstUser)
    BY <1>1, RowIntro, UsersAssumption
  <1>3. \A h \in Handlers : at[h] = Idle /\ at[h].pc = "idle"
    BY DEF Init, Idle
  <1>4. UsersType
    <2>1. rows \in [Ids -> {Nothing} \cup UNION {RowType(i) : i \in Ids}]
      BY <1>1, <1>2
    <2> QED
      BY <1>2, <1>3, <2>1, UsersAssumption DEF Init, UsersType
  <1>5. FreeHolds
    BY <1>3 DEF FreeHolds, Now
  <1>6. HandleClashHasCause
    BY <1>2 DEF HandleClashHasCause, Known
  <1>7. StaleByIdHasCause
    BY DEF Init, StaleByIdHasCause, Stale, Keys
  <1> QED
    BY <1>4, <1>5, <1>6, <1>7 DEF Inv

-----------------------------------------------------------------------------
Invalidating(i) == \E h \in Handlers : Now(h, "invalidate") /\ at[h].id = i

\* A step keeps StaleByIdHasCause if every entry by id is excused, awaits its
\* deletion, is absent or up to date afterwards, or is as it was.
LEMMA StaleStep ==
    ASSUME StaleByIdHasCause,
           \A i \in Ids :
             \/ UserKey(i) \in excused'
             \/ Invalidating(i)'
             \/ cache'[UserKey(i)] = Nothing
             \/ cache'[UserKey(i)] \in Answers(UserKey(i))'
             \/ /\ rows'[i] = rows[i] /\ cache'[UserKey(i)] = cache[UserKey(i)]
                /\ UserKey(i) \in excused => UserKey(i) \in excused'
                /\ Invalidating(i) => Invalidating(i)'
    PROVE  StaleByIdHasCause'
  <1> SUFFICES ASSUME NEW i \in Ids, Stale(UserKey(i))'
               PROVE  UserKey(i) \in excused' \/ Invalidating(i)'
    BY DEF StaleByIdHasCause, Invalidating
  <1>1. Answers(UserKey(i)) = IF rows[i] = Nothing THEN {} ELSE {[id |-> i, row |-> rows[i]]}
    BY ByIdAnswers
  <1>2. Answers(UserKey(i))' = IF rows'[i] = Nothing THEN {} ELSE {[id |-> i, row |-> rows'[i]]}
    BY DEF Answers, UserKey, Known
  <1>3. ASSUME rows'[i] = rows[i], cache'[UserKey(i)] = cache[UserKey(i)]
        PROVE  Stale(UserKey(i))
    BY <1>1, <1>2, <1>3 DEF Stale
  <1> QED
    BY <1>3 DEF Stale, StaleByIdHasCause, Invalidating

\* Distinct users have distinct keys, and no key by handle is one by id.
LEMMA KeysApart ==
    /\ \A i \in Ids : UserKey(i) \in Keys
    /\ \A i, j \in Ids : UserKey(i) = UserKey(j) => i = j
  BY DEF Keys, UserKey

\* A write of a row: the type, and what it leaves of the other rows.
LEMMA WriteInv ==
    ASSUME Inv, NEW h \in Handlers, at[h].pc \in {"update", "insert"},
           NEW r \in RowType(at[h].id), Write(h, at[h].id, r),
           UNCHANGED <<cache, writes, reads>>,
           unsure' = unsure \/ unsure' = unsure \cup {at[h].id},
           \/ at[h].id \in unsure'
           \/ \A j \in Known : j # at[h].id /\ rows[j].handle = r.handle => j \in unsure
    PROVE  Inv'
  <1>0. at[h] \in UpsertRecord /\ at[h].id \in Ids
    BY AtUpsert DEF Inv, UpsertRecord
  <1> PICK i \in Ids : i = at[h].id
    BY <1>0
  <1>1. at[h] \in UpsertRecord /\ r # Nothing
    BY <1>0, RowElim
  <1>2. /\ rows'[i] = r /\ \A j \in Ids : j # i => rows'[j] = rows[j]
        /\ rows' \in [Ids -> {Nothing} \cup UNION {RowType(j) : j \in Ids}]
    BY <1>1 DEF Write, Inv, UsersType
  <1>3. Known' = Known \cup {i} /\ Known \subseteq Ids
    BY <1>1, <1>2 DEF Known
  <1>4. /\ at'[h] = After(h)
        /\ \A g \in Handlers : g # h =>
             at'[g] = IF at[g].pc = "insert" THEN [at[g] EXCEPT !.raced = TRUE] ELSE at[g]
        /\ at' = [g \in Handlers |-> at'[g]]
    BY DEF Write
  <1>5. /\ at'[h] = Idle \/ at'[h] \in UpsertRecord
        /\ at'[h].pc \in {"idle", "invalidate"}
        /\ at[h].op = "login" => at'[h].pc = "invalidate" /\ at'[h].id = i
    BY <1>1, <1>4 DEF After, UpsertRecord, Idle
  <1>6. ASSUME NEW g \in Handlers, g # h
        PROVE  /\ at'[g] \in {Idle} \cup UpsertRecord \cup QueryRecord \cup FillRecord
               /\ at'[g].pc = at[g].pc
               /\ at[g].pc = "insert" => at'[g].raced
               /\ at[g].pc # "insert" => at'[g] = at[g]
    <2>1. CASE at[g].pc = "insert"
      <3>1. at[g] \in UpsertRecord
        BY <2>1, AtUpsert DEF Inv
      <3>2. at'[g] = [at[g] EXCEPT !.raced = TRUE]
        BY <1>4, <1>6, <2>1
      <3>3. at'[g] \in UpsertRecord
        BY <3>1, <3>2 DEF UpsertRecord
      <3>4. at'[g].pc = at[g].pc /\ at'[g].raced = TRUE
        BY <3>1, <3>2 DEF UpsertRecord
      <3> QED
        BY <2>1, <3>3, <3>4, Zenon
    <2>2. CASE at[g].pc # "insert"
      BY <1>4, <1>6, <2>2 DEF Inv, UsersType
    <2> QED
      BY <2>1, <2>2
  <1>7. UsersType'
    <2>1. \A j \in Ids : rows'[j] \in {Nothing} \cup RowType(j)
      BY <1>1, <1>2 DEF Inv, UsersType
    <2>2. at' \in [Handlers -> {Idle} \cup UpsertRecord \cup QueryRecord \cup FillRecord]
      BY <1>4, <1>5, <1>6
    <2>3. \A g \in Handlers : at'[g].pc = "update" => at'[g].id \in Known'
      BY <1>3, <1>5, <1>6 DEF Inv, UsersType
    <2>4. unsure' \subseteq Known'
      BY <1>3 DEF Inv, UsersType
    <2> QED
      BY <1>2, <2>1, <2>2, <2>3, <2>4 DEF Inv, UsersType
  <1>8. FreeHolds'
    BY <1>5, <1>6 DEF FreeHolds, Now
  <1>9. HandleClashHasCause'
    <2> SUFFICES ASSUME NEW j \in Known', NEW k \in Known', j # k,
                        rows'[j].handle = rows'[k].handle
                 PROVE  j \in unsure' \/ k \in unsure'
      BY DEF HandleClashHasCause
    <2>1. CASE j # i /\ k # i
      BY <1>2, <1>3, <2>1 DEF Inv, HandleClashHasCause
    <2>2. CASE j = i \/ k = i
      BY <1>2, <1>3, <2>2
    <2> QED
      BY <2>1, <2>2
  <1>10. StaleByIdHasCause'
    <2>1. UserKey(i) \in excused' \/ Invalidating(i)'
      <3>1. CASE at[h].op = "login"
        BY <1>5, <3>1 DEF Invalidating, Now
      <3>2. CASE at[h].op # "login"
        BY <3>2 DEF Write
      <3> QED
        BY <3>1, <3>2
    <2>2. ASSUME NEW j \in Ids, j # i
          PROVE  /\ rows'[j] = rows[j] /\ cache'[UserKey(j)] = cache[UserKey(j)]
                 /\ UserKey(j) \in excused => UserKey(j) \in excused'
                 /\ Invalidating(j) => Invalidating(j)'
      <3>1. Invalidating(j) => Invalidating(j)'
        <4> SUFFICES ASSUME NEW g \in Handlers, at[g].pc = "invalidate", at[g].id = j
                     PROVE  Invalidating(j)'
          BY DEF Invalidating, Now
        <4>1. g # h /\ at'[g] = at[g]
          BY <1>6
        <4> QED
          BY <4>1 DEF Invalidating, Now
      <3>2. UserKey(j) \in excused => UserKey(j) \in excused'
        BY DEF Write
      <3> QED
        BY <1>2, <2>2, <3>1, <3>2
    <2>3. \A j \in Ids :
             \/ UserKey(j) \in excused' \/ Invalidating(j)'
             \/ /\ rows'[j] = rows[j] /\ cache'[UserKey(j)] = cache[UserKey(j)]
                /\ UserKey(j) \in excused => UserKey(j) \in excused'
                /\ Invalidating(j) => Invalidating(j)'
      BY <2>1, <2>2
    <2> QED
      BY <2>3, StaleStep DEF Inv
  <1> QED
    BY <1>7, <1>8, <1>9, <1>10 DEF Inv

\* A step of one handler that writes no row.
LEMMA QuietStep ==
    ASSUME Inv, NEW h \in Handlers, UNCHANGED <<rows, unsure>>,
           cache' \in [Keys -> {Nothing} \cup Value],
           at' = [at EXCEPT ![h] = at'[h]],
           at'[h] \in {Idle} \cup UpsertRecord \cup QueryRecord \cup FillRecord,
           at'[h].pc = "update" => at'[h].id \in Known,
           writes' \in 0 .. MaxWrites, reads' \in 0 .. MaxReads,
           at'[h].pc = "insert" /\ at'[h].free /\ ~at'[h].raced => Owners(Plain(at'[h].name)) = {},
           StaleByIdHasCause'
    PROVE  Inv'
  <1>1. Known' = Known /\ \A g \in Handlers : g # h => at'[g] = at[g]
    BY DEF Inv, UsersType, Known
  <1>2. UsersType'
    <2>1. at' \in [Handlers -> {Idle} \cup UpsertRecord \cup QueryRecord \cup FillRecord]
      BY DEF Inv, UsersType
    <2> QED
      BY <1>1, <2>1 DEF Inv, UsersType
  <1>3. \A hd : Owners(hd)' = Owners(hd)
    BY <1>1 DEF Owners
  <1>4. FreeHolds'
    BY <1>1, <1>3 DEF Inv, FreeHolds, Now
  <1>5. HandleClashHasCause'
    BY <1>1 DEF Inv, HandleClashHasCause
  <1> QED
    BY <1>2, <1>4, <1>5 DEF Inv

\* It also keeps StaleByIdHasCause if it touches no entry and no invalidation.
LEMMA LocalStep ==
    ASSUME Inv, NEW h \in Handlers, UNCHANGED <<rows, cache, unsure, excused>>,
           at' = [at EXCEPT ![h] = at'[h]], at[h].pc # "invalidate"
    PROVE  StaleByIdHasCause' /\ cache' \in [Keys -> {Nothing} \cup Value]
  <1>1. \A g \in Handlers : g # h => at'[g] = at[g]
    BY DEF Inv, UsersType
  <1>2. \A i \in Ids : Invalidating(i) => Invalidating(i)'
    BY <1>1 DEF Invalidating, Now
  <1> QED
    BY <1>2, StaleStep DEF Inv, UsersType

-----------------------------------------------------------------------------
\* Login and CreatePost up to the write of the row.
LEMMA UpsertInv ==
    ASSUME Inv, NEW h \in Handlers, NEW op \in {"login", "post"}, NEW i \in Ids, NEW n \in Names,
           Upsert(h, op, i, n)
    PROVE  Inv'
  <1>1. /\ UNCHANGED <<rows, cache, unsure, excused, reads>> /\ at[h].pc = "idle"
        /\ at' = [at EXCEPT ![h] = at'[h]] /\ at'[h] \in UpsertRecord /\ at'[h].pc = "check"
    BY DEF Upsert, Now, Inv, UsersType, UpsertRecord
  <1>2. writes' \in 0 .. MaxWrites /\ reads' \in 0 .. MaxReads
    BY UsersAssumption DEF Upsert, Inv, UsersType
  <1> QED
    BY <1>1, <1>2, LocalStep, QuietStep

LEMMA CheckInv == ASSUME Inv, NEW h \in Handlers, Check(h) PROVE Inv'
  <1>1. at[h] \in UpsertRecord /\ at[h].pc = "check"
    BY AtUpsert DEF Check, Now, Inv
  <1>2. /\ UNCHANGED <<rows, cache, unsure, excused, reads, writes>>
        /\ at' = [at EXCEPT ![h] = at'[h]] /\ at'[h] \in UpsertRecord
        /\ at'[h].pc = "handle" \/ (at'[h].pc = "update" /\ at'[h].id \in Known)
    BY <1>1 DEF Check, Goto, Inv, UsersType, UpsertRecord
  <1>3. writes' \in 0 .. MaxWrites /\ reads' \in 0 .. MaxReads
    BY <1>2 DEF Inv, UsersType
  <1> QED
    BY <1>1, <1>2, <1>3, LocalStep, QuietStep

LEMMA CheckHandleInv == ASSUME Inv, NEW h \in Handlers, CheckHandle(h) PROVE Inv'
  <1>1. at[h] \in UpsertRecord /\ at[h].pc = "handle"
    BY AtUpsert DEF CheckHandle, Now, Inv
  <1>2. /\ UNCHANGED <<rows, cache, unsure, excused, reads, writes>>
        /\ at' = [at EXCEPT ![h] = at'[h]] /\ at'[h] \in UpsertRecord
        /\ at'[h].pc = "insert" /\ at'[h].name = at[h].name
        /\ at'[h].raced \/ (at'[h].free <=> Owners(Plain(at[h].name)) = {})
    BY <1>1 DEF CheckHandle, Inv, UsersType, UpsertRecord
  <1>3. writes' \in 0 .. MaxWrites /\ reads' \in 0 .. MaxReads
    BY <1>2 DEF Inv, UsersType
  <1> QED
    BY <1>1, <1>2, <1>3, LocalStep, QuietStep

\* The writes, or their refusal.
LEMMA SkipInv ==
    ASSUME Inv, NEW h \in Handlers, at[h].pc \in {"update", "insert"}, Skip(h),
           UNCHANGED <<cache, writes, reads>>
    PROVE  Inv'
  <1>1. at[h] \in UpsertRecord
    BY AtUpsert DEF Inv
  <1>2. /\ UNCHANGED <<rows, cache, unsure, excused>>
        /\ at' = [at EXCEPT ![h] = at'[h]] /\ at'[h] \in {Idle} \cup UpsertRecord
        /\ at'[h].pc \in {"idle", "invalidate"}
    BY <1>1 DEF Skip, After, Inv, UsersType, UpsertRecord, Idle
  <1>3. writes' \in 0 .. MaxWrites /\ reads' \in 0 .. MaxReads
    BY DEF Inv, UsersType
  <1> QED
    BY <1>1, <1>2, <1>3, LocalStep, QuietStep

LEMMA UpdateInv == ASSUME Inv, NEW h \in Handlers, Update(h) PROVE Inv'
  <1> DEFINE i == at[h].id
  <1>1. at[h] \in UpsertRecord /\ at[h].pc = "update" /\ i \in Known /\ i \in Ids /\ at[h].name \in Names
    BY AtUpsert DEF Update, Now, Inv, UsersType, UpsertRecord
  <1>2. UNCHANGED <<cache, writes, reads>>
    BY DEF Update
  <1>3. rows[i] \in RowType(i)
    BY <1>1 DEF Inv, UsersType, Known
  <1>4. ASSUME Write(h, i, Renamed(rows[i], at[h].name)),
               unsure' = IF at[h].name = NoName THEN unsure ELSE unsure \cup {i}
        PROVE  Inv'
    <2>1. Renamed(rows[i], at[h].name) \in RowType(i)
      BY <1>1, <1>3, RowIntro DEF Renamed
    <2>2. \/ i \in unsure'
          \/ \A j \in Known : j # i /\ rows[j].handle = Renamed(rows[i], at[h].name).handle => j \in unsure
      <3>1. CASE at[h].name = NoName /\ i \notin unsure
        BY <1>1, <3>1 DEF Renamed, Inv, HandleClashHasCause
      <3>2. CASE at[h].name # NoName \/ i \in unsure
        BY <1>4, <3>2
      <3> QED
        BY <3>1, <3>2
    <2>3. unsure' = unsure \/ unsure' = unsure \cup {i}
      BY <1>4
    <2> QED
      BY <1>1, <1>2, <1>4, <2>1, <2>2, <2>3, WriteInv
  <1>5. ASSUME Skip(h) PROVE Inv'
    BY <1>1, <1>2, <1>5, SkipInv
  <1> QED
    BY <1>4, <1>5 DEF Update

LEMMA InsertInv == ASSUME Inv, NEW h \in Handlers, Insert(h) PROVE Inv'
  <1> DEFINE i == at[h].id
             n == at[h].name
  <1>1. at[h] \in UpsertRecord /\ at[h].pc = "insert" /\ i \in Ids /\ n \in Names
    BY AtUpsert DEF Insert, Now, Inv, UpsertRecord
  <1>2. UNCHANGED <<cache, writes, reads>>
    BY DEF Insert
  <1>3. ASSUME Write(h, i, [name |-> n, handle |-> NewHandle(h)]),
               unsure' = IF at[h].raced THEN unsure \cup {i} ELSE unsure
        PROVE  Inv'
    <2>1. NewHandle(h) \in {Plain(n), Suffixed(n, i)}
      BY DEF NewHandle
    <2>2. [name |-> n, handle |-> NewHandle(h)] \in RowType(i)
      BY <1>1, <2>1, RowIntro
    <2>3. \/ i \in unsure'
          \/ \A j \in Known : j # i => rows[j].handle # NewHandle(h)
      <3>1. CASE at[h].raced
        BY <1>3, <3>1
      <3>2. CASE ~at[h].raced /\ at[h].free
        BY <1>1, <3>2 DEF NewHandle, Inv, FreeHolds, Now, Owners
      <3>3. CASE ~at[h].free
        <4> SUFFICES ASSUME NEW j \in Known, rows[j].handle = Suffixed(n, i)
                     PROVE  j = i
          BY <3>3 DEF NewHandle
        <4>1. j \in Ids /\ rows[j] \in RowType(j)
          BY DEF Inv, UsersType, Known
        <4>2. PICK m \in Names : rows[j].handle \in {Plain(m), Suffixed(m, j)}
          BY <4>1, RowElim
        <4> QED
          BY <1>1, <4>1, <4>2, SuffixOwn
      <3> QED
        BY <3>1, <3>2, <3>3
    <2>4. unsure' = unsure \/ unsure' = unsure \cup {i}
      BY <1>3
    <2>5. [name |-> n, handle |-> NewHandle(h)].handle = NewHandle(h)
      OBVIOUS
    <2> QED
      BY <1>1, <1>2, <1>3, <2>2, <2>3, <2>4, <2>5, WriteInv
  <1>4. ASSUME Skip(h) PROVE Inv'
    BY <1>1, <1>2, <1>4, SkipInv
  <1> QED
    BY <1>3, <1>4 DEF Insert

\* The entry by id goes, or its deletion fails and the entry is excused.
LEMMA InvalidateInv == ASSUME Inv, NEW h \in Handlers, InvalidateUser(h) PROVE Inv'
  <1>0. at[h] \in UpsertRecord /\ at[h].id \in Ids
    BY AtUpsert DEF InvalidateUser, Now, Inv, UpsertRecord
  <1> PICK i \in Ids : i = at[h].id
    BY <1>0
  <1>1. /\ UNCHANGED <<rows, unsure, reads, writes>>
        /\ at' = [at EXCEPT ![h] = at'[h]] /\ at'[h] = Idle /\ at'[h].pc = "idle"
        /\ \A g \in Handlers : g # h => at'[g] = at[g]
    BY DEF InvalidateUser, Inv, UsersType, Idle
  <1>2. /\ cache' \in [Keys -> {Nothing} \cup Value]
        /\ UserKey(i) \in excused' \/ cache'[UserKey(i)] = Nothing
        /\ \A j \in Ids : j # i =>
             /\ cache'[UserKey(j)] = cache[UserKey(j)]
             /\ UserKey(j) \in excused => UserKey(j) \in excused'
    BY KeysApart DEF InvalidateUser, LoginKey, Inv, UsersType
  <1>3. ASSUME NEW j \in Ids, j # i PROVE Invalidating(j) => Invalidating(j)'
    BY <1>1, <1>3 DEF Invalidating, Now
  <1>4. StaleByIdHasCause'
    <2>1. ASSUME NEW j \in Ids
          PROVE  \/ UserKey(j) \in excused' \/ cache'[UserKey(j)] = Nothing
                 \/ /\ rows'[j] = rows[j] /\ cache'[UserKey(j)] = cache[UserKey(j)]
                    /\ UserKey(j) \in excused => UserKey(j) \in excused'
                    /\ Invalidating(j) => Invalidating(j)'
      <3>1. CASE j = i
        BY <1>2, <3>1
      <3>2. CASE j # i
        <4>1. rows'[j] = rows[j]
          BY <1>1
        <4>2. /\ cache'[UserKey(j)] = cache[UserKey(j)]
              /\ UserKey(j) \in excused => UserKey(j) \in excused'
          BY <1>2, <3>2
        <4>3. Invalidating(j) => Invalidating(j)'
          BY <1>3, <3>2
        <4> QED
          BY <4>1, <4>2, <4>3
      <3> QED
        BY <3>1, <3>2
    <2> QED
      BY <2>1, StaleStep DEF Inv
  <1>5. writes' \in 0 .. MaxWrites /\ reads' \in 0 .. MaxReads
    BY <1>1 DEF Inv, UsersType
  <1> QED
    BY <1>1, <1>2, <1>4, <1>5, QuietStep

LEMMA GetUserInv == ASSUME Inv, NEW h \in Handlers, NEW k \in Keys, GetUser(h, k) PROVE Inv'
  <1>1. /\ UNCHANGED <<rows, cache, unsure, excused, writes>> /\ at[h].pc = "idle"
        /\ at' = [at EXCEPT ![h] = at'[h]] /\ at'[h] \in QueryRecord /\ at'[h].pc = "query"
    BY DEF GetUser, Now, Inv, UsersType, QueryRecord
  <1>2. writes' \in 0 .. MaxWrites /\ reads' \in 0 .. MaxReads
    BY UsersAssumption DEF GetUser, Inv, UsersType
  <1> QED
    BY <1>1, <1>2, LocalStep, QuietStep

LEMMA QueryInv == ASSUME Inv, NEW h \in Handlers, Query(h) PROVE Inv'
  <1>1. at[h] \in QueryRecord /\ at[h].pc = "query" /\ at[h].key \in Keys
    BY AtRead DEF Query, Now, Inv, QueryRecord
  <1>2. \A v \in Answers(at[h].key) : v \in Value
    BY <1>1, AnswersType DEF Inv
  <1>3. /\ UNCHANGED <<rows, cache, unsure, excused, reads, writes>>
        /\ at' = [at EXCEPT ![h] = at'[h]] /\ at'[h] \in {Idle} \cup FillRecord
        /\ at'[h].pc \in {"idle", "fill"}
    BY <1>1, <1>2 DEF Query, Inv, UsersType, FillRecord, Idle
  <1>4. writes' \in 0 .. MaxWrites /\ reads' \in 0 .. MaxReads
    BY <1>3 DEF Inv, UsersType
  <1> QED
    BY <1>1, <1>3, <1>4, LocalStep, QuietStep

LEMMA FillInv == ASSUME Inv, NEW h \in Handlers, Fill(h) PROVE Inv'
  <1>1. at[h] \in FillRecord /\ at[h].pc = "fill" /\ at[h].key \in Keys /\ at[h].val \in Value
    BY AtRead DEF Fill, Now, Inv, FillRecord
  <1> PICK k \in Keys : k = at[h].key
    BY <1>1
  <1>2. /\ UNCHANGED <<rows, unsure, reads, writes>>
        /\ at' = [at EXCEPT ![h] = at'[h]] /\ at'[h] = Idle /\ at'[h].pc = "idle"
        /\ \A g \in Handlers : g # h => at'[g] = at[g]
    BY DEF Fill, Inv, UsersType, Idle
  <1>3. \A j \in Ids : Invalidating(j) => Invalidating(j)'
    BY <1>1, <1>2 DEF Invalidating, Now
  <1>4. Answers(k)' = Answers(k)
    BY <1>2 DEF Answers, Known, Owners
  <1>5. /\ cache' \in [Keys -> {Nothing} \cup Value]
        /\ \A c \in Keys : c # k => cache'[c] = cache[c] /\ (c \in excused => c \in excused')
        /\ \/ cache'[k] \in Answers(k) \/ k \in excused'
           \/ cache'[k] = cache[k] /\ excused' = excused
    BY <1>1 DEF Fill, Inv, UsersType
  <1>6. StaleByIdHasCause'
    <2>1. ASSUME NEW j \in Ids
          PROVE  \/ UserKey(j) \in excused'
                 \/ cache'[UserKey(j)] \in Answers(UserKey(j))'
                 \/ /\ rows'[j] = rows[j] /\ cache'[UserKey(j)] = cache[UserKey(j)]
                    /\ UserKey(j) \in excused => UserKey(j) \in excused'
                    /\ Invalidating(j) => Invalidating(j)'
      <3>1. CASE UserKey(j) = k
        BY <1>2, <1>3, <1>4, <1>5, <3>1
      <3>2. CASE UserKey(j) # k
        BY <1>2, <1>3, <1>5, <3>2, KeysApart
      <3> QED
        BY <3>1, <3>2
    <2>2. StaleByIdHasCause
      BY DEF Inv
    <2> QED
      BY <2>1, <2>2, StaleStep
  <1>7. writes' \in 0 .. MaxWrites /\ reads' \in 0 .. MaxReads
    BY <1>2 DEF Inv, UsersType
  <1> QED
    BY <1>2, <1>5, <1>6, <1>7, QuietStep

LEMMA ExpireInv == ASSUME Inv, NEW k \in Keys, Expire(k) PROVE Inv'
  <1>1. /\ UNCHANGED <<rows, at, unsure, excused, reads, writes>>
        /\ cache'[k] = Nothing /\ \A c \in Keys : c # k => cache'[c] = cache[c]
        /\ cache' \in [Keys -> {Nothing} \cup Value]
    BY DEF Expire, Inv, UsersType
  <1>2. UsersType'
    BY <1>1 DEF Inv, UsersType, Known
  <1>3. FreeHolds' /\ HandleClashHasCause'
    BY <1>1 DEF Inv, FreeHolds, HandleClashHasCause, Now, Owners, Known
  <1>4. StaleByIdHasCause'
    <2>1. \A j \in Ids : Invalidating(j) => Invalidating(j)'
      BY <1>1 DEF Invalidating, Now
    <2>2. \A j \in Ids : \/ cache'[UserKey(j)] = Nothing
                         \/ cache'[UserKey(j)] = cache[UserKey(j)]
      BY <1>1, KeysApart
    <2> QED
      BY <1>1, <2>1, <2>2, StaleStep DEF Inv
  <1> QED
    BY <1>2, <1>3, <1>4 DEF Inv

LEMMA NextInv == Inv /\ [Next]_vars => Inv'
  <1> SUFFICES ASSUME Inv, [Next]_vars PROVE Inv'
    OBVIOUS
  <1>1. CASE UNCHANGED vars
    <2>1. \A k : Answers(k)' = Answers(k)
      BY <1>1 DEF vars, Answers, Known, Owners
    <2> QED
      BY <1>1, <2>1 DEF vars, Inv, UsersType, FreeHolds, HandleClashHasCause, StaleByIdHasCause,
                        Stale, Now, Owners, Known
  <1> QED
    BY <1>1, UpsertInv, CheckInv, UpdateInv, CheckHandleInv, InsertInv, InvalidateInv, GetUserInv,
       QueryInv, FillInv, ExpireInv DEF Next, Step

LEMMA SpecInv == Spec => []Inv
  BY InitInv, NextInv, PTL DEF Spec

-----------------------------------------------------------------------------
\* The handle of every row, cached ones included, is that of its name.
THEOREM TypeCorrect == Spec => []TypeOK
  <1>1. Inv => TypeOK
    <2> SUFFICES ASSUME Inv PROVE TypeOK
      OBVIOUS
    <2>1. \A k \in Keys : cache[k] = Nothing \/ cache[k].row \in RowType(cache[k].id)
      BY ValueElim DEF Inv, UsersType
    <2>2. \A h \in Handlers :
            at[h].pc \in {"idle", "check", "update", "handle", "insert", "invalidate", "query", "fill"}
      BY DEF Inv, UsersType, Idle, UpsertRecord, QueryRecord, FillRecord
    <2> QED
      BY <2>1, <2>2 DEF Inv, UsersType, TypeOK
  <1> QED
    BY SpecInv, <1>1, PTL

\* Two users share a handle only through an update, an insert that another
\* write overtook, or a failed look at the handles.
THEOREM HandleClashHasCauseHolds == Spec => []HandleClashHasCause
  <1>1. Inv => HandleClashHasCause
    BY DEF Inv
  <1> QED
    BY SpecInv, <1>1, PTL

\* An entry by id is stale only while a Login is about to delete it, or for
\* one of the named causes.
THEOREM StaleByIdHasCauseHolds == Spec => []StaleByIdHasCause
  <1>1. Inv => StaleByIdHasCause
    BY DEF Inv
  <1> QED
    BY SpecInv, <1>1, PTL
=============================================================================
