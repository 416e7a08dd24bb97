-------------------------- MODULE WorkerPoolProofs --------------------------
(***************************************************************************)
(* Proofs about WorkerPool for every number of workers, producers and      *)
(* closures and every queue capacity, and about the process that starts    *)
(* and stops the pool of the CDN server, Lifecycle.                        *)
(***************************************************************************)
EXTENDS WorkerPool, Lifecycle, FiniteSetTheorems, TLAPS

\* The strengthening that makes the pool's invariants inductive: nothing
\* ever clears running_, so no thread leaves its loop, and the queue stays
\* within its capacity.
StillRunning == running = TRUE /\ \A w \in Workers : wstate[w] # "exited"
Bounded == Len(queue) <= MaxSize

\* The part of the invariant that does not count threads.
Inv ==
    /\ TypeOK
    /\ OnePlace
    /\ StillRunning
    /\ Bounded
    /\ NoStrandedWork

-----------------------------------------------------------------------------
\* Taking the front of a nonempty sequence shifts the rest by one place.
LEMMA TailFacts ==
    ASSUME NEW S, NEW q \in Seq(S), q # <<>>
    PROVE  /\ Tail(q) \in Seq(S)
           /\ Len(q) \in Nat \ {0}
           /\ Len(Tail(q)) = Len(q) - 1
           /\ \A i \in 1..Len(Tail(q)) : Tail(q)[i] = q[i + 1]
           /\ Head(q) \in S
           /\ Head(q) = q[1]
  OBVIOUS

LEMMA AppendFacts ==
    ASSUME NEW S, NEW q \in Seq(S), NEW e \in S
    PROVE  /\ Append(q, e) \in Seq(S)
           /\ Len(q) \in Nat
           /\ Len(Append(q, e)) = Len(q) + 1
           /\ \A i \in 1..Len(q) : Append(q, e)[i] = q[i]
           /\ Append(q, e)[Len(q) + 1] = e
  OBVIOUS

-----------------------------------------------------------------------------
\* Every state the pool starts in satisfies the invariant.
LEMMA InitInv == Init => Inv
  <1> SUFFICES ASSUME Init PROVE Inv
    OBVIOUS
  <1> USE PoolAssumption
  <1>1. TypeOK
    BY DEF Init, TypeOK
  <1>2. OnePlace
    BY DEF Init, OnePlace, Pushing, Queued, Executing
  <1>3. StillRunning /\ Bounded /\ NoStrandedWork
    BY DEF Init, StillRunning, Bounded, NoStrandedWork
  <1> QED
    BY <1>1, <1>2, <1>3 DEF Inv

\* The typing and capacity part of the invariant is preserved by each step.
LEMMA NextType == Inv /\ [Next]_vars => TypeOK' /\ StillRunning' /\ Bounded'
  <1> SUFFICES ASSUME Inv, [Next]_vars PROVE TypeOK' /\ StillRunning' /\ Bounded'
    OBVIOUS
  <1> USE PoolAssumption DEF Inv, TypeOK, StillRunning, Bounded
  <1>1. ASSUME NEW p \in Producers, NEW t \in Tasks, Submit(p, t)
        PROVE  TypeOK' /\ StillRunning' /\ Bounded'
    BY <1>1 DEF Submit
  <1>2. ASSUME NEW p \in Producers, PushEnter(p)
        PROVE  TypeOK' /\ StillRunning' /\ Bounded'
    <2>1. parg[p] \in Tasks
      BY <1>2 DEF PushEnter
    <2>2. queue' = Append(queue, parg[p]) /\ wstate' \in NotifyOne(wstate, "pop")
          /\ Len(queue) < MaxSize
      BY <1>2 DEF PushEnter, PushReady
    <2>3. queue' \in Seq(Tasks) /\ Len(queue') <= MaxSize
      BY <2>1, <2>2, AppendFacts
    <2>4. \/ wstate' = wstate
          \/ \E x \in Workers : wstate[x] = "wait" /\ wstate' = [wstate EXCEPT ![x] = "pop"]
      BY <2>2 DEF NotifyOne, Waiting
    <2>5. /\ wstate' \in [Workers -> {"pop", "wait", "run", "exited"}]
          /\ \A w \in Workers : wstate'[w] # "exited"
          /\ \A w \in Workers : wstate'[w] = "run" <=> wstate[w] = "run"
      BY <2>4
    <2> QED
      BY <1>2, <2>1, <2>3, <2>5 DEF PushEnter
  <1>3. ASSUME NEW p \in Producers, PushWait(p)
        PROVE  TypeOK' /\ StillRunning' /\ Bounded'
    BY <1>3 DEF PushWait
  <1>4. ASSUME NEW w \in Workers, PopTake(w)
        PROVE  TypeOK' /\ StillRunning' /\ Bounded'
    <2>1. queue' \in Seq(Tasks) /\ Len(queue') <= MaxSize /\ Head(queue) \in Tasks
      BY <1>4, TailFacts DEF PopTake
    <2>2. \/ pstate' = pstate
          \/ \E x \in Producers : pstate[x] = "wait" /\ pstate' = [pstate EXCEPT ![x] = "push"]
      BY <1>4 DEF PopTake, NotifyOne, Waiting
    <2>3. /\ pstate' \in [Producers -> {"idle", "push", "wait"}]
          /\ \A p \in Producers : pstate'[p] = "idle" <=> pstate[p] = "idle"
      BY <2>2
    <2> QED
      BY <1>4, <2>1, <2>3 DEF PopTake
  <1>5. ASSUME NEW w \in Workers, PopEmpty(w)
        PROVE  TypeOK' /\ StillRunning' /\ Bounded'
    BY <1>5 DEF PopEmpty
  <1>6. ASSUME NEW w \in Workers, RunTask(w)
        PROVE  TypeOK' /\ StillRunning' /\ Bounded'
    BY <1>6 DEF RunTask
  <1>7. CASE Shutdown
    BY <1>7 DEF Shutdown, Running, NotifyAll
  <1>8. ASSUME NEW p \in Producers, SpuriousWakePush(p)
        PROVE  TypeOK' /\ StillRunning' /\ Bounded'
    BY <1>8 DEF SpuriousWakePush
  <1>9. ASSUME NEW w \in Workers, SpuriousWakePop(w)
        PROVE  TypeOK' /\ StillRunning' /\ Bounded'
    BY <1>9 DEF SpuriousWakePop
  <1>10. CASE UNCHANGED vars
    BY <1>10 DEF vars
  <1> QED
    BY <1>1, <1>2, <1>3, <1>4, <1>5, <1>6, <1>7, <1>8, <1>9, <1>10 DEF Next, Push, Work

\* Closures keep to one place through every step of every thread.
LEMMA NextOnePlace == Inv /\ [Next]_vars => OnePlace'
  <1> SUFFICES ASSUME Inv, [Next]_vars PROVE OnePlace'
    OBVIOUS
  <1> USE PoolAssumption
  <1> QI == /\ queue \in Seq(Tasks)
            /\ pstate \in [Producers -> {"idle", "push", "wait"}]
            /\ parg \in [Producers -> Tasks \cup {NoTask}]
            /\ wtask \in [Workers -> Tasks \cup {NoTask}]
            /\ \A p \in Producers : pstate[p] = "idle" <=> parg[p] = NoTask
            /\ \A w \in Workers : wstate[w] = "run" <=> wtask[w] # NoTask
  <1>0. QI /\ OnePlace /\ running
    BY DEF Inv, TypeOK, StillRunning
  <1>1. ASSUME NEW p \in Producers, NEW t \in Tasks, Submit(p, t)
        PROVE  OnePlace'
    <2>1. /\ queue' = queue /\ wtask' = wtask /\ finished' = finished
          /\ parg' = [parg EXCEPT ![p] = t]
          /\ t \notin Submitted
      BY <1>1 DEF Submit
    <2>2. Pushing' \subseteq Pushing \cup {t}
      BY <1>0, <2>1 DEF Pushing
    <2>3. \A q \in Producers : parg[q] # t
      BY <1>0, <2>1 DEF Submitted, Pushing
    <2>4. \A q, r \in Producers : parg'[q] = parg'[r] /\ parg'[q] # NoTask => q = r
      BY <1>0, <2>1, <2>3 DEF OnePlace
    <2>5. Queued' = Queued /\ Executing' = Executing /\ finished' = finished
      BY <2>1 DEF Queued, Executing
    <2>6. t \notin Queued /\ t \notin Executing /\ t \notin finished
      BY <2>1 DEF Submitted
    <2>7. /\ Pushing' \cap (Queued' \cup Executing' \cup finished') = {}
          /\ Queued' \cap (Executing' \cup finished') = {}
          /\ Executing' \cap finished' = {}
      BY <1>0, <2>2, <2>5, <2>6 DEF OnePlace
    <2>8. /\ \A i, j \in 1..Len(queue') : queue'[i] = queue'[j] => i = j
          /\ \A v, w \in Workers : wtask'[v] = wtask'[w] /\ wtask'[v] # NoTask => v = w
      BY <1>0, <2>1 DEF OnePlace
    <2> QED
      BY <2>4, <2>7, <2>8 DEF OnePlace
  <1>2. ASSUME NEW p \in Producers, PushEnter(p)
        PROVE  OnePlace'
    <2> DEFINE t == parg[p]
    <2>1. /\ queue' = Append(queue, t) /\ wtask' = wtask /\ finished' = finished
          /\ parg' = [parg EXCEPT ![p] = NoTask]
          /\ t \in Tasks
      BY <1>0, <1>2 DEF PushEnter
    <2>2. t \in Pushing /\ Pushing' \subseteq Pushing \ {t}
      BY <1>0, <2>1 DEF Pushing, OnePlace
    <2>3. t \notin Queued \cup Executing \cup finished
      BY <1>0, <2>2 DEF OnePlace
    <2>4. Queued' \subseteq Queued \cup {t}
      BY <1>0, <2>1, AppendFacts DEF Queued
    <2>5. \A i, j \in 1..Len(queue') : queue'[i] = queue'[j] => i = j
      <3> SUFFICES ASSUME NEW i \in 1..Len(queue'), NEW j \in 1..Len(queue'),
                          queue'[i] = queue'[j]
                   PROVE  i = j
        OBVIOUS
      <3>1. \A k \in 1..Len(queue) : queue[k] # t
        BY <2>3 DEF Queued
      <3> QED
        BY <1>0, <2>1, <3>1, AppendFacts DEF OnePlace
    <2>6. \A q, r \in Producers : parg'[q] = parg'[r] /\ parg'[q] # NoTask => q = r
      BY <1>0, <2>1 DEF OnePlace
    <2>7. Executing' = Executing /\ finished' = finished
      BY <2>1 DEF Executing
    <2>8. /\ Pushing' \cap (Queued' \cup Executing' \cup finished') = {}
          /\ Queued' \cap (Executing' \cup finished') = {}
          /\ Executing' \cap finished' = {}
      BY <1>0, <2>2, <2>3, <2>4, <2>7 DEF OnePlace
    <2>9. \A v, w \in Workers : wtask'[v] = wtask'[w] /\ wtask'[v] # NoTask => v = w
      BY <1>0, <2>1 DEF OnePlace
    <2> QED
      BY <2>5, <2>6, <2>8, <2>9 DEF OnePlace
  <1>3. ASSUME NEW w \in Workers, PopTake(w)
        PROVE  OnePlace'
    <2> DEFINE t == Head(queue)
    <2>1. /\ queue # <<>> /\ queue' = Tail(queue)
          /\ wtask' = [wtask EXCEPT ![w] = t] /\ wtask[w] = NoTask
          /\ parg' = parg /\ finished' = finished
      BY <1>0, <1>3 DEF PopTake
    <2>2. t \in Tasks /\ t = queue[1] /\ Len(queue) >= 1
      BY <1>0, <2>1, TailFacts
    <2>3. t \in Queued /\ t \notin Executing \cup finished \cup Pushing
      BY <1>0, <2>2 DEF Queued, OnePlace
    <2>4. Queued' \subseteq Queued \ {t}
      <3> SUFFICES ASSUME NEW i \in 1..Len(queue')
                   PROVE  queue'[i] \in Queued /\ queue'[i] # t
        BY DEF Queued
      <3>1. i + 1 \in 1..Len(queue) /\ queue'[i] = queue[i + 1] /\ 1 \in 1..Len(queue)
        BY <1>0, <2>1, TailFacts
      <3>2. queue[i + 1] # queue[1]
        BY <1>0, <3>1 DEF OnePlace
      <3> QED
        BY <2>2, <3>1, <3>2 DEF Queued
    <2>5. \A i, j \in 1..Len(queue') : queue'[i] = queue'[j] => i = j
      BY <1>0, <2>1, TailFacts DEF OnePlace
    <2>6. Executing' \subseteq Executing \cup {t}
      BY <1>0, <2>1 DEF Executing
    <2>7. \A v \in Workers : wtask[v] # t
      BY <2>2, <2>3 DEF Executing
    <2>8. \A u, v \in Workers : wtask'[u] = wtask'[v] /\ wtask'[u] # NoTask => u = v
      BY <1>0, <2>1, <2>7 DEF OnePlace
    <2>9. Pushing' = Pushing /\ finished' = finished
      BY <2>1 DEF Pushing
    <2>10. /\ Pushing' \cap (Queued' \cup Executing' \cup finished') = {}
           /\ Queued' \cap (Executing' \cup finished') = {}
           /\ Executing' \cap finished' = {}
      BY <1>0, <2>3, <2>4, <2>6, <2>9 DEF OnePlace
    <2>11. \A p, q \in Producers : parg'[p] = parg'[q] /\ parg'[p] # NoTask => p = q
      BY <1>0, <2>1 DEF OnePlace
    <2> QED
      BY <2>5, <2>8, <2>10, <2>11 DEF OnePlace
  <1>4. ASSUME NEW w \in Workers, RunTask(w)
        PROVE  OnePlace'
    <2> DEFINE t == wtask[w]
    <2>1. /\ queue' = queue /\ parg' = parg /\ finished' = finished \cup {t}
          /\ wtask' = [wtask EXCEPT ![w] = NoTask] /\ t # NoTask
      BY <1>0, <1>4 DEF RunTask
    <2>2. t \in Executing /\ Executing' \subseteq Executing \ {t}
      BY <1>0, <2>1 DEF Executing, OnePlace
    <2>3. \A u, v \in Workers : wtask'[u] = wtask'[v] /\ wtask'[u] # NoTask => u = v
      BY <1>0, <2>1 DEF OnePlace
    <2>4. Pushing' = Pushing /\ Queued' = Queued
      BY <2>1 DEF Pushing, Queued
    <2>5. /\ Pushing' \cap (Queued' \cup Executing' \cup finished') = {}
          /\ Queued' \cap (Executing' \cup finished') = {}
          /\ Executing' \cap finished' = {}
      <3>1. finished' = finished \cup {t}
        BY <2>1
      <3> HIDE DEF t
      <3> QED
        BY <1>0, <2>2, <2>4, <3>1 DEF OnePlace
    <2>6. /\ \A i, j \in 1..Len(queue') : queue'[i] = queue'[j] => i = j
          /\ \A p, q \in Producers : parg'[p] = parg'[q] /\ parg'[p] # NoTask => p = q
      BY <1>0, <2>1 DEF OnePlace
    <2> QED
      BY <2>3, <2>5, <2>6 DEF OnePlace
  <1>5. ASSUME UNCHANGED <<queue, parg, wtask, finished>>
        PROVE  OnePlace'
    <2>1. Pushing' = Pushing /\ Queued' = Queued /\ Executing' = Executing
      BY <1>5 DEF Pushing, Queued, Executing
    <2> QED
      BY <1>0, <1>5, <2>1 DEF OnePlace
  <1>6. ASSUME NEW p \in Producers, PushWait(p) \/ SpuriousWakePush(p)
        PROVE  OnePlace'
    BY <1>5, <1>6 DEF PushWait, SpuriousWakePush
  <1>7. ASSUME NEW w \in Workers, PopEmpty(w) \/ SpuriousWakePop(w)
        PROVE  OnePlace'
    BY <1>5, <1>7 DEF PopEmpty, SpuriousWakePop
  <1>8. ASSUME Shutdown \/ UNCHANGED vars
        PROVE  OnePlace'
    BY <1>5, <1>8 DEF Shutdown, vars
  <1> QED
    BY <1>1, <1>2, <1>3, <1>4, <1>6, <1>7, <1>8 DEF Next, Push, Work

\* No step leaves work in the queue with every worker asleep.
LEMMA NextNoStrandedWork == Inv /\ [Next]_vars => NoStrandedWork'
  <1> SUFFICES ASSUME Inv, [Next]_vars, queue' # <<>>
               PROVE  \E w \in Workers : wstate'[w] # "wait"
    BY DEF NoStrandedWork
  <1> USE PoolAssumption
  <1>0. /\ running = TRUE /\ queue \in Seq(Tasks)
        /\ wstate \in [Workers -> {"pop", "wait", "run", "exited"}]
        /\ queue # <<>> => \E w \in Workers : wstate[w] # "wait"
    BY DEF Inv, TypeOK, StillRunning, NoStrandedWork
  <1>1. ASSUME NEW p \in Producers, PushEnter(p)
        PROVE  \E w \in Workers : wstate'[w] # "wait"
    <2>1. wstate' \in NotifyOne(wstate, "pop")
      BY <1>0, <1>1 DEF PushEnter
    <2>2. CASE Waiting(wstate) = {}
      BY <1>0, <2>1, <2>2 DEF NotifyOne, Waiting
    <2>3. CASE Waiting(wstate) # {}
      <3>1. PICK x \in Waiting(wstate) : wstate' = [wstate EXCEPT ![x] = "pop"]
        BY <2>1, <2>3 DEF NotifyOne
      <3>2. x \in Workers
        BY <1>0 DEF Waiting
      <3> QED
        BY <1>0, <3>1, <3>2
    <2> QED
      BY <2>2, <2>3
  <1>2. ASSUME NEW w \in Workers, PopTake(w) \/ RunTask(w) \/ SpuriousWakePop(w)
        PROVE  wstate'[w] # "wait"
    BY <1>0, <1>2 DEF PopTake, RunTask, SpuriousWakePop
  <1>3. ASSUME NEW w \in Workers, PopEmpty(w)
        PROVE  FALSE
    BY <1>3 DEF PopEmpty
  <1>4. CASE Shutdown
    BY <1>0, <1>4 DEF Shutdown, Running, NotifyAll
  <1>5. ASSUME UNCHANGED <<queue, wstate>>
        PROVE  \E w \in Workers : wstate'[w] # "wait"
    BY <1>0, <1>5
  <1> QED
    BY <1>1, <1>2, <1>3, <1>4, <1>5
       DEF Next, Push, Work, Submit, PushWait, SpuriousWakePush, vars

\* Inv is inductive.
LEMMA NextInv == Inv /\ [Next]_vars => Inv'
  BY NextType, NextOnePlace, NextNoStrandedWork DEF Inv

-----------------------------------------------------------------------------
Awake(st) == {p \in Producers : st[p] = "push"}

\* Counting the awake producers: who joins, who leaves.
LEMMA AwakeFinite == \A st : IsFiniteSet(Awake(st)) /\ Cardinality(Awake(st)) \in Nat
  <1> TAKE st
  <1>1. Awake(st) \subseteq Producers
    BY DEF Awake
  <1> QED
    BY <1>1, PoolAssumption, FS_Subset, FS_CardinalityType

LEMMA AwakeJoin ==
    ASSUME NEW st \in [Producers -> {"idle", "push", "wait"}],
           NEW p \in Producers, st[p] # "push"
    PROVE  Cardinality(Awake([st EXCEPT ![p] = "push"])) = Cardinality(Awake(st)) + 1
  <1>1. Awake([st EXCEPT ![p] = "push"]) = Awake(st) \cup {p} /\ p \notin Awake(st)
    BY DEF Awake
  <1> QED
    BY <1>1, AwakeFinite, FS_AddElement

LEMMA AwakeLeave ==
    ASSUME NEW st \in [Producers -> {"idle", "push", "wait"}],
           NEW p \in Producers, st[p] = "push",
           NEW to \in {"idle", "wait"}
    PROVE  Cardinality(Awake([st EXCEPT ![p] = to])) = Cardinality(Awake(st)) - 1
  <1>1. Awake([st EXCEPT ![p] = to]) = Awake(st) \ {p} /\ p \in Awake(st)
    BY DEF Awake
  <1> QED
    BY <1>1, AwakeFinite, FS_RemoveElement

\* NoStrandedProducer over an explicit count, as the steps below use it.
Covered(st, n) == Waiting(st) = {} \/ Cardinality(Awake(st)) >= MaxSize - n

LEMMA NextNoStrandedProducer ==
    Inv /\ NoStrandedProducer /\ [Next]_vars => NoStrandedProducer'
  <1> SUFFICES ASSUME Inv, Covered(pstate, Len(queue)), [Next]_vars
               PROVE  Covered(pstate', Len(queue'))
    BY DEF NoStrandedProducer, Covered, Awake
  <1> USE PoolAssumption
  <1>0. /\ running = TRUE /\ queue \in Seq(Tasks) /\ Len(queue) \in Nat
        /\ Len(queue) <= MaxSize
        /\ pstate \in [Producers -> {"idle", "push", "wait"}]
        /\ parg \in [Producers -> Tasks \cup {NoTask}]
        /\ \A p \in Producers : pstate[p] = "idle" <=> parg[p] = NoTask
        /\ Cardinality(Awake(pstate)) \in Nat
    BY AwakeFinite DEF Inv, TypeOK, StillRunning, Bounded
  <1>1. ASSUME NEW p \in Producers, NEW t \in Tasks, Submit(p, t)
        PROVE  Covered(pstate', Len(queue'))
    <2>1. pstate' = [pstate EXCEPT ![p] = "push"] /\ pstate[p] = "idle" /\ queue' = queue
      BY <1>1 DEF Submit
    <2>2. Cardinality(Awake(pstate')) = Cardinality(Awake(pstate)) + 1
      BY <1>0, <2>1, AwakeJoin
    <2>3. Waiting(pstate') = Waiting(pstate)
      BY <1>0, <2>1 DEF Waiting
    <2> QED
      BY <1>0, <2>1, <2>2, <2>3 DEF Covered
  <1>2. ASSUME NEW p \in Producers, PushEnter(p)
        PROVE  Covered(pstate', Len(queue'))
    <2>1. /\ pstate' = [pstate EXCEPT ![p] = "idle"] /\ pstate[p] = "push"
          /\ parg[p] \in Tasks /\ queue' = Append(queue, parg[p])
      BY <1>0, <1>2 DEF PushEnter
    <2>2. Cardinality(Awake(pstate')) = Cardinality(Awake(pstate)) - 1
      BY <1>0, <2>1, AwakeLeave
    <2>3. Waiting(pstate') = Waiting(pstate)
      BY <1>0, <2>1 DEF Waiting
    <2>4. Len(queue') = Len(queue) + 1
      BY <1>0, <2>1, AppendFacts
    <2> QED
      BY <1>0, <2>2, <2>3, <2>4 DEF Covered
  <1>3. ASSUME NEW p \in Producers, PushWait(p)
        PROVE  Covered(pstate', Len(queue'))
    <2>1. queue' = queue /\ Len(queue) = MaxSize
      BY <1>0, <1>3 DEF PushWait, PushReady
    <2>2. Cardinality(Awake(pstate')) \in Nat
      BY AwakeFinite
    <2> QED
      BY <1>0, <2>1, <2>2 DEF Covered
  <1>4. ASSUME NEW w \in Workers, PopTake(w)
        PROVE  Covered(pstate', Len(queue'))
    <2>1. Len(queue') = Len(queue) - 1
      BY <1>0, <1>4, TailFacts DEF PopTake
    <2>2. CASE Waiting(pstate) = {}
      BY <1>4, <2>2 DEF PopTake, NotifyOne, Covered
    <2>3. CASE Waiting(pstate) # {}
      <3>1. PICK x \in Waiting(pstate) : pstate' = [pstate EXCEPT ![x] = "push"]
        BY <1>4, <2>3 DEF PopTake, NotifyOne
      <3>2. x \in Producers /\ pstate[x] = "wait"
        BY <1>0 DEF Waiting
      <3>3. Cardinality(Awake(pstate')) = Cardinality(Awake(pstate)) + 1
        BY <1>0, <3>1, <3>2, AwakeJoin
      <3> QED
        BY <1>0, <2>1, <2>3, <3>3 DEF Covered
    <2> QED
      BY <2>2, <2>3
  <1>5. CASE Shutdown
    BY <1>0, <1>5 DEF Shutdown, NotifyAll, Waiting, Covered
  <1>6. ASSUME NEW p \in Producers, SpuriousWakePush(p)
        PROVE  Covered(pstate', Len(queue'))
    <2>1. pstate' = [pstate EXCEPT ![p] = "push"] /\ pstate[p] = "wait" /\ queue' = queue
      BY <1>6 DEF SpuriousWakePush
    <2>2. Cardinality(Awake(pstate')) = Cardinality(Awake(pstate)) + 1
      BY <1>0, <2>1, AwakeJoin
    <2>3. Waiting(pstate) # {}
      BY <1>0, <2>1 DEF Waiting
    <2> QED
      BY <1>0, <2>1, <2>2, <2>3 DEF Covered
  <1>7. ASSUME UNCHANGED <<pstate, queue>>
        PROVE  Covered(pstate', Len(queue'))
    BY <1>7
  <1>8. ASSUME NEW w \in Workers, PopEmpty(w) \/ RunTask(w) \/ SpuriousWakePop(w)
        PROVE  Covered(pstate', Len(queue'))
    BY <1>7, <1>8 DEF PopEmpty, RunTask, SpuriousWakePop
  <1>9. CASE UNCHANGED vars
    BY <1>7, <1>9 DEF vars
  <1> QED
    BY <1>1, <1>2, <1>3, <1>4, <1>5, <1>6, <1>8, <1>9 DEF Next, Push, Work

-----------------------------------------------------------------------------
\* For any pool, every variable keeps its type through every interleaving
\* of producers, workers and the destructor.
THEOREM PoolTypeCorrect == Spec => []TypeOK
  <1>1. Inv => TypeOK
    BY DEF Inv
  <1> QED
    BY <1>1, InitInv, NextInv, PTL DEF Spec

\* For any pool, a closure is never in two places: push and pop neither
\* lose nor duplicate a closure.
THEOREM PoolOnePlace == Spec => []OnePlace
  <1>1. Inv => OnePlace
    BY DEF Inv
  <1> QED
    BY <1>1, InitInv, NextInv, PTL DEF Spec

\* For any pool, a queued closure always finds a worker that is not asleep.
THEOREM PoolNoStrandedWork == Spec => []NoStrandedWork
  <1>1. Inv => NoStrandedWork
    BY DEF Inv
  <1> QED
    BY <1>1, InitInv, NextInv, PTL DEF Spec

\* For any pool, sleeping producers never outnumber their need: the awake
\* ones cover the free slots.
THEOREM PoolNoStrandedProducer == Spec => []NoStrandedProducer
  <1>1. Init => NoStrandedProducer
    BY DEF Init, NoStrandedProducer, Waiting
  <1>2. (Inv /\ NoStrandedProducer) /\ [Next]_vars => (Inv /\ NoStrandedProducer)'
    BY NextInv, NextNoStrandedProducer
  <1> QED
    BY <1>1, <1>2, InitInv, PTL DEF Spec

\* TaskQueue::shutdown never clears running_: in no pool, of any size, does
\* a worker ever leave its loop, so ~WorkerPool never finishes its joins.
THEOREM PoolNeverStops == Spec => []NoWorkerLeaves
  <1>1. Inv => NoWorkerLeaves
    BY DEF Inv, StillRunning, NoWorkerLeaves
  <1> QED
    BY <1>1, InitInv, NextInv, PTL DEF Spec

-----------------------------------------------------------------------------
\* Each step of the pool is a step of the task service or leaves it alone.
LEMMA StepRefines == Inv /\ [Next]_vars => [Service!Next]_(Service!vars)
  <1> SUFFICES ASSUME Inv, [Next]_vars
               PROVE  Service!Next \/ UNCHANGED <<queue, Executing, finished>>
    BY DEF Service!vars
  <1> USE PoolAssumption
  <1>0. /\ queue \in Seq(Tasks) /\ running = TRUE /\ OnePlace
        /\ parg \in [Producers -> Tasks \cup {NoTask}]
        /\ wtask \in [Workers -> Tasks \cup {NoTask}]
        /\ \A p \in Producers : pstate[p] = "idle" <=> parg[p] = NoTask
        /\ \A w \in Workers : wstate[w] = "run" <=> wtask[w] # NoTask
    BY DEF Inv, TypeOK, StillRunning
  <1>1. ASSUME NEW p \in Producers, PushEnter(p)
        PROVE  Service!Next
    <2>1. /\ parg[p] \in Tasks /\ parg[p] \in Pushing
          /\ queue' = Append(queue, parg[p]) /\ Len(queue) < MaxSize
          /\ wtask' = wtask /\ finished' = finished
      BY <1>0, <1>1 DEF PushEnter, PushReady, Pushing
    <2>2. parg[p] \notin Queued \cup Executing \cup finished
      BY <1>0, <2>1 DEF OnePlace
    <2>3. Executing' = Executing
      BY <2>1 DEF Executing
    <2>4. Service!Accept(parg[p])
      BY <2>1, <2>2, <2>3 DEF Service!Accept, Service!Pending, Queued
    <2> QED
      BY <2>1, <2>4 DEF Service!Next
  <1>2. ASSUME NEW w \in Workers, PopTake(w)
        PROVE  Service!Next
    <2>1. /\ queue # <<>> /\ queue' = Tail(queue) /\ finished' = finished
          /\ wtask' = [wtask EXCEPT ![w] = Head(queue)] /\ wtask[w] = NoTask
      BY <1>0, <1>2 DEF PopTake
    <2>2. Head(queue) \in Tasks
      BY <1>0, <2>1, TailFacts
    <2>3. Executing' = Executing \cup {Head(queue)}
      BY <1>0, <2>1, <2>2 DEF Executing
    <2> QED
      BY <2>1, <2>3 DEF Service!Next, Service!Start
  <1>3. ASSUME NEW w \in Workers, RunTask(w)
        PROVE  Service!Next
    <2>1. /\ wtask[w] \in Tasks /\ queue' = queue
          /\ finished' = finished \cup {wtask[w]}
          /\ wtask' = [wtask EXCEPT ![w] = NoTask]
      BY <1>0, <1>3 DEF RunTask
    <2>2. \A v \in Workers : v # w => wtask[v] # wtask[w]
      BY <1>0, <2>1 DEF OnePlace
    <2>3. wtask[w] \in Executing /\ Executing' = Executing \ {wtask[w]}
      BY <1>0, <2>1, <2>2 DEF Executing
    <2>4. Service!Finish(wtask[w])
      BY <2>1, <2>3 DEF Service!Finish
    <2> QED
      BY <2>1, <2>4 DEF Service!Next
  <1>4. ASSUME UNCHANGED <<queue, wtask, finished>>
        PROVE  UNCHANGED <<queue, Executing, finished>>
    BY <1>4 DEF Executing
  <1>5. ASSUME NEW p \in Producers,
               (\E t \in Tasks : Submit(p, t)) \/ PushWait(p) \/ SpuriousWakePush(p)
        PROVE  UNCHANGED <<queue, Executing, finished>>
    BY <1>4, <1>5 DEF Submit, PushWait, SpuriousWakePush
  <1>6. ASSUME NEW w \in Workers, PopEmpty(w) \/ SpuriousWakePop(w)
        PROVE  UNCHANGED <<queue, Executing, finished>>
    BY <1>4, <1>6 DEF PopEmpty, SpuriousWakePop
  <1>7. ASSUME Shutdown \/ UNCHANGED vars
        PROVE  UNCHANGED <<queue, Executing, finished>>
    BY <1>4, <1>7 DEF Shutdown, vars
  <1> QED
    BY <1>1, <1>2, <1>3, <1>5, <1>6, <1>7 DEF Next, Push, Work

\* The pool, with its mutex, condition variables, spurious wake-ups and
\* destructor, implements the safety part of TaskService: a bounded FIFO
\* that starts and finishes each accepted closure once.
THEOREM PoolImplementsService == Spec => Service!Safety
  <1>1. Init => Service!Init
    BY DEF Init, Service!Init, Executing
  <1> QED
    BY <1>1, InitInv, NextInv, StepRefines, PTL DEF Spec, Service!Safety

-----------------------------------------------------------------------------
(* The process that owns the pool (Lifecycle), for any number of DeletePost *)
(* handlers.  That its joins of the pool do not return is PoolNeverStops.   *)

\* Main is in cdn.start, with running_ not yet set.
Starting == main \in {"s3", "thread", "running"}

\* What the places of the threads say of the CDN server: it is built before
\* running_ is set, and only the thread that cleared running_ takes it down.
Stages ==
    /\ main = "s3" => s3 = "null"
    /\ main \in {"thread", "running"} => s3 = "up"
    /\ main = "running" => http # "none"
    /\ Starting => ~cdnRunning /\ watcher \notin {"cdnJoin", "cdnReset"}
    /\ "cdnJoin" \in {watcher, main} => ~cdnRunning /\ s3 = "up"
    /\ "cdnReset" \in {watcher, main} => ~cdnRunning /\ s3 = "dying"

\* Main calls CdnServer::shutdown after it has joined the watcher.
Joined == main \in Teardown \cup {"exit"} => watcher = "done"

ProcessInv == ProcessTypeOK /\ Stages /\ Joined /\ NoFreedPool

LEMMA ProcessInitInv == ProcessInit => ProcessInv
  BY DEF ProcessInit, ProcessInv, ProcessTypeOK, Stages, Starting, Joined, NoFreedPool, Teardown

\* Every step of every thread preserves the invariant.
LEMMA ProcessNextInv == ProcessInv /\ [ProcessNext]_processVars => ProcessInv'
  <1> SUFFICES ASSUME ProcessInv, [ProcessNext]_processVars PROVE ProcessInv'
    OBVIOUS
  <1> USE DEF ProcessInv, ProcessTypeOK, Stages, Starting, Joined, NoFreedPool, Teardown, Alive
  <1>1. CASE CommandExit
    BY <1>1 DEF CommandExit
  <1>2. CASE ConsoleEnd
    BY <1>2 DEF ConsoleEnd
  <1>3. CASE CommandNotify
    BY <1>3 DEF CommandNotify
  <1>4. CASE WatcherEval
    BY <1>4 DEF WatcherEval
  <1>5. CASE WatcherBlock
    BY <1>5 DEF WatcherBlock
  <1>6. CASE WatcherGrpc
    BY <1>6 DEF WatcherGrpc
  <1>7. CASE GrpcDrained
    BY <1>7 DEF GrpcDrained
  <1>8. CASE CdnShutdown("watcher")
    <2>1. main' = main /\ watcher = "cdn" /\ watcher' \in {"cdnJoin", "grpc"} /\ cdnRunning' = FALSE
      BY <1>8 DEF CdnShutdown, At, Move, After
    <2>a. watcher' = "cdnJoin" => cdnRunning
      BY <1>8 DEF CdnShutdown, At, Move, After
    <2>2. UNCHANGED <<console, flag, s3, http, grpc, gcdn, handler>>
      BY <1>8 DEF CdnShutdown
    <2>3. stopped' = TRUE \/ stopped' = FALSE
      BY <1>8 DEF CdnShutdown
    <2>4. ProcessTypeOK'
      <3>1. console' \in {"read", "notify", "over"} /\ flag' \in BOOLEAN
        BY <2>2
      <3>2. watcher' \in {"eval", "block", "sleep", "grpc", "drain", "done"} \cup Teardown
        BY <2>1
      <3>3. main' \in {"s3", "thread", "running", "publish", "grpc", "serve", "join",
                 "exit", "abort", "crash"} \cup Teardown
        BY <2>1
      <3>4. cdnRunning' \in BOOLEAN /\ s3' \in {"null", "up", "dying"}
        BY <2>1, <2>2
      <3>5. http' \in {"none", "started", "listening", "over"} /\ stopped' \in BOOLEAN
        BY <2>2, <2>3
      <3>6. cdnRunning' => s3' = "up" /\ http' # "none"
        BY <2>1
      <3>7. grpc' \in {"null", "up", "stopping", "shut"} /\ gcdn' \in BOOLEAN
        BY <2>2
      <3>8. handler' \in [Handlers -> {"idle", "check", "submit"}]
        BY <2>2
      <3> QED
        BY <3>1, <3>2, <3>3, <3>4, <3>5, <3>6, <3>7, <3>8
    <2>5. Stages'
      BY <2>1, <2>a, <2>2
    <2>6. Joined' /\ NoFreedPool'
      BY <2>1, <2>2
    <2> QED
      BY <2>4, <2>5, <2>6
  <1>9. CASE CdnJoin("watcher")
    BY <1>9 DEF CdnJoin, At, Move, After, PoolJoins
  <1>10. CASE CdnShutdown("main")
    <2>1. watcher' = watcher /\ main = "cdn" /\ main' \in {"cdnJoin", "exit"} /\ cdnRunning' = FALSE
      BY <1>10 DEF CdnShutdown, At, Move, After
    <2>2. main' = "cdnJoin" => cdnRunning
      BY <1>10 DEF CdnShutdown, At, Move, After
    <2>3. UNCHANGED <<console, flag, s3, http, grpc, gcdn, handler>>
      BY <1>10 DEF CdnShutdown
    <2>4. stopped' = TRUE \/ stopped' = FALSE
      BY <1>10 DEF CdnShutdown
    <2>5. ProcessTypeOK'
      <3>1. console' \in {"read", "notify", "over"} /\ flag' \in BOOLEAN
        BY <2>3
      <3>2. watcher' \in {"eval", "block", "sleep", "grpc", "drain", "done"} \cup Teardown
        BY <2>1
      <3>3. main' \in {"s3", "thread", "running", "publish", "grpc", "serve", "join",
                 "exit", "abort", "crash"} \cup Teardown
        BY <2>1
      <3>4. cdnRunning' \in BOOLEAN /\ s3' \in {"null", "up", "dying"}
        BY <2>1, <2>3
      <3>5. http' \in {"none", "started", "listening", "over"} /\ stopped' \in BOOLEAN
        BY <2>3, <2>4
      <3>6. cdnRunning' => s3' = "up" /\ http' # "none"
        BY <2>1
      <3>7. grpc' \in {"null", "up", "stopping", "shut"} /\ gcdn' \in BOOLEAN
        BY <2>3
      <3>8. handler' \in [Handlers -> {"idle", "check", "submit"}]
        BY <2>3
      <3> QED
        BY <3>1, <3>2, <3>3, <3>4, <3>5, <3>6, <3>7, <3>8
    <2>6. Stages'
      BY <2>1, <2>2, <2>3
    <2>7. Joined' /\ NoFreedPool'
      BY <2>1, <2>3
    <2> QED
      BY <2>5, <2>6, <2>7
  <1>11. CASE CdnJoin("main")
    BY <1>11 DEF CdnJoin, At, Move, After, PoolJoins
  <1>12. CASE StartS3
    BY <1>12 DEF StartS3
  <1>13. CASE StartThread
    BY <1>13 DEF StartThread
  <1>14. CASE StartRunning
    BY <1>14 DEF StartRunning
  <1>15. CASE Publish
    BY <1>15 DEF Publish
  <1>16. CASE StartGrpc
    BY <1>16 DEF StartGrpc
  <1>17. CASE GrpcWait
    BY <1>17 DEF GrpcWait
  <1>18. CASE JoinWatcher
    BY <1>18 DEF JoinWatcher
  <1>19. CASE Listen
    BY <1>19 DEF Listen
  <1>20. CASE ListenEnd
    BY <1>20 DEF ListenEnd
  <1>21. ASSUME NEW h \in Handlers, DeleteCall(h) PROVE ProcessInv'
    BY <1>21 DEF DeleteCall
  <1>22. ASSUME NEW h \in Handlers, DeleteCheck(h) PROVE ProcessInv'
    BY <1>22 DEF DeleteCheck
  <1>23. ASSUME NEW h \in Handlers, DeleteSubmit(h) PROVE ProcessInv'
    BY <1>23 DEF DeleteSubmit
  <1>24. CASE UNCHANGED processVars
    BY <1>24 DEF processVars
  <1> QED
    BY <1>1, <1>2, <1>3, <1>4, <1>5, <1>6, <1>7, <1>8, <1>9, <1>10, <1>11, <1>12, <1>13,
       <1>14, <1>15, <1>16, <1>17, <1>18, <1>19, <1>20, <1>21, <1>22, <1>23, <1>24
       DEF ProcessNext, Console, Watcher, Main, Http, Delete

LEMMA ProcessSpecInv == ProcessSpec => []ProcessInv
  BY ProcessInitInv, ProcessNextInv, PTL DEF ProcessSpec

\* The flags and the places of the threads keep their types; running_ is set
\* only while the S3Context is up and its thread was started.
THEOREM ProcessTypeCorrect == ProcessSpec => []ProcessTypeOK
  <1>1. ProcessInv => ProcessTypeOK
    BY DEF ProcessInv
  <1> QED
    BY ProcessSpecInv, <1>1, PTL

\* The watcher and main are never in CdnServer::shutdown at the same time.
THEOREM OneTeardownHolds == ProcessSpec => []OneTeardown
  <1>1. ProcessInv => OneTeardown
    BY DEF ProcessInv, Joined, OneTeardown, Teardown
  <1> QED
    BY ProcessSpecInv, <1>1, PTL

\* No handler submits to a pool whose storage is gone.
THEOREM NoFreedPoolHolds == ProcessSpec => []NoFreedPool
  <1>1. ProcessInv => NoFreedPool
    BY DEF ProcessInv
  <1> QED
    BY ProcessSpecInv, <1>1, PTL
=============================================================================
