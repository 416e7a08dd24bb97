----------------------------- MODULE WorkerPool -----------------------------
(***************************************************************************)
(* The task pool of backend/src/worker/worker.h: a bounded TaskQueue with  *)
(* one mutex and two condition variables, and the threads of a WorkerPool  *)
(* that drain it.                                                          *)
(*                                                                         *)
(* A critical section of mutex_ is one action.  A condition variable is    *)
(* the set of the threads blocked on it; wait(lock, pred) evaluates pred   *)
(* with the mutex held and blocks in the same critical section, and a      *)
(* thread that is notified (or wakes spuriously, which C++ allows) takes   *)
(* the mutex again and re-evaluates pred.  A closure is a member of Tasks  *)
(* and is submitted at most once.                                          *)
(***************************************************************************)
EXTENDS Integers, Sequences, FiniteSets

CONSTANTS
    Workers,    \* the threads_ of the pool
    Producers,  \* the threads that call submit
    Tasks,      \* the closures that may be submitted
    NoTask,     \* a thread that holds no closure
    MaxSize     \* TaskQueue::maxSize_ (1024 in the code)

ASSUME PoolAssumption ==
    /\ IsFiniteSet(Workers) /\ Workers # {}
    /\ IsFiniteSet(Producers)
    /\ MaxSize \in Nat \ {0}
    /\ NoTask \notin Tasks

VARIABLES
    queue,      \* TaskQueue::queue_
    running,    \* TaskQueue::running_
    pstate,     \* producer: idle, about to lock in push, blocked on cv_push_
    parg,       \* producer: the closure it is pushing
    wstate,     \* worker: about to lock in pop, blocked on cv_pop_, running
                \* a closure, or out of its loop
    wtask,      \* worker: the closure it is executing
    dtor,       \* ~WorkerPool: not called, or joining the threads
    finished    \* closures whose call has returned or thrown

vars == <<queue, running, pstate, parg, wstate, wtask, dtor, finished>>

Init ==
    /\ queue = <<>>
    /\ running = TRUE
    /\ pstate = [p \in Producers |-> "idle"]
    /\ parg = [p \in Producers |-> NoTask]
    /\ wstate = [w \in Workers |-> "pop"]
    /\ wtask = [w \in Workers |-> NoTask]
    /\ dtor = "alive"
    /\ finished = {}

Queued == {queue[i] : i \in 1..Len(queue)}
Pushing == {parg[p] : p \in Producers} \ {NoTask}
Executing == {wtask[w] : w \in Workers} \ {NoTask}
Submitted == Pushing \cup Queued \cup Executing \cup finished

-----------------------------------------------------------------------------
Waiting(st) == {x \in DOMAIN st : st[x] = "wait"}

\* notify_one: one blocked thread, any of them, goes back to its lock.
NotifyOne(st, awake) ==
    IF Waiting(st) = {} THEN {st}
    ELSE {[st EXCEPT ![x] = awake] : x \in Waiting(st)}

\* notify_all
NotifyAll(st, awake) ==
    [x \in DOMAIN st |-> IF st[x] = "wait" THEN awake ELSE st[x]]

\* Mutant of PushReady: off by one at the capacity.
MutPushReady == Len(queue) <= MaxSize \/ ~running

\* The predicate push waits for.
PushReady == Len(queue) < MaxSize \/ ~running

\* submit(fn): deleteObjectAsync reaches it only through a live s3_ pointer.
Submit(p, t) ==
    /\ pstate[p] = "idle" /\ dtor = "alive"
    /\ t \notin Submitted
    /\ pstate' = [pstate EXCEPT ![p] = "push"]
    /\ parg' = [parg EXCEPT ![p] = t]
    /\ UNCHANGED <<queue, running, wstate, wtask, dtor, finished>>

\* Mutant of PushEnter: cv_pop_ is not notified.
MutPushSilent(p) ==
    /\ pstate[p] = "push"
    /\ PushReady
    /\ pstate' = [pstate EXCEPT ![p] = "idle"]
    /\ parg' = [parg EXCEPT ![p] = NoTask]
    /\ queue' = IF running THEN Append(queue, parg[p]) ELSE queue
    /\ UNCHANGED <<running, wstate, wtask, dtor, finished>>

\* push, predicate true: a stopped queue refuses the closure and submit
\* ignores the refusal; otherwise it is queued and one worker notified.
PushEnter(p) ==
    /\ pstate[p] = "push"
    /\ PushReady
    /\ pstate' = [pstate EXCEPT ![p] = "idle"]
    /\ parg' = [parg EXCEPT ![p] = NoTask]
    /\ queue' = IF running THEN Append(queue, parg[p]) ELSE queue
    /\ wstate' \in IF running THEN NotifyOne(wstate, "pop") ELSE {wstate}
    /\ UNCHANGED <<running, wtask, dtor, finished>>

\* push, predicate false: block on cv_push_.
PushWait(p) ==
    /\ pstate[p] = "push"
    /\ ~PushReady
    /\ pstate' = [pstate EXCEPT ![p] = "wait"]
    /\ UNCHANGED <<queue, running, parg, wstate, wtask, dtor, finished>>

\* Mutant of PopTake: the front is copied and not popped.
MutPopKeeps(w) ==
    /\ wstate[w] = "pop"
    /\ queue # <<>>
    /\ wstate' = [wstate EXCEPT ![w] = "run"]
    /\ wtask' = [wtask EXCEPT ![w] = Head(queue)]
    /\ pstate' \in NotifyOne(pstate, "push")
    /\ UNCHANGED <<queue, running, parg, dtor, finished>>

\* Mutant of PopTake: cv_push_ is not notified.
MutPopSilent(w) ==
    /\ wstate[w] = "pop"
    /\ queue # <<>>
    /\ wstate' = [wstate EXCEPT ![w] = "run"]
    /\ wtask' = [wtask EXCEPT ![w] = Head(queue)]
    /\ queue' = Tail(queue)
    /\ UNCHANGED <<pstate, running, parg, dtor, finished>>

\* pop, queue not empty: take the front and notify one producer.
PopTake(w) ==
    /\ wstate[w] = "pop"
    /\ queue # <<>>
    /\ wstate' = [wstate EXCEPT ![w] = "run"]
    /\ wtask' = [wtask EXCEPT ![w] = Head(queue)]
    /\ queue' = Tail(queue)
    /\ pstate' \in NotifyOne(pstate, "push")
    /\ UNCHANGED <<running, parg, dtor, finished>>

\* pop, queue empty: block on cv_pop_ while running_, else return nullptr,
\* which ends the thread's loop.
PopEmpty(w) ==
    /\ wstate[w] = "pop"
    /\ queue = <<>>
    /\ wstate' = [wstate EXCEPT ![w] = IF running THEN "wait" ELSE "exited"]
    /\ UNCHANGED <<queue, running, pstate, parg, wtask, dtor, finished>>

\* Mutant of RunTask: the closure object outlives its iteration.
MutRunTask(w) ==
    /\ wstate[w] = "run"
    /\ finished' = finished \cup {wtask[w]}
    /\ wstate' = [wstate EXCEPT ![w] = "pop"]
    /\ UNCHANGED <<queue, running, pstate, parg, wtask, dtor>>

\* The loop body: the closure returns, or throws and the exception is
\* swallowed; either way the thread calls pop again.
RunTask(w) ==
    /\ wstate[w] = "run"
    /\ finished' = finished \cup {wtask[w]}
    /\ wtask' = [wtask EXCEPT ![w] = NoTask]
    /\ wstate' = [wstate EXCEPT ![w] = "pop"]
    /\ UNCHANGED <<queue, running, pstate, parg, dtor>>

\* Mutant of Running: shutdown clears running_ first.
MutRunning == FALSE

\* running_ as TaskQueue::shutdown leaves it.
Running == running

\* TaskQueue::shutdown, called by ~WorkerPool before it joins the threads.
\* It notifies both condition variables and leaves running_ as it is.
Shutdown ==
    /\ dtor = "alive"
    /\ dtor' = "join"
    /\ running' = Running
    /\ pstate' = NotifyAll(pstate, "push")
    /\ wstate' = NotifyAll(wstate, "pop")
    /\ UNCHANGED <<queue, parg, wtask, finished>>

\* A blocked thread may return from the wait without a notification.
SpuriousWakePush(p) ==
    /\ pstate[p] = "wait"
    /\ pstate' = [pstate EXCEPT ![p] = "push"]
    /\ UNCHANGED <<queue, running, parg, wstate, wtask, dtor, finished>>

SpuriousWakePop(w) ==
    /\ wstate[w] = "wait"
    /\ wstate' = [wstate EXCEPT ![w] = "pop"]
    /\ UNCHANGED <<queue, running, pstate, parg, wtask, dtor, finished>>

Push(p) == PushEnter(p) \/ PushWait(p)
Work(w) == PopTake(w) \/ PopEmpty(w) \/ RunTask(w)

Next ==
    \/ \E p \in Producers : \/ \E t \in Tasks : Submit(p, t)
                            \/ Push(p)
                            \/ SpuriousWakePush(p)
    \/ \E w \in Workers : Work(w) \/ SpuriousWakePop(w)
    \/ Shutdown

\* The OS schedules every runnable thread: a thread that can take the mutex
\* or is executing a closure goes on.  Nothing forces a submit, a
\* destructor call or a spurious wake-up.
Fairness ==
    /\ \A p \in Producers : WF_vars(Push(p))
    /\ \A w \in Workers : WF_vars(Work(w))

Spec == Init /\ [][Next]_vars /\ Fairness

-----------------------------------------------------------------------------
\* The queue, the threads and their arguments keep their types: a thread has a
\* closure exactly while it pushes or runs one.
TypeOK ==
    /\ queue \in Seq(Tasks)
    /\ running \in BOOLEAN
    /\ pstate \in [Producers -> {"idle", "push", "wait"}]
    /\ parg \in [Producers -> Tasks \cup {NoTask}]
    /\ \A p \in Producers : pstate[p] = "idle" <=> parg[p] = NoTask
    /\ wstate \in [Workers -> {"pop", "wait", "run", "exited"}]
    /\ wtask \in [Workers -> Tasks \cup {NoTask}]
    /\ \A w \in Workers : wstate[w] = "run" <=> wtask[w] # NoTask
    /\ dtor \in {"alive", "join"}
    /\ finished \in SUBSET Tasks

\* A closure is in one place at a time (a producer's argument, one slot of
\* the queue, one worker, finished) whatever threads interleave in push and
\* pop: it is never lost between them and never runs twice.
OnePlace ==
    /\ \A i, j \in 1..Len(queue) : queue[i] = queue[j] => i = j
    /\ \A p, q \in Producers : parg[p] = parg[q] /\ parg[p] # NoTask => p = q
    /\ \A v, w \in Workers : wtask[v] = wtask[w] /\ wtask[v] # NoTask => v = w
    /\ Pushing \cap (Queued \cup Executing \cup finished) = {}
    /\ Queued \cap (Executing \cup finished) = {}
    /\ Executing \cap finished = {}

\* One notify_one per push is enough: while there is a closure in the
\* queue, some worker is not asleep on cv_pop_.
NoStrandedWork == queue # <<>> => \E w \in Workers : wstate[w] # "wait"

\* One notify_one per pop is enough: while a producer sleeps on cv_push_
\* there are at least as many awake producers as free slots, so a free slot
\* is never left unused by sleeping producers.
NoStrandedProducer ==
    \/ Waiting(pstate) = {}
    \/ Cardinality({p \in Producers : pstate[p] = "push"}) >= MaxSize - Len(queue)

\* The pool is a TaskService: the mutex, the two condition variables and
\* the destructor hide behind a bounded FIFO that starts each accepted
\* closure once, in order, and finishes it.
Service == INSTANCE TaskService WITH
    Tasks <- Tasks, Capacity <- MaxSize,
    pending <- queue, active <- Executing, done <- finished

ImplementsService == Service!Spec

\* Every closure handed to submit is eventually executed, also when the
\* destructor runs while producers are blocked on a full queue.
EveryTaskRuns == \A t \in Tasks : (t \in Submitted) ~> (t \in finished)

\* No thread of the pool ever leaves its loop, also after ~WorkerPool has
\* called TaskQueue::shutdown: running_ stays true, so pop never returns
\* nullptr and the destructor's joins do not return.
NoWorkerLeaves == \A w \in Workers : wstate[w] # "exited"
=============================================================================
