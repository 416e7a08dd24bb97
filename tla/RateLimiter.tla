---------------------------- MODULE RateLimiter ----------------------------
(***************************************************************************)
(* The rate limiter of the gRPC server (backend/src/middlewares/ratelimit) *)
(* and the way its interceptor wraps a call.                               *)
(*                                                                         *)
(* A call passes the interceptor when its metadata has arrived, runs its   *)
(* handler, and passes the interceptor again when its status is sent.      *)
(* allowRequest holds mutex_ while it prunes, counts and pushes, but reads *)
(* the clock twice, so a second may pass in between.  Time is              *)
(* nowSeconds(): whole seconds of a steady clock.                          *)
(***************************************************************************)
EXTENDS Integers, Sequences, FiniteSets

CONSTANTS
    Calls,          \* calls the server handles at once
    Ips,            \* what getClientIp returns, "unknown" included
    Methods,        \* gRPC methods
    Routes,         \* the methods a RouteConfig names
    MaxRequests,    \* RouteConfig::max_requests
    Window,         \* RouteConfig::window, in seconds
    MaxTime         \* bound on the clock

ASSUME LimiterAssumption ==
    /\ Routes \subseteq Methods
    /\ MaxRequests \in [Routes -> Nat \ {0}]
    /\ Window \in [Routes -> Nat \ {0}]
    /\ MaxTime \in Nat

VARIABLES
    clock,      \* nowSeconds()
    usage,      \* usage_: the queue of timestamps of each address and method
    mutex,      \* the calls inside allowRequest that hold mutex_
    pc,         \* where each call is
    key,        \* address and method of each call
    rejected,   \* RatelimitIntercept::rejected_ of each call
    admitted    \* history: when calls of each address and method were let in

vars == <<clock, usage, mutex, pc, key, rejected, admitted>>

Keys == Ips \X Methods
Limited == Ips \X Routes
Route(k) == k[2]

Init ==
    /\ clock = 0
    /\ usage = [k \in Limited |-> <<>>]
    /\ mutex = {}
    /\ pc = [c \in Calls |-> "idle"]
    /\ key \in [Calls -> Keys]
    /\ rejected = [c \in Calls |-> FALSE]
    /\ admitted = [k \in Limited |-> <<>>]

-----------------------------------------------------------------------------
(* allowRequest.                                                           *)

Cutoff(k) == clock - Window[Route(k)]

\* Mutant of Pruned: the boundary of the window is off by one.
MutPruned(q, cutoff) ==
    LET n == CHOOSE n \in 0 .. Len(q) :
                /\ \A i \in 1 .. n : q[i] <= cutoff + 1
                /\ n < Len(q) => q[n + 1] > cutoff + 1
    IN  SubSeq(q, n + 1, Len(q))

\* What the loop over timestamps.front() leaves of a queue.
Pruned(q, cutoff) ==
    LET n == CHOOSE n \in 0 .. Len(q) :
                /\ \A i \in 1 .. n : q[i] <= cutoff
                /\ n < Len(q) => q[n + 1] > cutoff
    IN  SubSeq(q, n + 1, Len(q))

\* Mutant of Full: one request too many.
MutFull(k, q) == Len(q) > MaxRequests[Route(k)]

Full(k, q) == Len(q) >= MaxRequests[Route(k)]

\* The metadata of a new call has arrived; a gRPC call gets an interceptor
\* of its own, whose rejected_ is false.
Receive(c) ==
    /\ pc[c] = "idle"
    /\ pc' = [pc EXCEPT ![c] = "allow"]
    /\ \E k \in Keys : key' = [key EXCEPT ![c] = k]
    /\ rejected' = [rejected EXCEPT ![c] = FALSE]
    /\ UNCHANGED <<clock, usage, mutex, admitted>>

\* findRoute found nothing.
NoRoute(c) ==
    /\ pc[c] = "allow" /\ key[c] \notin Limited
    /\ pc' = [pc EXCEPT ![c] = "handle"]
    /\ UNCHANGED <<clock, usage, mutex, key, rejected, admitted>>

\* Mutant of Reject: the refused request is recorded as well.
MutReject(c) ==
    LET q == Pruned(usage[key[c]], Cutoff(key[c]))
    IN  /\ pc[c] = "allow" /\ key[c] \in Limited /\ mutex = {}
        /\ Full(key[c], q)
        /\ usage' = [usage EXCEPT ![key[c]] = Append(q, clock)]
        /\ rejected' = [rejected EXCEPT ![c] = TRUE]
        /\ pc' = [pc EXCEPT ![c] = "handle"]
        /\ UNCHANGED <<clock, mutex, key, admitted>>

\* The queue is pruned and still full: the interceptor notes it and lets
\* the call go on.
Reject(c) ==
    LET q == Pruned(usage[key[c]], Cutoff(key[c]))
    IN  /\ pc[c] = "allow" /\ key[c] \in Limited /\ mutex = {}
        /\ Full(key[c], q)
        /\ usage' = [usage EXCEPT ![key[c]] = q]
        /\ rejected' = [rejected EXCEPT ![c] = TRUE]
        /\ pc' = [pc EXCEPT ![c] = "handle"]
        /\ UNCHANGED <<clock, mutex, key, admitted>>

\* The queue has room after pruning.
Prune(c) ==
    LET q == Pruned(usage[key[c]], Cutoff(key[c]))
    IN  /\ pc[c] = "allow" /\ key[c] \in Limited /\ mutex = {}
        /\ ~Full(key[c], q)
        /\ usage' = [usage EXCEPT ![key[c]] = q]
        /\ mutex' = {c}
        /\ pc' = [pc EXCEPT ![c] = "push"]
        /\ UNCHANGED <<clock, key, rejected, admitted>>

\* push_back(nowSeconds()) and the end of the lock.
Push(c) ==
    /\ pc[c] = "push"
    /\ usage' = [usage EXCEPT ![key[c]] = Append(@, clock)]
    /\ admitted' = [admitted EXCEPT ![key[c]] = Append(@, clock)]
    /\ mutex' = {}
    /\ pc' = [pc EXCEPT ![c] = "handle"]
    /\ UNCHANGED <<clock, key, rejected>>

-----------------------------------------------------------------------------
(* The rest of a call.                                                     *)

\* gRPC runs the handler whatever rejected_ says.
Handle(c) ==
    /\ pc[c] = "handle"
    /\ pc' = [pc EXCEPT ![c] = "send"]
    /\ UNCHANGED <<clock, usage, mutex, key, rejected, admitted>>

\* PRE_SEND_STATUS: a rejected call is answered RESOURCE_EXHAUSTED.
Send(c) ==
    /\ pc[c] = "send"
    /\ pc' = [pc EXCEPT ![c] = IF rejected[c] THEN "exhausted" ELSE "answered"]
    /\ UNCHANGED <<clock, usage, mutex, key, rejected, admitted>>

\* The call and its interceptor are gone; another one may come.
Done(c) ==
    /\ pc[c] \in {"exhausted", "answered"}
    /\ pc' = [pc EXCEPT ![c] = "idle"]
    /\ UNCHANGED <<clock, usage, mutex, key, rejected, admitted>>

Tick ==
    /\ clock < MaxTime
    /\ clock' = clock + 1
    /\ UNCHANGED <<usage, mutex, pc, key, rejected, admitted>>

Proceed(c) ==
    NoRoute(c) \/ Reject(c) \/ Prune(c) \/ Push(c) \/ Handle(c) \/ Send(c) \/ Done(c)

Next == Tick \/ \E c \in Calls : Receive(c) \/ Proceed(c)

Spec == Init /\ [][Next]_vars

-----------------------------------------------------------------------------
\* The state of the limiter keeps its types; no queue of usage_ outgrows the
\* limit of its route.
TypeOK ==
    /\ clock \in 0 .. MaxTime
    /\ usage \in [Limited -> Seq(0 .. MaxTime)]
    /\ mutex \subseteq Calls
    /\ pc \in [Calls -> {"idle", "allow", "push", "handle", "send", "exhausted", "answered"}]
    /\ key \in [Calls -> Keys]
    /\ rejected \in [Calls -> BOOLEAN]
    /\ admitted \in [Limited -> Seq(0 .. MaxTime)]
    /\ \A k \in Limited : Len(usage[k]) <= MaxRequests[Route(k)]

\* Of any m + 1 successive times, the last is at least w after the first.
Spaced(s, m, w) == \A i \in 1 .. Len(s) : i + m <= Len(s) => s[i] + w <= s[i + m]

\* One call at a time decides and records, although the clock is read twice:
\* of any max_requests + 1 successive admissions of one address and method,
\* the last comes at least a window after the first, so no window holds more
\* than max_requests of them.
WindowBound ==
    \A k \in Limited : Spaced(admitted[k], MaxRequests[Route(k)], Window[Route(k)])

\* How many calls of a key were let in during the window that ends now.
Recent(k) == Cardinality({i \in 1 .. Len(admitted[k]) : admitted[k][i] > Cutoff(k)})

\* A call is refused only when the window that ends now holds max_requests
\* admitted calls of its address and method: refused calls and calls older
\* than the window never count against a client.
RejectedForCause ==
    [][\A c \in Calls : (~rejected[c] /\ rejected'[c])
                            => Recent(key[c]) >= MaxRequests[Route(key[c])]]_vars
=============================================================================
