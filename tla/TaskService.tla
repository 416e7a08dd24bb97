---------------------------- MODULE TaskService ----------------------------
(***************************************************************************)
(* What the asynchronous task pool of the CDN promises to the handlers     *)
(* that use it: a closure that is accepted waits in a bounded FIFO, is     *)
(* started once, in acceptance order, and is eventually finished.          *)
(***************************************************************************)
EXTENDS Integers, Sequences

CONSTANTS Tasks, Capacity

VARIABLES pending, active, done

Pending == {pending[i] : i \in 1..Len(pending)}

Init == pending = <<>> /\ active = {} /\ done = {}

Accept(t) ==
    /\ t \notin Pending \cup active \cup done
    /\ Len(pending) < Capacity
    /\ pending' = Append(pending, t)
    /\ UNCHANGED <<active, done>>

Start ==
    /\ pending # <<>>
    /\ pending' = Tail(pending)
    /\ active' = active \cup {Head(pending)}
    /\ UNCHANGED done

Finish(t) ==
    /\ t \in active
    /\ active' = active \ {t}
    /\ done' = done \cup {t}
    /\ UNCHANGED pending

Next == Start \/ \E t \in Tasks : Accept(t) \/ Finish(t)

vars == <<pending, active, done>>

Safety == Init /\ [][Next]_vars

\* An accepted closure is started and finished, whatever else is submitted.
Spec == Safety /\ WF_vars(Start) /\ \A t \in Tasks : WF_vars(Finish(t))
=============================================================================
