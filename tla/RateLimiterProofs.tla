------------------------- MODULE RateLimiterProofs -------------------------
(***************************************************************************)
(* Proofs about RateLimiter for any calls, addresses, routes and limits.   *)
(***************************************************************************)
EXTENDS RateLimiter, FiniteSetTheorems, SequenceTheorems, WellFoundedInduction, TLAPS

\* The least-number principle, for the loop that prunes a queue.
LEMMA LeastNat ==
    ASSUME NEW T \in SUBSET Nat, T # {}
    PROVE  \E x \in T : \A y \in T : x <= y
  <1> DEFINE R == {ss \in Nat \X Nat : ss[1] < ss[2]}
  <1>1. IsWellFoundedOn(R, Nat)
    BY NatLessThanWellFounded, Zenon DEF OpToRel
  <1> HIDE DEF R
  <1>2. \E x \in T : \A y \in T : ~(<<y, x>> \in R)
    BY WFMin, <1>1, Zenon
  <1>3. PICK x \in T : \A y \in T : ~(<<y, x>> \in R)
    BY <1>2
  <1>4. \A y \in T : ~(y < x)
    BY <1>3 DEF R
  <1> QED
    BY <1>4

LEMMA SuffixType ==
    ASSUME NEW S, NEW u \in Seq(S), NEW n \in 0 .. Len(u)
    PROVE  SubSeq(u, n + 1, Len(u)) \in Seq(S)
  <1>1. /\ n + 1 \in Int /\ Len(u) \in Int
        /\ \A i \in n + 1 .. Len(u) : u[i] \in S
    OBVIOUS
  <1> QED
    BY <1>1, SubSeqProperties

\* The pruning loop drops a prefix that is out of the window and stops at an
\* element that is not.
LEMMA PrunedIs ==
    ASSUME NEW q \in Seq(Nat), NEW cutoff \in Int
    PROVE  \E n \in 0 .. Len(q) :
              /\ Pruned(q, cutoff) = SubSeq(q, n + 1, Len(q))
              /\ \A i \in 1 .. n : q[i] <= cutoff
              /\ n < Len(q) => q[n + 1] > cutoff
  <1> DEFINE T == {n \in 0 .. Len(q) : n < Len(q) => q[n + 1] > cutoff}
             Stop(n) == /\ \A i \in 1 .. n : q[i] <= cutoff
                        /\ n < Len(q) => q[n + 1] > cutoff
  <1>1. T \in SUBSET Nat /\ Len(q) \in T
    OBVIOUS
  <1>2. PICK n \in T : \A y \in T : n <= y
    BY <1>1, LeastNat
  <1>3. ASSUME NEW i \in 1 .. n PROVE q[i] <= cutoff
    <2>1. n \in Nat /\ n <= Len(q) /\ Len(q) \in Nat
      BY <1>2
    <2>2. i - 1 \in 0 .. Len(q) /\ i - 1 < Len(q) /\ i \in 1 .. Len(q) /\ q[i] \in Nat
      BY <2>1
    <2>3. i - 1 \notin T
      BY <1>2, <2>1, <2>2
    <2> QED
      BY <2>2, <2>3
  <1>4. \E m \in 0 .. Len(q) : Stop(m)
    BY <1>2, <1>3
  <1>5. /\ (CHOOSE m \in 0 .. Len(q) : Stop(m)) \in 0 .. Len(q)
        /\ Stop(CHOOSE m \in 0 .. Len(q) : Stop(m))
    BY <1>4, Zenon
  <1> QED
    BY <1>5 DEF Pruned

-----------------------------------------------------------------------------
\* A queue q against the admissions s, window w and time t: it holds the
\* newest admissions, and those it has dropped are out of the window for good.
QueueOK(s, q, w, t) ==
    /\ \A i, j \in 1 .. Len(s) : i <= j => s[i] <= s[j]
    /\ \A i \in 1 .. Len(s) : s[i] <= t
    /\ Len(q) <= Len(s)
    /\ \A i \in 1 .. Len(q) : q[i] = s[Len(s) - Len(q) + i]
    /\ \A i \in 1 .. Len(s) - Len(q) : s[i] + w <= t

\* Pruning keeps the newest admissions and leaves only recent ones.
LEMMA QueuePrune ==
    ASSUME NEW s \in Seq(Nat), NEW u \in Seq(Nat), NEW w \in Nat, NEW t \in Nat,
           QueueOK(s, u, w, t)
    PROVE  /\ QueueOK(s, Pruned(u, t - w), w, t)
           /\ Len(Pruned(u, t - w)) <= Len(u)
           /\ Pruned(u, t - w) \in Seq(Nat)
           /\ \A i \in 1 .. Len(u) : u[i] \in 0 .. t
           /\ \A i \in 1 .. Len(Pruned(u, t - w)) :
                 /\ Pruned(u, t - w)[i] > t - w
                 /\ Pruned(u, t - w)[i] \in 0 .. t
  <1> DEFINE q == Pruned(u, t - w)
  <1>0. t - w \in Int
    OBVIOUS
  <1>1. PICK n \in 0 .. Len(u) :
            /\ q = SubSeq(u, n + 1, Len(u))
            /\ \A i \in 1 .. n : u[i] <= t - w
            /\ n < Len(u) => u[n + 1] > t - w
    BY <1>0, PrunedIs
  <1> HIDE DEF q
  <1>2. /\ Len(q) = Len(u) - n /\ q \in Seq(Nat)
        /\ \A i \in 1 .. Len(q) : q[i] = u[n + i]
    <2>1. n \in Nat /\ Len(u) \in Nat /\ n <= Len(u)
      BY <1>1
    <2>2. q \in Seq(Nat)
      BY <1>1, <2>1, SuffixType
    <2>3. Len(q) = Len(u) - n
      BY <1>1, <2>1
    <2>4. \A i \in 1 .. Len(q) : q[i] = u[n + i]
      BY <1>1, <2>1, <2>3
    <2> QED
      BY <2>2, <2>3, <2>4
  <1>3. /\ Len(s) \in Nat /\ Len(u) \in Nat /\ Len(q) \in Nat /\ Len(u) <= Len(s)
        /\ Len(q) <= Len(u)
    BY <1>2 DEF QueueOK
  <1>4. ASSUME NEW i \in 1 .. Len(q) PROVE q[i] = s[Len(s) - Len(q) + i]
    <2>1. n + i \in 1 .. Len(u)
      BY <1>2, <1>3
    <2>2. u[n + i] = s[Len(s) - Len(u) + (n + i)]
      BY <2>1 DEF QueueOK
    <2>3. Len(s) - Len(u) + (n + i) = Len(s) - Len(q) + i
      BY <1>2, <1>3
    <2> QED
      BY <1>2, <2>2, <2>3
  <1>5. ASSUME NEW i \in 1 .. Len(q) PROVE q[i] > t - w
    <2>1. 1 \in 1 .. Len(q) /\ q[1] > t - w
      BY <1>1, <1>2, <1>3
    <2>2. /\ Len(s) - Len(q) + 1 \in 1 .. Len(s) /\ Len(s) - Len(q) + i \in 1 .. Len(s)
          /\ Len(s) - Len(q) + 1 <= Len(s) - Len(q) + i
      BY <1>3, <2>1
    <2>3. s[Len(s) - Len(q) + 1] <= s[Len(s) - Len(q) + i]
      BY <2>2 DEF QueueOK
    <2>4. \A j \in 1 .. Len(q) : q[j] \in Nat
      BY <1>2, ElementOfSeq, Zenon
    <2>5. q[1] = s[Len(s) - Len(q) + 1] /\ q[i] = s[Len(s) - Len(q) + i]
      BY <1>4, <2>1
    <2>6. q[1] <= q[i]
      BY <2>3, <2>5
    <2> QED
      BY <1>0, <2>1, <2>4, <2>6
  <1>6. ASSUME NEW i \in 1 .. Len(s) - Len(q) PROVE s[i] + w <= t
    <2>1. CASE i <= Len(s) - Len(u)
      BY <1>3, <2>1 DEF QueueOK
    <2>2. CASE i > Len(s) - Len(u)
      <3>0. n \in Nat /\ n <= Len(u) /\ Len(q) = Len(u) - n
        BY <1>1, <1>2, <1>3
      <3>1. i - (Len(s) - Len(u)) \in 1 .. n /\ i - (Len(s) - Len(u)) \in 1 .. Len(u)
        <4>1. i \in Nat /\ i <= Len(s) - Len(q)
          BY <1>3
        <4>2. i - (Len(s) - Len(u)) >= 1 /\ i - (Len(s) - Len(u)) <= n
          BY <1>3, <2>2, <3>0, <4>1
        <4>3. i - (Len(s) - Len(u)) \in Int
          BY <1>3, <4>1
        <4> QED
          BY <1>3, <3>0, <4>2, <4>3
      <3>2. u[i - (Len(s) - Len(u))] = s[Len(s) - Len(u) + (i - (Len(s) - Len(u)))]
        BY <3>1 DEF QueueOK
      <3>3. Len(s) - Len(u) + (i - (Len(s) - Len(u))) = i /\ i \in 1 .. Len(s)
        BY <1>3
      <3>4. u[i - (Len(s) - Len(u))] <= t - w
        BY <1>1, <3>1
      <3>5. s[i] <= t - w /\ s[i] \in Nat
        BY <3>2, <3>3, <3>4
      <3> QED
        BY <3>5
    <2> QED
      BY <1>3, <2>1, <2>2
  <1>7. ASSUME NEW i \in 1 .. Len(u) PROVE u[i] \in 0 .. t
    <2>1. Len(s) - Len(u) + i \in 1 .. Len(s) /\ u[i] \in Nat
      BY <1>3
    <2>2. u[i] = s[Len(s) - Len(u) + i] /\ s[Len(s) - Len(u) + i] <= t
      BY <2>1 DEF QueueOK
    <2> QED
      BY <2>1, <2>2
  <1>8. ASSUME NEW i \in 1 .. Len(q) PROVE q[i] \in 0 .. t
    <2>1. n + i \in 1 .. Len(u)
      BY <1>2, <1>3
    <2> QED
      BY <1>2, <1>7, <2>1
  <1>9. QueueOK(s, q, w, t)
    BY <1>3, <1>4, <1>6 DEF QueueOK
  <1> QED
    BY <1>2, <1>3, <1>5, <1>7, <1>8, <1>9 DEF q

\* Recording an admission.
LEMMA QueuePush ==
    ASSUME NEW s \in Seq(Nat), NEW q \in Seq(Nat), NEW w \in Nat, NEW t \in Nat,
           QueueOK(s, q, w, t)
    PROVE  QueueOK(Append(s, t), Append(q, t), w, t)
  <1> DEFINE s1 == Append(s, t)
             q1 == Append(q, t)
  <1>1. /\ Len(s1) = Len(s) + 1 /\ Len(q1) = Len(q) + 1
        /\ Len(s) \in Nat /\ Len(q) \in Nat
        /\ \A i \in 1 .. Len(s) : s1[i] = s[i] /\ s[i] \in Nat
        /\ \A i \in 1 .. Len(q) : q1[i] = q[i]
        /\ s1[Len(s) + 1] = t /\ q1[Len(q) + 1] = t
    OBVIOUS
  <1> HIDE DEF s1, q1
  <1>2. /\ \A i, j \in 1 .. Len(s) : i <= j => s[i] <= s[j]
        /\ \A i \in 1 .. Len(s) : s[i] <= t
        /\ Len(q) <= Len(s)
        /\ \A i \in 1 .. Len(q) : q[i] = s[Len(s) - Len(q) + i]
        /\ \A i \in 1 .. Len(s) - Len(q) : s[i] + w <= t
    BY DEF QueueOK
  <1>3. ASSUME NEW i \in 1 .. Len(s1) PROVE s1[i] <= t
    <2>1. i = Len(s) + 1 \/ i \in 1 .. Len(s)
      BY <1>1
    <2>2. CASE i = Len(s) + 1
      BY <1>1, <2>2
    <2>3. CASE i \in 1 .. Len(s)
      BY <1>1, <1>2, <2>3
    <2> QED
      BY <2>1, <2>2, <2>3
  <1>4. ASSUME NEW i \in 1 .. Len(s1), NEW j \in 1 .. Len(s1), i <= j
        PROVE  s1[i] <= s1[j]
    <2>1. CASE j = Len(s) + 1
      BY <1>1, <1>3, <2>1
    <2>2. CASE j # Len(s) + 1
      <3>1. i \in 1 .. Len(s) /\ j \in 1 .. Len(s)
        BY <1>1, <1>4, <2>2
      <3> QED
        BY <1>1, <1>2, <1>4, <3>1
    <2> QED
      BY <2>1, <2>2
  <1>5. ASSUME NEW i \in 1 .. Len(q1) PROVE q1[i] = s1[Len(s1) - Len(q1) + i]
    <2>1. CASE i = Len(q) + 1
      <3>1. Len(s1) - Len(q1) + i = Len(s) + 1
        BY <1>1, <2>1
      <3> QED
        BY <1>1, <2>1, <3>1
    <2>2. CASE i # Len(q) + 1
      <3>1. /\ i \in 1 .. Len(q) /\ Len(s1) - Len(q1) + i = Len(s) - Len(q) + i
            /\ Len(s) - Len(q) + i \in 1 .. Len(s)
        BY <1>1, <1>2, <2>2
      <3> QED
        BY <1>1, <1>2, <3>1
    <2> QED
      BY <2>1, <2>2
  <1>6. ASSUME NEW i \in 1 .. Len(s1) - Len(q1) PROVE s1[i] + w <= t
    <2>1. i \in 1 .. Len(s) - Len(q) /\ i \in 1 .. Len(s)
      BY <1>1, <1>2
    <2> QED
      BY <1>1, <1>2, <2>1
  <1>7. Len(q1) <= Len(s1)
    BY <1>1, <1>2
  <1>8. QueueOK(s1, q1, w, t)
    BY <1>3, <1>4, <1>5, <1>6, <1>7 DEF QueueOK
  <1> QED
    BY <1>8 DEF s1, q1

\* Time only makes dropped admissions older.
LEMMA QueueTick ==
    ASSUME NEW s \in Seq(Nat), NEW q \in Seq(Nat), NEW w \in Nat, NEW t \in Nat,
           QueueOK(s, q, w, t)
    PROVE  QueueOK(s, q, w, t + 1)
  <1>1. \A i \in 1 .. Len(s) : s[i] \in Nat
    OBVIOUS
  <1>2. \A i \in 1 .. Len(s) : s[i] <= t + 1
    BY <1>1 DEF QueueOK
  <1>3. Len(s) \in Nat /\ Len(q) \in Nat
    OBVIOUS
  <1>4. \A i \in 1 .. Len(s) - Len(q) : s[i] + w <= t + 1
    BY <1>1, <1>3 DEF QueueOK
  <1> QED
    BY <1>2, <1>4 DEF QueueOK

\* An admission into a queue with room keeps the admissions spaced: the one
\* m before it has left the queue, so it is a window older.
LEMMA QueueSpaced ==
    ASSUME NEW s \in Seq(Nat), NEW q \in Seq(Nat), NEW w \in Nat, NEW t \in Nat,
           NEW m \in Nat \ {0}, QueueOK(s, q, w, t), Spaced(s, m, w), Len(q) < m
    PROVE  Spaced(Append(s, t), m, w)
  <1> DEFINE s1 == Append(s, t)
  <1>1. /\ Len(s1) = Len(s) + 1 /\ Len(s) \in Nat /\ Len(q) \in Nat
        /\ \A i \in 1 .. Len(s) : s1[i] = s[i]
        /\ s1[Len(s) + 1] = t
    OBVIOUS
  <1> HIDE DEF s1
  <1>2. ASSUME NEW i \in 1 .. Len(s1), i + m <= Len(s1) PROVE s1[i] + w <= s1[i + m]
    <2>1. i \in 1 .. Len(s)
      BY <1>1, <1>2
    <2>2. CASE i + m = Len(s) + 1
      <3>1. i \in 1 .. Len(s) - Len(q)
        BY <1>1, <2>1, <2>2
      <3>2. s[i] + w <= t
        BY <3>1 DEF QueueOK
      <3> QED
        BY <1>1, <2>1, <2>2, <3>2
    <2>3. CASE i + m # Len(s) + 1
      <3>1. i + m <= Len(s) /\ i + m \in 1 .. Len(s)
        <4>1. i \in Nat /\ m \in Nat /\ i >= 1 /\ Len(s) \in Nat /\ i + m <= Len(s) + 1
          BY <1>1, <1>2, <2>1
        <4>2. i + m \in Nat /\ i + m >= 1
          BY <4>1
        <4>3. i + m <= Len(s)
          BY <2>3, <4>1, <4>2
        <4> QED
          BY <4>1, <4>2, <4>3
      <3>2. s[i] + w <= s[i + m]
        BY <2>1, <3>1 DEF Spaced
      <3> QED
        BY <1>1, <2>1, <3>1, <3>2
    <2> QED
      BY <2>2, <2>3
  <1> QED
    BY <1>2 DEF Spaced, s1

-----------------------------------------------------------------------------
\* The inductive invariant.  A call about to push holds the mutex and has
\* room in its queue; every queue holds the newest admissions of its key.
Room ==
    \A c \in Calls : pc[c] = "push" =>
        /\ mutex = {c}
        /\ key[c] \in Limited
        /\ Len(usage[key[c]]) < MaxRequests[Route(key[c])]

Queues == \A k \in Limited : QueueOK(admitted[k], usage[k], Window[Route(k)], clock)

Inv == TypeOK /\ Room /\ Queues /\ WindowBound

LEMMA KeyTypes ==
    ASSUME TypeOK, NEW k \in Limited
    PROVE  /\ Window[Route(k)] \in Nat /\ MaxRequests[Route(k)] \in Nat \ {0}
           /\ usage[k] \in Seq(Nat) /\ admitted[k] \in Seq(Nat)
           /\ clock \in Nat
  BY LimiterAssumption DEF TypeOK, Limited, Route

LEMMA InitInv == Init => Inv
  <1> SUFFICES ASSUME Init PROVE Inv
    OBVIOUS
  <1>1. \A k \in Limited : MaxRequests[Route(k)] \in Nat
    BY LimiterAssumption DEF Limited, Route
  <1>2. TypeOK
    BY LimiterAssumption, <1>1 DEF Init, TypeOK
  <1>3. Room
    BY DEF Init, Room
  <1>4. Queues /\ WindowBound
    BY DEF Init, Queues, QueueOK, WindowBound, Spaced
  <1> QED
    BY <1>2, <1>3, <1>4 DEF Inv

\* The two ways to leave the pruning: the queue of the key is replaced by
\* what the loop leaves, and nothing else about the queues changes.
LEMMA PruneKeepsQueues ==
    ASSUME Inv, NEW k0 \in Limited, UNCHANGED <<clock, admitted>>,
           usage' = [usage EXCEPT ![k0] = Pruned(usage[k0], Cutoff(k0))]
    PROVE  /\ usage' \in [Limited -> Seq(0 .. MaxTime)]
           /\ \A k \in Limited : Len(usage'[k]) <= MaxRequests[Route(k)]
           /\ usage'[k0] = Pruned(usage[k0], Cutoff(k0))
           /\ Queues' /\ WindowBound'
  <1> DEFINE q == Pruned(usage[k0], Cutoff(k0))
  <1>1. /\ Cutoff(k0) = clock - Window[Route(k0)]
        /\ QueueOK(admitted[k0], usage[k0], Window[Route(k0)], clock)
    BY DEF Cutoff, Inv, Queues
  <1>2. /\ QueueOK(admitted[k0], q, Window[Route(k0)], clock)
        /\ Len(q) <= Len(usage[k0]) /\ q \in Seq(Nat)
    BY <1>1, KeyTypes, QueuePrune DEF Inv
  <1> HIDE DEF q
  <1>3. q \in Seq(0 .. MaxTime)
    <2>1. clock - Window[Route(k0)] \in Int /\ usage[k0] \in Seq(0 .. MaxTime)
      BY KeyTypes DEF Inv, TypeOK
    <2>2. PICK n \in 0 .. Len(usage[k0]) : q = SubSeq(usage[k0], n + 1, Len(usage[k0]))
      BY <1>1, <2>1, KeyTypes, PrunedIs DEF Inv, q
    <2> QED
      BY <2>1, <2>2, SuffixType
  <1>4. usage \in [Limited -> Seq(0 .. MaxTime)] /\ usage' = [usage EXCEPT ![k0] = q]
    BY DEF Inv, TypeOK, q
  <1>5. \A k \in Limited : usage'[k] = IF k = k0 THEN q ELSE usage[k]
    BY <1>4
  <1>6. ASSUME NEW k \in Limited PROVE Len(usage'[k]) <= MaxRequests[Route(k)]
    <2>1. /\ Len(usage[k]) <= MaxRequests[Route(k)] /\ MaxRequests[Route(k)] \in Nat
          /\ usage[k] \in Seq(Nat)
      BY KeyTypes DEF Inv, TypeOK
    <2>2. Len(q) \in Nat /\ Len(usage[k]) \in Nat
      BY <1>2, <2>1
    <2> QED
      BY <1>2, <1>5, <2>1, <2>2
  <1>7. Queues'
    BY <1>2, <1>5 DEF Inv, Queues
  <1>8. WindowBound'
    BY DEF Inv, WindowBound
  <1> QED
    BY <1>3, <1>4, <1>5, <1>6, <1>7, <1>8 DEF q

LEMMA PushKeepsInv ==
    ASSUME Inv, NEW c \in Calls, Push(c)
    PROVE  Inv'
  <1> DEFINE k0 == key[c]
             u1 == Append(usage[k0], clock)
             s1 == Append(admitted[k0], clock)
  <1>1. /\ k0 \in Limited /\ Len(usage[k0]) < MaxRequests[Route(k0)]
        /\ mutex = {c}
    BY DEF Inv, Room, Push
  <1>2. /\ Window[Route(k0)] \in Nat /\ MaxRequests[Route(k0)] \in Nat \ {0}
        /\ usage[k0] \in Seq(Nat) /\ admitted[k0] \in Seq(Nat) /\ clock \in Nat
    BY <1>1, KeyTypes DEF Inv
  <1>3. QueueOK(admitted[k0], usage[k0], Window[Route(k0)], clock)
    BY <1>1 DEF Inv, Queues
  <1>4. QueueOK(s1, u1, Window[Route(k0)], clock)
    BY <1>2, <1>3, QueuePush
  <1>5. Spaced(s1, MaxRequests[Route(k0)], Window[Route(k0)])
    <2>1. Spaced(admitted[k0], MaxRequests[Route(k0)], Window[Route(k0)])
      BY <1>1 DEF Inv, WindowBound
    <2> QED
      BY <1>1, <1>2, <1>3, <2>1, QueueSpaced
  <1>6. /\ usage \in [Limited -> Seq(0 .. MaxTime)]
        /\ admitted \in [Limited -> Seq(0 .. MaxTime)]
        /\ clock \in 0 .. MaxTime
    BY DEF Inv, TypeOK
  <1>7. u1 \in Seq(0 .. MaxTime) /\ s1 \in Seq(0 .. MaxTime) /\ Len(u1) = Len(usage[k0]) + 1
    BY <1>1, <1>6
  <1>8. /\ usage' = [usage EXCEPT ![k0] = u1]
        /\ admitted' = [admitted EXCEPT ![k0] = s1]
        /\ clock' = clock /\ mutex' = {} /\ pc' = [pc EXCEPT ![c] = "handle"]
        /\ UNCHANGED <<key, rejected>>
    BY DEF Push
  <1> HIDE DEF u1, s1
  <1>9. \A k \in Limited : /\ usage'[k] = IF k = k0 THEN u1 ELSE usage[k]
                           /\ admitted'[k] = IF k = k0 THEN s1 ELSE admitted[k]
    BY <1>6, <1>8
  <1>10. ASSUME NEW k \in Limited PROVE Len(usage'[k]) <= MaxRequests[Route(k)]
    <2>1. Len(u1) <= MaxRequests[Route(k0)]
      <3>1. Len(usage[k0]) \in Nat
        BY <1>2
      <3> QED
        BY <1>1, <1>2, <1>7, <3>1
    <2> QED
      BY <1>9, <2>1 DEF Inv, TypeOK
  <1>11. TypeOK'
    <2>1. /\ usage' \in [Limited -> Seq(0 .. MaxTime)]
          /\ admitted' \in [Limited -> Seq(0 .. MaxTime)]
      BY <1>6, <1>7, <1>8
    <2> QED
      BY <1>8, <1>10, <2>1 DEF Inv, TypeOK
  <1>12. Room'
    <2>1. \A d \in Calls : pc'[d] # "push"
      BY <1>1, <1>8 DEF Inv, TypeOK, Room
    <2> QED
      BY <2>1 DEF Room
  <1>13. Queues'
    BY <1>4, <1>8, <1>9 DEF Inv, Queues
  <1>14. WindowBound'
    BY <1>5, <1>9 DEF Inv, WindowBound
  <1> QED
    BY <1>11, <1>12, <1>13, <1>14 DEF Inv

LEMMA NextInv == Inv /\ [Next]_vars => Inv'
  <1> SUFFICES ASSUME Inv, [Next]_vars PROVE Inv'
    OBVIOUS
  <1>1. ASSUME NEW c \in Calls, Receive(c) PROVE Inv'
    <2>1. TypeOK'
      BY <1>1 DEF Receive, Inv, TypeOK
    <2>2. Room'
      BY <1>1 DEF Receive, Inv, TypeOK, Room
    <2> QED
      BY <1>1, <2>1, <2>2 DEF Receive, Inv, Queues, WindowBound
  <1>2. ASSUME NEW c \in Calls, NoRoute(c) \/ Handle(c) \/ Send(c) \/ Done(c) PROVE Inv'
    <2>1. TypeOK'
      BY <1>2 DEF NoRoute, Handle, Send, Done, Inv, TypeOK
    <2>2. Room'
      BY <1>2 DEF NoRoute, Handle, Send, Done, Inv, TypeOK, Room
    <2> QED
      BY <1>2, <2>1, <2>2 DEF NoRoute, Handle, Send, Done, Inv, Queues, WindowBound
  <1>3. ASSUME NEW c \in Calls, Reject(c) PROVE Inv'
    <2>1. /\ key[c] \in Limited /\ UNCHANGED <<clock, admitted, mutex, key>>
          /\ usage' = [usage EXCEPT ![key[c]] = Pruned(usage[key[c]], Cutoff(key[c]))]
          /\ rejected' = [rejected EXCEPT ![c] = TRUE]
          /\ pc' = [pc EXCEPT ![c] = "handle"] /\ mutex = {}
      BY <1>3 DEF Reject
    <2>2. TypeOK' /\ Queues' /\ WindowBound'
      BY <2>1, PruneKeepsQueues DEF Inv, TypeOK
    <2>3. Room'
      BY <2>1 DEF Inv, TypeOK, Room
    <2> QED
      BY <2>2, <2>3 DEF Inv
  <1>4. ASSUME NEW c \in Calls, Prune(c) PROVE Inv'
    <2>1. /\ key[c] \in Limited /\ UNCHANGED <<clock, admitted, key, rejected>>
          /\ usage' = [usage EXCEPT ![key[c]] = Pruned(usage[key[c]], Cutoff(key[c]))]
          /\ mutex' = {c} /\ mutex = {}
          /\ pc' = [pc EXCEPT ![c] = "push"]
          /\ ~Full(key[c], Pruned(usage[key[c]], Cutoff(key[c])))
      BY <1>4 DEF Prune
    <2>2. /\ TypeOK' /\ Queues' /\ WindowBound'
          /\ usage'[key[c]] = Pruned(usage[key[c]], Cutoff(key[c]))
      BY <2>1, PruneKeepsQueues DEF Inv, TypeOK
    <2>3. Len(usage'[key[c]]) < MaxRequests[Route(key[c])]
      <3>1. Len(usage'[key[c]]) \in Nat /\ MaxRequests[Route(key[c])] \in Nat
        BY <2>1, <2>2, LimiterAssumption DEF TypeOK, Limited, Route
      <3> QED
        BY <2>1, <2>2, <3>1 DEF Full
    <2>4. Room'
      <3>1. \A d \in Calls : pc'[d] = "push" => d = c
        BY <2>1 DEF Inv, TypeOK, Room
      <3> QED
        BY <2>1, <2>3, <3>1 DEF Room
    <2> QED
      BY <2>2, <2>4 DEF Inv
  <1>5. CASE Tick
    <2>1. TypeOK'
      BY <1>5, LimiterAssumption DEF Tick, Inv, TypeOK
    <2>2. Queues'
      <3> SUFFICES ASSUME NEW k \in Limited
                   PROVE  QueueOK(admitted[k], usage[k], Window[Route(k)], clock + 1)
        BY <1>5 DEF Tick, Queues
      <3>1. QueueOK(admitted[k], usage[k], Window[Route(k)], clock)
        BY DEF Inv, Queues
      <3> QED
        BY <3>1, KeyTypes, QueueTick DEF Inv
    <2> QED
      BY <1>5, <2>1, <2>2 DEF Tick, Inv, Room, WindowBound
  <1>6. CASE UNCHANGED vars
    BY <1>6 DEF vars, Inv, TypeOK, Room, Queues, WindowBound
  <1> QED
    BY <1>1, <1>2, <1>3, <1>4, <1>5, <1>6, PushKeepsInv DEF Next, Proceed

-----------------------------------------------------------------------------
\* allowRequest keeps the inductive invariant.
THEOREM LimiterInvariant == Spec => []Inv
  BY InitInv, NextInv, PTL DEF Spec

\* The state of the limiter keeps its types, and no queue of usage_ grows
\* past max_requests, for any calls, addresses, routes and limits.
THEOREM LimiterTypeCorrect == Spec => []TypeOK
  BY LimiterInvariant, PTL DEF Inv

\* allowRequest never lets more than max_requests calls of one address and
\* method in during a window, whatever calls interleave and although the
\* clock may advance between its two readings.
THEOREM LimiterWindowBound == Spec => []WindowBound
  BY LimiterInvariant, PTL DEF Inv

\* When allowRequest refuses a call, max_requests calls of its address and
\* method were let in during the window that ends now.
LEMMA RejectHasCause ==
    ASSUME Inv, NEW c \in Calls, Reject(c)
    PROVE  Recent(key[c]) >= MaxRequests[Route(key[c])]
  <1> DEFINE k == key[c]
             s == admitted[k]
             q == Pruned(usage[k], Cutoff(k))
             S == {i \in 1 .. Len(s) : s[i] > Cutoff(k)}
             m == MaxRequests[Route(k)]
  <1>1. k \in Limited /\ Full(k, q)
    BY DEF Reject
  <1>2. /\ Window[Route(k)] \in Nat /\ m \in Nat \ {0}
        /\ usage[k] \in Seq(Nat) /\ s \in Seq(Nat) /\ clock \in Nat
        /\ Cutoff(k) = clock - Window[Route(k)]
    BY <1>1, KeyTypes DEF Inv, Cutoff
  <1>3. QueueOK(s, usage[k], Window[Route(k)], clock)
    BY <1>1 DEF Inv, Queues
  <1>4. /\ QueueOK(s, q, Window[Route(k)], clock) /\ q \in Seq(Nat)
        /\ \A i \in 1 .. Len(q) : q[i] > Cutoff(k)
    <2> HIDE DEF k, s
    <2> QED
      BY <1>2, <1>3, QueuePrune
  <1>5. Len(q) >= m /\ Len(q) \in Nat /\ Len(s) \in Nat
    BY <1>1, <1>2, <1>4 DEF Full
  <1> HIDE DEF k, s, q, m
  <1>6. Len(q) <= Len(s) /\ \A i \in 1 .. Len(q) : q[i] = s[Len(s) - Len(q) + i]
    BY <1>4 DEF QueueOK
  <1>7. ASSUME NEW j \in (Len(s) - Len(q) + 1) .. Len(s) PROVE j \in S
    <2>1. /\ j - (Len(s) - Len(q)) \in 1 .. Len(q) /\ j \in 1 .. Len(s)
          /\ Len(s) - Len(q) + (j - (Len(s) - Len(q))) = j
      BY <1>5, <1>6
    <2>2. s[j] > Cutoff(k)
      BY <1>4, <1>6, <2>1
    <2> QED
      BY <2>1, <2>2
  <1>8. /\ IsFiniteSet((Len(s) - Len(q) + 1) .. Len(s))
        /\ Cardinality((Len(s) - Len(q) + 1) .. Len(s)) = Len(q)
    <2>1. Len(s) - Len(q) + 1 \in Int /\ Len(s) \in Int
      BY <1>5
    <2>2. /\ IsFiniteSet((Len(s) - Len(q) + 1) .. Len(s))
          /\ Cardinality((Len(s) - Len(q) + 1) .. Len(s))
               = IF Len(s) - Len(q) + 1 > Len(s) THEN 0
                 ELSE Len(s) - (Len(s) - Len(q) + 1) + 1
      BY <2>1, FS_Interval
    <2> QED
      BY <1>5, <1>6, <2>2
  <1>9. IsFiniteSet(S) /\ Cardinality(S) \in Nat
    <2>1. IsFiniteSet(1 .. Len(s)) /\ S \in SUBSET (1 .. Len(s))
      BY <1>5, FS_Interval
    <2> QED
      BY <2>1, FS_Subset, FS_CardinalityType
  <1>10. Len(q) <= Cardinality(S)
    <2>1. (Len(s) - Len(q) + 1) .. Len(s) \in SUBSET S
      BY <1>7
    <2> HIDE DEF S
    <2> QED
      BY <1>8, <1>9, <2>1, FS_Subset
  <1>11. Recent(k) = Cardinality(S)
    BY DEF Recent, s
  <1> QED
    BY <1>2, <1>5, <1>9, <1>10, <1>11 DEF k, m

\* A call is refused only when its address used its method max_requests
\* times within the window, for any calls, addresses, routes and limits.
THEOREM LimiterRejectedForCause == Spec => RejectedForCause
  <1>1. ASSUME Inv, [Next]_vars
        PROVE  [\A c \in Calls : (~rejected[c] /\ rejected'[c])
                                    => Recent(key[c]) >= MaxRequests[Route(key[c])]]_vars
    <2>1. rejected \in [Calls -> BOOLEAN]
      BY <1>1 DEF Inv, TypeOK
    <2> SUFFICES ASSUME NEW c \in Calls, ~rejected[c], rejected'[c]
                 PROVE  Recent(key[c]) >= MaxRequests[Route(key[c])]
      OBVIOUS
    <2>2. rejected' # rejected
      BY Zenon
    <2>3. ~Tick /\ ~UNCHANGED vars
      BY <2>2 DEF Tick, vars
    <2>4. ASSUME NEW d \in Calls, Receive(d) PROVE FALSE
      <3>1. rejected' = [rejected EXCEPT ![d] = FALSE]
        BY <2>4 DEF Receive
      <3> QED
        BY <2>1, <3>1, Zenon
    <2>5. \A d \in Calls : ~NoRoute(d) /\ ~Prune(d) /\ ~Push(d) /\ ~Handle(d) /\ ~Send(d) /\ ~Done(d)
      BY <2>2 DEF NoRoute, Prune, Push, Handle, Send, Done
    <2>6. PICK d \in Calls : Reject(d)
      BY <1>1, <2>3, <2>4, <2>5 DEF Next, Proceed
    <2>7. rejected' = [rejected EXCEPT ![d] = TRUE]
      BY <2>6 DEF Reject
    <2>8. d = c
      BY <2>1, <2>7, Zenon
    <2> QED
      BY <1>1, <2>6, <2>8, RejectHasCause
  <1> QED
    BY <1>1, LimiterInvariant, PTL DEF Spec, RejectedForCause

=============================================================================
