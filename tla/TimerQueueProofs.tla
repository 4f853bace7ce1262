--------------------------- MODULE TimerQueueProofs ---------------------------
(* The promise of the timer queue, for any number of timers and any range   *)
(* of times.                                                                *)
EXTENDS TimerQueue, SequenceTheorems, TLAPS

LEMMA QueueShape ==
    ASSUME NEW q \in Seq(Entry)
    PROVE  /\ Len(q) \in Nat
           /\ DOMAIN q = 1 .. Len(q)
           /\ \A k \in 1 .. Len(q) : q[k] \in Entry /\ q[k].left \in Int /\ q[k].ev \in Ev
<1>1. Len(q) \in Nat /\ DOMAIN q = 1 .. Len(q) /\ \A k \in 1 .. Len(q) : q[k] \in Entry
  BY LenProperties, ElementOfSeq
<1>2. \A x \in Entry : x.left \in Int /\ x.ev \in Ev
  BY TimerBoundsAssumption DEF Entry
<1>3. QED BY <1>1, <1>2

LEMMA BuiltSeq ==
    ASSUME NEW n \in Nat, NEW q \in [1 .. n -> Entry]
    PROVE  q \in Seq(Entry) /\ Len(q) = n /\ DOMAIN q = 1 .. n
<1>1. q \in Seq(Entry)
  BY SeqDef
<1>2. DOMAIN q = 1 .. n
  OBVIOUS
<1>3. QED BY <1>1, <1>2, LenProperties

IInv == TypeOK /\ InOrder /\ OnceEach

(* Moving the clock keeps the queue and its events.                         *)
LEMMA ShiftStep ==
    ASSUME NEW q \in Seq(Entry), NEW s \in Int, Fits(q, s)
    PROVE  /\ Shifted(q, s) \in Seq(Entry)
           /\ Len(Shifted(q, s)) = Len(q)
           /\ \A k \in 1 .. Len(q) : /\ Shifted(q, s)[k].left = q[k].left - s
                                     /\ Shifted(q, s)[k].ev = q[k].ev
           /\ Events(Shifted(q, s)) = Events(q)
<1> DEFINE r == Shifted(q, s)
<1>1. Len(q) \in Nat /\ DOMAIN q = 1 .. Len(q)
      /\ \A k \in 1 .. Len(q) : q[k] \in Entry /\ q[k].left \in Int /\ q[k].ev \in Ev
  BY QueueShape
<1>2. \A k \in 1 .. Len(q) : /\ r[k] \in Entry
                             /\ r[k].left = q[k].left - s
                             /\ r[k].ev = q[k].ev
  BY <1>1 DEF Shifted, Fits, Entry
<1>3. r \in [1 .. Len(q) -> Entry]
  BY <1>1, <1>2 DEF Shifted
<1> HIDE DEF r
<1>4. r \in Seq(Entry) /\ Len(r) = Len(q) /\ DOMAIN r = 1 .. Len(q)
  BY <1>1, <1>3, BuiltSeq
<1>5. Events(r) = Events(q)
  BY <1>1, <1>2, <1>4 DEF Events
<1>6. QED BY <1>2, <1>4, <1>5 DEF r

LEMMA AddStep ==
    ASSUME IInv, NEW e \in Ev, NEW d \in 0 .. MaxLeft, NEW s \in Int, Add(e, d, s)
    PROVE  IInv'
<1> DEFINE old == Shifted(queue, s)
           new == [ev |-> e, left |-> d]
<1>1. PICK n \in 0 .. Len(queue) :
          /\ \A k \in 1 .. n : queue[k].left - s <= d
          /\ \A k \in n + 1 .. Len(queue) : queue[k].left - s > d
          /\ queue' = Inserted(old, n, new)
  BY DEF Add
<1>2. /\ old \in Seq(Entry) /\ Len(old) = Len(queue)
      /\ \A k \in 1 .. Len(queue) : old[k].left = queue[k].left - s /\ old[k].ev = queue[k].ev
      /\ Events(old) = Events(queue)
  BY ShiftStep DEF Add, IInv, TypeOK
<1>3. d \in Int /\ new \in Entry /\ new.left = d /\ new.ev = e
  BY TimerBoundsAssumption DEF Entry
<1> HIDE DEF old, new
<1>4. /\ Len(old) \in Nat /\ n \in 0 .. Len(old) /\ DOMAIN old = 1 .. Len(old)
      /\ \A k \in 1 .. Len(old) :
            old[k] \in Entry /\ old[k].left \in Int /\ old[k].ev \in Ev
  BY <1>2, QueueShape
<1>5. /\ \A k \in 1 .. n : old[k].left <= d
      /\ \A k \in n + 1 .. Len(old) : old[k].left > d
  BY <1>1, <1>2, <1>4
<1>6. \A j, k \in 1 .. Len(old) : j < k => old[j].left <= old[k].left
  <2>1. \A k \in 1 .. Len(queue) : queue[k].left \in Int
    BY QueueShape DEF IInv, TypeOK
  <2>2. \A j, k \in 1 .. Len(queue) : j < k => queue[j].left <= queue[k].left
    BY DEF IInv, InOrder
  <2>3. s \in Int
    OBVIOUS
  <2>4. SUFFICES ASSUME NEW j \in 1 .. Len(old), NEW k \in 1 .. Len(old), j < k
                 PROVE  old[j].left <= old[k].left
    OBVIOUS
  <2>5. /\ old[j].left = queue[j].left - s /\ old[k].left = queue[k].left - s
        /\ queue[j].left \in Int /\ queue[k].left \in Int
        /\ queue[j].left <= queue[k].left
    BY Zenon, <1>2, <2>1, <2>2, <2>4
  <2>6. PICK q \in Int, r \in Int : q = queue[j].left /\ r = queue[k].left /\ q <= r
    BY Zenon, <2>5
  <2>7. q - s <= r - s
    BY SMTT(30), <2>3, <2>6
  <2>8. QED BY Zenon, <2>5, <2>6, <2>7
<1>7. \A j, k \in 1 .. Len(old) : old[j].ev = old[k].ev => j = k
  BY <1>2 DEF IInv, OnceEach
<1>8. /\ \A k \in 1 .. n : queue'[k] = old[k]
      /\ queue'[n + 1] = new
      /\ \A k \in n + 2 .. Len(old) + 1 : queue'[k] = old[k - 1]
      /\ queue' \in [1 .. Len(old) + 1 -> Entry]
  BY <1>1, <1>3, <1>4 DEF Inserted
<1>9. /\ queue' \in Seq(Entry)
      /\ Len(queue') = Len(old) + 1
      /\ DOMAIN queue' = 1 .. Len(old) + 1
  BY <1>4, <1>8, BuiltSeq
<1>10. \A j, k \in 1 .. Len(old) + 1 : j < k => queue'[j].left <= queue'[k].left
  <2>1. SUFFICES ASSUME NEW j \in 1 .. Len(old) + 1, NEW k \in 1 .. Len(old) + 1, j < k
                 PROVE  queue'[j].left <= queue'[k].left
    OBVIOUS
  <2>2. CASE k <= n
    <3>1. j \in 1 .. n /\ k \in 1 .. n /\ j \in 1 .. Len(old) /\ k \in 1 .. Len(old)
      BY <1>4, <2>1, <2>2
    <3>2. queue'[j] = old[j] /\ queue'[k] = old[k] /\ old[j].left <= old[k].left
      BY Zenon, <1>6, <1>8, <2>1, <3>1
    <3>3. QED BY Zenon, <3>2
  <2>3. CASE k = n + 1
    <3>1. j \in 1 .. n /\ queue'[j] = old[j] /\ queue'[k] = new
      BY <1>4, <1>8, <2>1, <2>3
    <3>2. old[j].left <= d
      BY <1>5, <3>1
    <3>3. QED BY <1>3, <3>1, <3>2
  <2>4. CASE k > n + 1 /\ j = n + 1
    BY <1>3, <1>4, <1>5, <1>8, <2>1, <2>4
  <2>5. CASE k > n + 1 /\ j <= n
    <3>1. queue'[j] = old[j] /\ queue'[k] = old[k - 1]
      BY <1>4, <1>8, <2>1, <2>5
    <3>2. j \in 1 .. Len(old) /\ k - 1 \in 1 .. Len(old) /\ j < k - 1
      BY <1>4, <2>1, <2>5
    <3>3. QED BY <1>6, <3>1, <3>2
  <2>6. CASE k > n + 1 /\ j > n + 1
    <3>1. queue'[j] = old[j - 1] /\ queue'[k] = old[k - 1]
      BY <1>4, <1>8, <2>1, <2>6
    <3>2. j - 1 \in 1 .. Len(old) /\ k - 1 \in 1 .. Len(old) /\ j - 1 < k - 1
      BY <1>4, <2>1, <2>6
    <3>3. QED BY <1>6, <3>1, <3>2
  <2>7. QED BY <1>4, <2>1, <2>2, <2>3, <2>4, <2>5, <2>6
<1>11. \A k \in 1 .. Len(old) : old[k].ev # e
  BY <1>2, <1>4 DEF Add, Events
<1>12. \A j, k \in 1 .. Len(old) + 1 : queue'[j].ev = queue'[k].ev => j = k
  <2>1. SUFFICES ASSUME NEW j \in 1 .. Len(old) + 1, NEW k \in 1 .. Len(old) + 1,
                        queue'[j].ev = queue'[k].ev
                 PROVE  j = k
    OBVIOUS
  <2> DEFINE from(i) == IF i <= n THEN i ELSE i - 1
  <2>2. \A i \in 1 .. Len(old) + 1 : i # n + 1 => from(i) \in 1 .. Len(old)
    BY <1>4
  <2>3. \A i \in 1 .. Len(old) + 1 : i # n + 1 => queue'[i] = old[from(i)]
    BY <1>4, <1>8
  <2>4. \A i, l \in 1 .. Len(old) + 1 : i # n + 1 /\ l # n + 1 /\ from(i) = from(l) => i = l
    BY <1>4
  <2> HIDE DEF from
  <2>5. \A i \in 1 .. Len(old) + 1 : i # n + 1 => queue'[i].ev # e
    BY <1>11, <2>2, <2>3
  <2>6. queue'[n + 1].ev = e
    BY <1>3, <1>8
  <2>7. CASE j = n + 1 \/ k = n + 1
    BY <2>1, <2>5, <2>6, <2>7
  <2>8. CASE j # n + 1 /\ k # n + 1
    BY <1>7, <2>1, <2>2, <2>3, <2>4, <2>8
  <2>9. QED BY <2>7, <2>8
<1>13. running' \notin Events(queue')
  <2>1. \A k \in 1 .. Len(old) + 1 :
            queue'[k].ev = e \/ \E i \in 1 .. Len(old) : queue'[k].ev = old[i].ev
    <3> SUFFICES ASSUME NEW k \in 1 .. Len(old) + 1
                 PROVE  queue'[k].ev = e \/ \E i \in 1 .. Len(old) : queue'[k].ev = old[i].ev
      OBVIOUS
    <3>1. CASE k <= n
      BY <1>4, <1>8, <3>1
    <3>2. CASE k = n + 1
      BY <1>3, <1>8, <3>2
    <3>3. CASE k > n + 1
      <4>1. k - 1 \in 1 .. Len(old) /\ queue'[k] = old[k - 1]
        BY <1>4, <1>8, <3>3
      <4>2. QED BY <4>1
    <3>4. QED BY <1>4, <3>1, <3>2, <3>3
  <2>2. running' = running /\ running # e
    BY DEF Add
  <2>3. \A i \in 1 .. Len(old) : old[i].ev # running
    BY <1>2, <1>4 DEF IInv, OnceEach, Events
  <2>4. QED BY <1>9, <2>1, <2>2, <2>3 DEF Events
<1>14. running' \in Ev \cup {None}
  BY DEF Add, IInv, TypeOK
<1>15. QED BY <1>9, <1>10, <1>12, <1>13, <1>14 DEF IInv, TypeOK, InOrder, OnceEach

(* Taking one entry out, wherever it stands, keeps the others in order.     *)
LEMMA RemoveStep ==
    ASSUME IInv, NEW i \in 1 .. Len(queue),
           queue' \in Seq(Entry), Len(queue') = Len(queue) - 1,
           \A k \in 1 .. Len(queue) - 1 : queue'[k] = queue[IF k < i THEN k ELSE k + 1]
    PROVE  /\ InOrder'
           /\ \A j, k \in 1 .. Len(queue') : queue'[j].ev = queue'[k].ev => j = k
           /\ \A k \in 1 .. Len(queue') : queue'[k].ev # queue[i].ev
           /\ \A e : e \in Events(queue') => e \in Events(queue)
<1> DEFINE old(k) == IF k < i THEN k ELSE k + 1
<1>1. Len(queue) \in Nat
  BY QueueShape DEF IInv, TypeOK
<1>2. \A k \in 1 .. Len(queue') : old(k) \in 1 .. Len(queue) /\ queue'[k] = queue[old(k)]
                                 /\ old(k) # i
  BY <1>1
<1>3. \A j, k \in 1 .. Len(queue') : (j < k => old(j) < old(k)) /\ (old(j) = old(k) => j = k)
  BY <1>1
<1> HIDE DEF old
<1>4. InOrder'
  BY <1>2, <1>3 DEF InOrder, IInv
<1>5. \A j, k \in 1 .. Len(queue') : queue'[j].ev = queue'[k].ev => j = k
  BY <1>2, <1>3 DEF OnceEach, IInv
<1>6. \A k \in 1 .. Len(queue') : queue'[k].ev # queue[i].ev
  BY <1>2 DEF OnceEach, IInv
<1>7. DOMAIN queue' = 1 .. Len(queue') /\ DOMAIN queue = 1 .. Len(queue)
  BY QueueShape DEF IInv, TypeOK
<1>8. \A e : e \in Events(queue') => e \in Events(queue)
  BY <1>2, <1>7 DEF Events
<1>9. QED BY <1>4, <1>5, <1>6, <1>8

LEMMA ExpireStep ==
    ASSUME IInv, Expire
    PROVE  IInv'
<1>1. /\ queue \in Seq(Entry) /\ queue # <<>> /\ queue' = Tail(queue)
      /\ running = None /\ running' = queue[1].ev
  BY DEF Expire, IInv, TypeOK
<1>2. /\ Len(queue) \in Nat \ {0} /\ queue' \in Seq(Entry) /\ Len(queue') = Len(queue) - 1
      /\ \A k \in 1 .. Len(queue) - 1 : queue'[k] = queue[k + 1]
  BY <1>1, EmptySeq, HeadTailProperties
<1>3. 1 \in 1 .. Len(queue)
      /\ \A k \in 1 .. Len(queue) - 1 : queue'[k] = queue[IF k < 1 THEN k ELSE k + 1]
  BY <1>2
<1>4. /\ InOrder'
      /\ \A j, k \in 1 .. Len(queue') : queue'[j].ev = queue'[k].ev => j = k
      /\ \A k \in 1 .. Len(queue') : queue'[k].ev # queue[1].ev
  BY <1>2, <1>3, RemoveStep
<1>5. running' \in Ev /\ DOMAIN queue' = 1 .. Len(queue')
  BY <1>1, <1>2, <1>3, QueueShape
<1>6. running' \notin Events(queue')
  BY <1>1, <1>4, <1>5 DEF Events
<1>7. QED BY <1>2, <1>4, <1>5, <1>6 DEF IInv, TypeOK, OnceEach

LEMMA CancelStep ==
    ASSUME IInv, NEW i \in 1 .. Len(queue), Cancel(i)
    PROVE  IInv'
<1>1. queue' = [k \in 1 .. Len(queue) - 1 |-> queue[IF k < i THEN k ELSE k + 1]]
      /\ UNCHANGED running
  BY DEF Cancel
<1>2. Len(queue) \in Nat /\ \A k \in 1 .. Len(queue) : queue[k] \in Entry
  BY QueueShape DEF IInv, TypeOK
<1>3. Len(queue) - 1 \in Nat /\ queue' \in [1 .. Len(queue) - 1 -> Entry]
  BY <1>1, <1>2
<1>4. queue' \in Seq(Entry) /\ Len(queue') = Len(queue) - 1
  BY <1>3, BuiltSeq
<1>5. \A k \in 1 .. Len(queue) - 1 : queue'[k] = queue[IF k < i THEN k ELSE k + 1]
  BY <1>1, <1>2
<1>6. /\ InOrder'
      /\ \A j, k \in 1 .. Len(queue') : queue'[j].ev = queue'[k].ev => j = k
      /\ \A e : e \in Events(queue') => e \in Events(queue)
  BY <1>4, <1>5, RemoveStep
<1>7. QED BY <1>1, <1>4, <1>6 DEF IInv, TypeOK, OnceEach

LEMMA AdvanceStep ==
    ASSUME IInv, NEW s \in Int, Advance(s)
    PROVE  IInv'
<1>1. /\ queue' \in Seq(Entry) /\ Len(queue') = Len(queue)
      /\ \A k \in 1 .. Len(queue) : /\ queue'[k].left = queue[k].left - s
                                    /\ queue'[k].ev = queue[k].ev
      /\ Events(queue') = Events(queue)
      /\ running' = running
  BY ShiftStep DEF Advance, IInv, TypeOK
<1>2. \A k \in 1 .. Len(queue) : queue[k].left \in Int
  BY QueueShape DEF IInv, TypeOK
<1>3. InOrder'
  BY <1>1, <1>2 DEF IInv, InOrder
<1>4. OnceEach'
  BY <1>1 DEF IInv, OnceEach
<1>5. QED BY <1>1, <1>3, <1>4 DEF IInv, TypeOK

LEMMA QueueStep ==
    ASSUME IInv, [Next]_vars
    PROVE  IInv'
<1>1. CASE Finish
  <2>1. queue' = queue /\ running' = None
    BY <1>1 DEF Finish
  <2>2. \A k \in DOMAIN queue : queue[k].ev \in Ev
    BY QueueShape DEF IInv, TypeOK
  <2>3. None \notin Events(queue)
    BY <2>2, TimerBoundsAssumption DEF Events
  <2>4. QED BY <2>1, <2>3 DEF IInv, TypeOK, InOrder, OnceEach, Events
<1>2. CASE FreeAll
  <2>1. queue' = <<>> /\ running' = running /\ queue' \in Seq(Entry) /\ Len(queue') = 0
        /\ DOMAIN queue' = 1 .. 0
    BY <1>2, EmptySeq DEF FreeAll
  <2>2. QED BY <2>1 DEF IInv, TypeOK, InOrder, OnceEach, Events
<1>3. CASE UNCHANGED vars
  BY <1>3 DEF vars, IInv, TypeOK, InOrder, OnceEach, Events
<1>4. Steps \subseteq Int /\ Delays \subseteq 0 .. MaxLeft
  BY TimerBoundsAssumption
<1>5. QED
  BY <1>1, <1>2, <1>3, <1>4, AddStep, ExpireStep, CancelStep, AdvanceStep DEF Next

(* The queue is always in expiry order and holds each event at most once,   *)
(* so that the timer expire_timers takes is one that expires first, and no  *)
(* event is freed twice.                                                    *)
THEOREM QueueIsOrdered == Spec => [](TypeOK /\ InOrder /\ OnceEach)
<1>1. Init => IInv
  <2> SUFFICES ASSUME Init PROVE IInv
    OBVIOUS
  <2>1. queue \in Seq(Entry) /\ Len(queue) = 0 /\ DOMAIN queue = 1 .. 0
    BY EmptySeq DEF Init
  <2>2. QED BY <2>1 DEF Init, IInv, TypeOK, InOrder, OnceEach, Events
<1>2. IInv /\ [Next]_vars => IInv'
  BY QueueStep
<1>3. QED BY <1>1, <1>2, PTL DEF Spec, IInv
=============================================================================
