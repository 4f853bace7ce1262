----------------------------- MODULE ServerProofs -----------------------------
(***************************************************************************)
(* Proofs about Server, for any number of phones, sockets and slots of the  *)
(* ring, and any period, lateness and size of the sockets.                  *)
(***************************************************************************)
EXTENDS Server, SequenceTheorems, TLAPS

(* Every socket among the events has a datagram to read.                    *)
Readable == \A s \in Socks : s \in events => queue[s] # <<>>

IInv == TypeOK /\ Readable /\ LoopWhileEnabled /\ RingInOrder

-----------------------------------------------------------------------------
(* The ring.                                                                *)

LEMMA RingFacts ==
    ASSUME NEW i \in Indices
    PROVE  /\ NextSlot(i) \in Indices /\ Previous(i) \in Indices
           /\ Previous(NextSlot(i)) = i /\ NextSlot(Previous(i)) = i
           /\ NextSlot(i) # i
BY ServerAssumption, SMT DEF Indices, NextSlot, Previous

(* memset leaves a ring in order, wherever it begins.                       *)
LEMMA EmptyInOrder ==
    \A i \in Indices : NoSamples[i] \in 0 .. Empty /\ NoSamples[i] <= NoSamples[Previous(i)]
<1> TAKE i \in Indices
<1>1. Empty \in Nat
    BY ServerAssumption DEF Empty
<1>2. Previous(i) \in Indices
    BY RingFacts
<1> QED BY <1>1, <1>2 DEF NoSamples

(* A new sample in the next slot leaves the ring in order from there.       *)
LEMMA SampleKeepsOrder ==
    ASSUME TypeOK,
           \A i \in Indices \ {NextSlot(last_index)} : diagnoses[i] <= diagnoses[Previous(i)],
           NEW d, d = [diagnoses EXCEPT ![NextSlot(last_index)] = 0],
           NEW n, n = NextSlot(last_index)
    PROVE  \A i \in Indices \ {NextSlot(n)} : d[i] <= d[Previous(i)]
<1>1. last_index \in Indices /\ diagnoses \in [Indices -> 0 .. Empty] /\ Empty \in Nat
    BY ServerAssumption DEF TypeOK, Empty
<1>2. n \in Indices
    BY <1>1, RingFacts
<1>3. SUFFICES ASSUME NEW i \in Indices, i # NextSlot(n) PROVE d[i] <= d[Previous(i)]
    OBVIOUS
<1>4. Previous(i) \in Indices /\ d[Previous(i)] \in 0 .. Empty /\ d[i] \in 0 .. Empty
    BY <1>1, <1>2, RingFacts
<1>5. CASE i = n
    BY <1>1, <1>2, <1>4, <1>5
<1>6. CASE i # n
  <2>1. Previous(i) # n
      BY <1>2, <1>3, RingFacts
  <2>2. d[i] = diagnoses[i] /\ d[Previous(i)] = diagnoses[Previous(i)]
      BY <1>1, <1>4, <1>6, <2>1
  <2> QED BY <1>6, <2>2
<1> QED BY <1>5, <1>6

(* Samples grow old together.                                               *)
Older == [i \in Indices |-> IF diagnoses[i] < MaxAge THEN diagnoses[i] + 1 ELSE diagnoses[i]]

LEMMA OlderKeepsOrder ==
    ASSUME TypeOK, RingInOrder
    PROVE  /\ Older \in [Indices -> 0 .. Empty]
           /\ enable = 1 =>
                \A i \in Indices \ {NextSlot(last_index)} : Older[i] <= Older[Previous(i)]
<1>1. diagnoses \in [Indices -> 0 .. Empty] /\ MaxAge \in Nat /\ Empty = MaxAge + 1
    BY ServerAssumption DEF TypeOK, Empty
<1>2. Older \in [Indices -> 0 .. Empty]
    BY <1>1 DEF Older
<1>3. ASSUME enable = 1, NEW i \in Indices, i # NextSlot(last_index)
      PROVE  Older[i] <= Older[Previous(i)]
  <2>1. Previous(i) \in Indices /\ diagnoses[i] <= diagnoses[Previous(i)]
      BY <1>3, RingFacts DEF RingInOrder
  <2>2. diagnoses[i] \in 0 .. Empty /\ diagnoses[Previous(i)] \in 0 .. Empty
      BY <1>1, <2>1
  <2> QED BY <1>1, <2>1, <2>2, SMT DEF Older
<1> QED BY <1>2, <1>3

-----------------------------------------------------------------------------
LEMMA InitHolds == Init => IInv
<1> SUFFICES ASSUME Init PROVE IInv
    OBVIOUS
<1>1. NoSamples \in [Indices -> 0 .. Empty] /\ 0 \in Indices
    BY EmptyInOrder, ServerAssumption DEF NoSamples, Indices
<1>2. TypeOK
    BY <1>1 DEF Init, TypeOK
<1>3. Readable /\ LoopWhileEnabled /\ RingInOrder
    BY DEF Init, Readable, LoopWhileEnabled, RingInOrder
<1> QED BY <1>2, <1>3 DEF IInv

(* What every handler does to the diagnosis.                                *)
DiagInv ==
    /\ enable \in {0, 1}
    /\ last_index \in Indices
    /\ diagnoses \in [Indices -> 0 .. Empty]
    /\ loops \in Seq(-MaxLate .. PERIOD)
    /\ LoopWhileEnabled /\ RingInOrder

LEMMA ArmTyped ==
    ASSUME NEW ts \in Seq(-MaxLate .. PERIOD)
    PROVE  Arm(ts) \in Seq(-MaxLate .. PERIOD) /\ Arm(ts) # <<>>
<1>1. PERIOD \in -MaxLate .. PERIOD
    BY ServerAssumption
<1> QED BY <1>1 DEF Arm

LEMMA GetDiagKeeps ==
    ASSUME IInv, GetDiag
    PROVE  DiagInv'
<1>1. CASE UNCHANGED diagVars
    BY <1>1 DEF diagVars, IInv, TypeOK, DiagInv, LoopWhileEnabled, RingInOrder
<1>2. CASE enable' = 1 /\ loops' = Arm(loops) /\ diagnoses' = NoSamples /\ UNCHANGED last_index
  <2>1. NoSamples \in [Indices -> 0 .. Empty]
      BY EmptyInOrder DEF NoSamples
  <2>2. loops' \in Seq(-MaxLate .. PERIOD) /\ loops' # <<>>
      BY <1>2, ArmTyped DEF IInv, TypeOK
  <2>3. RingInOrder'
      BY <1>2, EmptyInOrder DEF RingInOrder
  <2> QED BY <1>2, <2>1, <2>2, <2>3 DEF DiagInv, LoopWhileEnabled, IInv, TypeOK
<1> QED BY <1>1, <1>2 DEF GetDiag

LEMMA HandlerKeeps ==
    ASSUME IInv, DiagTmHandler
    PROVE  DiagInv'
<1> DEFINE n == NextSlot(last_index)
<1>1. n \in Indices
    BY RingFacts DEF IInv, TypeOK
<1>2. diagnoses' \in [Indices -> 0 .. Empty]
  <2>1. 0 \in 0 .. Empty
      BY ServerAssumption DEF Empty
  <2> QED BY <1>1, <2>1 DEF DiagTmHandler, IInv, TypeOK
<1>3. Tail(loops) \in Seq(-MaxLate .. PERIOD)
    BY DEF DiagTmHandler, FirstIsDue, IInv, TypeOK
<1>4. CASE GoesOn
  <2>1. last_index' = n /\ loops' = Arm(Tail(loops)) /\ enable' = enable /\ enable = 1
      BY <1>4 DEF DiagTmHandler, GoesOn
  <2>2. loops' \in Seq(-MaxLate .. PERIOD) /\ loops' # <<>>
      BY <1>3, <2>1, ArmTyped
  <2>3. RingInOrder'
    <3>1. \A i \in Indices \ {NextSlot(last_index)} : diagnoses[i] <= diagnoses[Previous(i)]
        BY <2>1 DEF IInv, RingInOrder
    <3>2. \A i \in Indices \ {NextSlot(n)} : diagnoses'[i] <= diagnoses'[Previous(i)]
        BY <3>1, SampleKeepsOrder DEF DiagTmHandler, IInv
    <3> QED BY <2>1, <3>2 DEF RingInOrder
  <2> QED BY <1>1, <1>2, <2>1, <2>2, <2>3 DEF DiagInv, LoopWhileEnabled
<1>5. CASE ~GoesOn
    BY <1>2, <1>3, <1>5 DEF DiagTmHandler, GoesOn, DiagInv, LoopWhileEnabled, RingInOrder,
       IInv, TypeOK
<1> QED BY <1>4, <1>5

LEMMA SecondKeeps ==
    ASSUME IInv, Second
    PROVE  DiagInv'
<1>1. diagnoses' = Older /\ UNCHANGED <<enable, last_index>>
    BY DEF Second, Older
<1>2. loops' \in Seq(-MaxLate .. PERIOD) /\ Len(loops') = Len(loops)
  <2>1. loops \in Seq(-MaxLate .. PERIOD) /\ \A k \in 1 .. Len(loops) : loops[k] > -MaxLate
      BY DEF Second, IInv, TypeOK
  <2>2. \A k \in 1 .. Len(loops) : loops[k] - 1 \in -MaxLate .. PERIOD
      BY <2>1, ServerAssumption, SMT
  <2>3. loops' = [k \in 1 .. Len(loops) |-> loops[k] - 1] /\ Len(loops) \in Nat
      BY <2>1 DEF Second
  <2> QED BY <2>2, <2>3
<1>3. loops # <<>> => loops' # <<>>
    BY <1>2 DEF IInv, TypeOK
<1>4. RingInOrder'
    BY <1>1, OlderKeepsOrder DEF IInv, RingInOrder
<1> QED BY <1>1, <1>2, <1>3, <1>4, OlderKeepsOrder DEF DiagInv, LoopWhileEnabled, IInv, TypeOK

LEMMA ClearedHolds ==
    ASSUME Cleared
    PROVE  DiagInv' /\ Readable' /\ queue' \in [Socks -> Seq(Datagrams)]
           /\ ready' = {} /\ events' = {}
<1>1. NoSamples \in [Indices -> 0 .. Empty] /\ 0 \in Indices
    BY EmptyInOrder, ServerAssumption DEF NoSamples, Indices
<1> QED BY <1>1 DEF Cleared, DiagInv, Readable, LoopWhileEnabled, RingInOrder

-----------------------------------------------------------------------------
(* What is left of the invariant.                                           *)
LoopInv ==
    /\ queue \in [Socks -> Seq(Datagrams)]
    /\ ready \subseteq Socks \cup {"timerfd"}
    /\ events \subseteq Socks \cup {"timerfd"}
    /\ pc \in {"wait", "events", "expire", "down"}
    /\ asked \in [Patient -> Datagrams \cup {NoRequest}]
    /\ Readable

LEMMA Parts == /\ IInv <=> DiagInv /\ LoopInv
               /\ IInv' <=> DiagInv' /\ LoopInv'
<1>1. IInv <=> DiagInv /\ LoopInv
    BY DEF IInv, DiagInv, LoopInv, TypeOK
<1>2. IInv' <=> DiagInv' /\ LoopInv'
    BY DEF IInv, DiagInv, LoopInv, TypeOK
<1> QED BY <1>1, <1>2

LEMMA SameDiag == DiagInv /\ UNCHANGED diagVars => DiagInv'
BY DEF DiagInv, diagVars, LoopWhileEnabled, RingInOrder

(* One datagram is read from a socket of the events: the others still have  *)
(* theirs.                                                                  *)
LEMMA RecvReqKeeps ==
    ASSUME IInv, NEW s \in Socks, RecvReq(s)
    PROVE  IInv'
<1> DEFINE d == Head(queue[s])
<1>1. queue[s] \in Seq(Datagrams) /\ queue[s] # <<>>
    BY DEF RecvReq, IInv, TypeOK, Readable
<1>2. queue' \in [Socks -> Seq(Datagrams)]
    BY <1>1 DEF RecvReq, IInv, TypeOK
<1>3. Readable'
    BY ServerAssumption DEF RecvReq, IInv, TypeOK, Readable
<1>4. asked' \in [Patient -> Datagrams \cup {NoRequest}] /\ pc' = pc
    BY DEF RecvReq, Handle, IInv, TypeOK
<1>5. DiagInv'
  <2>1. UNCHANGED diagVars \/ GetDiag \/ StopDiag
      BY DEF RecvReq, Handle
  <2>2. CASE UNCHANGED diagVars
      BY <2>2, SameDiag, Parts
  <2>3. CASE GetDiag
      BY <2>3, GetDiagKeeps
  <2>4. CASE StopDiag
      BY <2>4 DEF StopDiag, DiagInv, IInv, TypeOK, LoopWhileEnabled, RingInOrder
  <2> QED BY <2>1, <2>2, <2>3, <2>4
<1>6. LoopInv'
    BY <1>2, <1>3, <1>4 DEF LoopInv, RecvReq, IInv, TypeOK
<1> QED BY <1>5, <1>6, Parts

(* A datagram that arrives takes none away.                                 *)
LEMMA ArriveKeeps ==
    ASSUME IInv, NEW d \in Datagrams, Arrive(d)
    PROVE  IInv'
<1>1. d.to \in Socks
    BY ServerAssumption
<1>2. queue' \in [Socks -> Seq(Datagrams)]
    BY <1>1 DEF Arrive, IInv, TypeOK
<1>3. Readable'
  <2> SUFFICES ASSUME NEW s \in Socks, s \in events' PROVE queue'[s] # <<>>
      BY DEF Readable
  <2>1. queue[s] \in Seq(Datagrams) /\ queue[s] # <<>>
      BY DEF Arrive, IInv, TypeOK, Readable
  <2>2. CASE s = d.to
    <3>1. queue'[s] = Append(queue[s], d)
        BY <2>2 DEF Arrive, IInv, TypeOK
    <3> QED BY <2>1, <3>1
  <2>3. CASE s # d.to
      BY <1>1, <2>1, <2>3 DEF Arrive, IInv, TypeOK
  <2> QED BY <2>2, <2>3
<1>4. DiagInv'
    BY SameDiag, Parts DEF Arrive
<1>5. LoopInv'
    BY <1>1, <1>2, <1>3 DEF LoopInv, Arrive, IInv, TypeOK
<1> QED BY <1>4, <1>5, Parts

LEMMA EpollWaitKeeps ==
    ASSUME IInv, EpollWait
    PROVE  IInv'
<1>1. DiagInv'
    BY SameDiag, Parts DEF EpollWait
<1>2. Readable'
    BY ServerAssumption DEF EpollWait, Reported, Readable
<1>3. LoopInv'
    BY <1>2 DEF LoopInv, EpollWait, Reported, IInv, TypeOK
<1> QED BY <1>1, <1>3, Parts

LEMMA NextKeeps == IInv /\ [Next]_vars => IInv'
<1> SUFFICES ASSUME IInv, [Next]_vars PROVE IInv'
    OBVIOUS
<1>1. DiagInv /\ LoopInv
    BY Parts
<1>2. ASSUME NEW d \in Datagrams, Ask(d) PROVE IInv'
  <2>1. DiagInv'
      BY <1>1, <1>2, SameDiag DEF Ask
  <2>2. LoopInv'
      BY <1>1, <1>2 DEF Ask, LoopInv, Readable
  <2> QED BY <2>1, <2>2, Parts
<1>3. ASSUME NEW d \in Datagrams, Arrive(d) PROVE IInv'
    BY <1>3, ArriveKeeps
<1>4. CASE Second
  <2>1. LoopInv'
      BY <1>1, <1>4 DEF Second, LoopInv, Readable
  <2> QED BY <1>4, <2>1, SecondKeeps, Parts
<1>5. CASE EpollWait
    BY <1>5, EpollWaitKeeps
<1>6. CASE EventsDone \/ ReadTimer \/ ExpireDone \/ StartUp
  <2>1. DiagInv'
      BY <1>1, <1>6, SameDiag DEF EventsDone, ReadTimer, ExpireDone, StartUp
  <2>2. LoopInv'
      BY <1>1, <1>6 DEF EventsDone, ReadTimer, ExpireDone, StartUp, LoopInv, Readable
  <2> QED BY <2>1, <2>2, Parts
<1>7. CASE DiagTmHandler
  <2>1. LoopInv'
      BY <1>1, <1>7 DEF DiagTmHandler, LoopInv, Readable
  <2> QED BY <1>7, <2>1, HandlerKeeps, Parts
<1>8. ASSUME NEW s \in Socks, RecvReq(s) PROVE IInv'
    BY <1>8, RecvReqKeeps
<1>9. ASSUME NEW s \in Socks, Aborts(s) PROVE IInv'
  <2>1. LoopInv'
      BY <1>1, <1>9, ClearedHolds DEF Aborts, LoopInv
  <2> QED BY <1>9, <2>1, ClearedHolds, Parts DEF Aborts
<1>10. CASE UNCHANGED vars
  <2>1. DiagInv'
      BY <1>1, <1>10, SameDiag DEF vars
  <2>2. LoopInv'
      BY <1>1, <1>10 DEF vars, LoopInv, Readable
  <2> QED BY <2>1, <2>2, Parts
<1> QED BY <1>2, <1>3, <1>4, <1>5, <1>6, <1>7, <1>8, <1>9, <1>10 DEF Next, Loop

LEMMA Invariant == Spec => []IInv
<1>1. Init => IInv
    BY InitHolds
<1>2. IInv /\ [Next]_vars => IInv'
    BY NextKeeps
<1> QED BY <1>1, <1>2, PTL DEF Spec

(* The variables of the event loop and the diagnosis keep their types.      *)
THEOREM TypeCorrect == Spec => []TypeOK
<1>1. IInv => TypeOK
    BY DEF IInv
<1> QED BY <1>1, Invariant, PTL

(* Whatever phones send and however late the loop is, a diagnosis that is   *)
(* on has a timer in the tree (tq_req_get_diag, diag_tm_handler).           *)
THEOREM SamplingGoesOn == Spec => []LoopWhileEnabled
<1>1. IInv => LoopWhileEnabled
    BY DEF IInv
<1> QED BY <1>1, Invariant, PTL

(* The ring is in order while the diagnosis is on, also with several loops: *)
(* the differences tq_req_get_diag answers are of samples in their order.   *)
THEOREM RingStaysInOrder == Spec => []RingInOrder
<1>1. IInv => RingInOrder
    BY DEF IInv
<1> QED BY <1>1, Invariant, PTL

-----------------------------------------------------------------------------
(* One loop: what is left of its timer tells the age of the newest sample,  *)
(* and so how far the next one will be from it.                             *)
NewestAge ==
    enable = 1 /\ Len(loops) = 1 /\ diagnoses[last_index] < MaxAge =>
        loops[1] = PERIOD - diagnoses[last_index]

SpacedInv == NewestAge /\ EvenlySpaced

LEMMA SpacedInit == Init => SpacedInv
<1> SUFFICES ASSUME Init PROVE SpacedInv
    OBVIOUS
<1>1. enable = 0
    BY DEF Init
<1> QED BY <1>1 DEF SpacedInv, NewestAge, EvenlySpaced

LEMMA SameSpaced == SpacedInv /\ UNCHANGED diagVars => SpacedInv'
BY DEF SpacedInv, NewestAge, EvenlySpaced, diagVars

(* memset leaves no sample to be compared.                                  *)
LEMMA OpenSpaced ==
    ASSUME IInv, SpacedInv, GetDiag
    PROVE  SpacedInv'
<1>1. CASE UNCHANGED diagVars
    BY <1>1, SameSpaced
<1>2. CASE diagnoses' = NoSamples /\ UNCHANGED last_index
  <2>1. \A i \in Indices : diagnoses'[i] = MaxAge + 1 /\ Previous(i) \in Indices
      BY <1>2, RingFacts DEF NoSamples, Empty
  <2>2. last_index' \in Indices
      BY <1>2 DEF IInv, TypeOK
  <2>3. ~(MaxAge + 1 < MaxAge)
      BY ServerAssumption
  <2>4. NewestAge'
      BY <1>2, <2>1, <2>2, <2>3 DEF NewestAge
  <2>5. EvenlySpaced'
      BY <2>1, <2>3 DEF EvenlySpaced
  <2> QED BY <2>4, <2>5 DEF SpacedInv
<1> QED BY <1>1, <1>2 DEF GetDiag

(* A new sample is as far from the one before as the timer says.            *)
LEMMA SampleSpaced ==
    ASSUME IInv, SpacedInv, DiagTmHandler
    PROVE  SpacedInv'
<1> SUFFICES ASSUME enable' = 1, Len(loops') = 1 PROVE SpacedInv'
    BY DEF SpacedInv, NewestAge, EvenlySpaced
<1> DEFINE n == NextSlot(last_index)
<1>1. /\ enable = 1
      /\ last_index' = n
      /\ loops' = Append(Tail(loops), PERIOD)
      /\ diagnoses' = [diagnoses EXCEPT ![n] = 0]
    BY DEF DiagTmHandler, GoesOn, Arm
<1>2. loops \in Seq(-MaxLate .. PERIOD) /\ loops # <<>> /\ Head(loops) <= 0
    BY DEF DiagTmHandler, FirstIsDue, IInv, TypeOK
<1>3. Len(loops) = 1 /\ loops[1] <= 0 /\ loops[1] \in -MaxLate .. PERIOD /\ loops'[1] = PERIOD
  <2> DEFINE T == -MaxLate .. PERIOD
  <2>1. PERIOD \in T
      BY ServerAssumption
  <2> HIDE DEF T
  <2>2. loops \in Seq(T) /\ loops # <<>>
      BY <1>2 DEF T
  <2>3. /\ Tail(loops) \in Seq(T) /\ Len(loops) \in Nat \ {0}
        /\ Len(Tail(loops)) = Len(loops) - 1
      BY <2>2, HeadTailProperties, EmptySeq
  <2>4. Len(loops') = Len(Tail(loops)) + 1 /\ loops'[Len(Tail(loops)) + 1] = PERIOD
      BY <1>1, <2>1, <2>3, AppendProperties
  <2>5. Len(loops) = 1 /\ loops'[1] = PERIOD
      BY <2>3, <2>4
  <2>6. Head(loops) = loops[1]
      BY <2>2
  <2>7. loops[1] \in T
      BY <2>2, <2>5, ElementOfSeq
  <2> QED BY <1>2, <2>5, <2>6, <2>7 DEF T
<1>4. /\ last_index \in Indices /\ n \in Indices /\ n # last_index
      /\ Previous(n) = last_index
    BY RingFacts DEF IInv, TypeOK
<1>5. diagnoses \in [Indices -> 0 .. Empty] /\ MaxAge \in Nat /\ PERIOD \in Nat \ {0}
      /\ MaxLate \in Nat /\ Empty = MaxAge + 1
    BY ServerAssumption DEF IInv, TypeOK, Empty
<1> HIDE DEF n
<1>6. diagnoses'[n] = 0 /\ \A i \in Indices \ {n} : diagnoses'[i] = diagnoses[i]
    BY <1>1, <1>4, <1>5
<1>7. NewestAge'
    BY <1>1, <1>3, <1>5, <1>6 DEF NewestAge
<1>8. EvenlySpaced'
  <2> SUFFICES ASSUME NEW i \in Indices, i # NextSlot(n), diagnoses'[Previous(i)] < MaxAge
               PROVE  diagnoses'[Previous(i)] - diagnoses'[i] \in PERIOD .. PERIOD + MaxLate
      BY <1>1 DEF EvenlySpaced
  <2>1. CASE i = n
    <3>1. diagnoses'[Previous(i)] = diagnoses[last_index] /\ diagnoses'[i] = 0
        BY <1>4, <1>6, <2>1
    <3>2. loops[1] = PERIOD - diagnoses[last_index]
        BY <1>1, <1>3, <3>1 DEF SpacedInv, NewestAge
    <3>3. diagnoses[last_index] \in 0 .. Empty
        BY <1>4, <1>5
    <3> QED BY <1>3, <1>5, <3>1, <3>2, <3>3
  <2>2. CASE i # n
    <3>1. Previous(i) \in Indices /\ Previous(i) # n
        BY <1>4, RingFacts
    <3>2. diagnoses'[Previous(i)] = diagnoses[Previous(i)] /\ diagnoses'[i] = diagnoses[i]
        BY <1>6, <2>2, <3>1
    <3> QED BY <1>1, <1>3, <2>2, <3>2 DEF SpacedInv, EvenlySpaced, n
  <2> QED BY <2>1, <2>2
<1> QED BY <1>7, <1>8 DEF SpacedInv

(* With time samples grow old together, and the timer comes nearer.         *)
LEMMA SecondSpaced ==
    ASSUME IInv, SpacedInv, Second
    PROVE  SpacedInv'
<1> SUFFICES ASSUME enable' = 1, Len(loops') = 1 PROVE SpacedInv'
    BY DEF SpacedInv, NewestAge, EvenlySpaced
<1>1. diagnoses' = Older /\ UNCHANGED <<enable, last_index>>
    BY DEF Second, Older
<1>2. Len(loops) = 1 /\ loops'[1] = loops[1] - 1
  <2>1. Len(loops) \in Nat /\ DOMAIN loops = 1 .. Len(loops)
      BY LenProperties DEF IInv, TypeOK
  <2>2. loops' = [k \in 1 .. Len(loops) |-> loops[k] - 1]
      BY <2>1 DEF Second
  <2>3. Len(loops') = Len(loops)
      BY <2>1, <2>2
  <2> QED BY <2>1, <2>2, <2>3
<1>3. loops[1] \in Int
  <2> DEFINE T == -MaxLate .. PERIOD
  <2>1. loops \in Seq(T)
      BY DEF IInv, TypeOK
  <2>2. \A t \in T : t \in Int
      OBVIOUS
  <2> HIDE DEF T
  <2>3. loops[1] \in T
      BY <1>2, <2>1, ElementOfSeq
  <2> QED BY <2>2, <2>3
<1>4. diagnoses \in [Indices -> 0 .. Empty] /\ MaxAge \in Nat /\ PERIOD \in Nat
      /\ MaxLate \in Nat /\ Empty = MaxAge + 1 /\ last_index \in Indices
    BY ServerAssumption DEF IInv, TypeOK, Empty
<1>5. \A i \in Indices :
          /\ Older[i] = IF diagnoses[i] < MaxAge THEN diagnoses[i] + 1 ELSE diagnoses[i]
          /\ diagnoses[i] \in Nat
    BY <1>4 DEF Older
<1>6. NewestAge'
  <2> SUFFICES ASSUME diagnoses'[last_index] < MaxAge
               PROVE  loops'[1] = PERIOD - diagnoses'[last_index]
      BY <1>1 DEF NewestAge
  <2>1. diagnoses[last_index] < MaxAge /\ diagnoses'[last_index] = diagnoses[last_index] + 1
      BY <1>1, <1>4, <1>5
  <2>2. loops[1] = PERIOD - diagnoses[last_index]
      BY <1>1, <1>2, <2>1 DEF SpacedInv, NewestAge
  <2> QED BY <1>2, <1>3, <1>4, <1>5, <2>1, <2>2
<1>7. EvenlySpaced'
  <2> SUFFICES ASSUME NEW i \in Indices, i # NextSlot(last_index),
                      diagnoses'[Previous(i)] < MaxAge
               PROVE  diagnoses'[Previous(i)] - diagnoses'[i] \in PERIOD .. PERIOD + MaxLate
      BY <1>1 DEF EvenlySpaced
  <2> DEFINE j == Previous(i)
  <2>1. j \in Indices
      BY RingFacts
  <2>2. diagnoses[j] < MaxAge /\ diagnoses'[j] = diagnoses[j] + 1
      BY <1>1, <1>4, <1>5, <2>1
  <2>3. diagnoses[j] - diagnoses[i] \in PERIOD .. PERIOD + MaxLate
      BY <1>1, <1>2, <2>2 DEF SpacedInv, EvenlySpaced
  <2>4. diagnoses[i] < MaxAge /\ diagnoses'[i] = diagnoses[i] + 1
      BY <1>1, <1>4, <1>5, <2>1, <2>2, <2>3
  <2> HIDE DEF j
  <2>5. diagnoses'[j] - diagnoses'[i] = diagnoses[j] - diagnoses[i]
      BY <1>5, <2>1, <2>2, <2>4
  <2> QED BY <2>3, <2>5 DEF j
<1> QED BY <1>6, <1>7 DEF SpacedInv

LEMMA SpacedStep == IInv /\ SpacedInv /\ [Next]_vars => SpacedInv'
<1> SUFFICES ASSUME IInv, SpacedInv, [Next]_vars PROVE SpacedInv'
    OBVIOUS
<1>1. CASE UNCHANGED diagVars
    BY <1>1, SameSpaced
<1>2. CASE GetDiag
    BY <1>2, OpenSpaced
<1>3. CASE enable' = 0
    BY <1>3 DEF SpacedInv, NewestAge, EvenlySpaced
<1>4. CASE DiagTmHandler
    BY <1>4, SampleSpaced
<1>5. CASE Second
    BY <1>5, SecondSpaced
<1>6. ASSUME NEW s \in Socks, RecvReq(s) \/ Aborts(s)
      PROVE  UNCHANGED diagVars \/ GetDiag \/ enable' = 0
    BY <1>6 DEF RecvReq, Handle, StopDiag, Aborts, Cleared
<1>7. \/ UNCHANGED diagVars \/ DiagTmHandler \/ Second
      \/ \E s \in Socks : RecvReq(s) \/ Aborts(s)
    BY DEF Next, Loop, Ask, Arrive, EpollWait, EventsDone, ReadTimer, ExpireDone, StartUp, vars
<1> QED BY <1>1, <1>2, <1>3, <1>4, <1>5, <1>6, <1>7

(* A diagnosis with one loop takes its samples a period apart, or as much   *)
(* more as the loop was late, however it was opened, ended and opened again *)
(* before: what tq_req_get_diag calls "_5" is five seconds.                 *)
THEOREM SamplesEvenlySpaced == Spec => []EvenlySpaced
<1>1. Init => SpacedInv
    BY SpacedInit
<1>2. IInv /\ SpacedInv /\ [Next]_vars => SpacedInv'
    BY SpacedStep
<1>3. SpacedInv => EvenlySpaced
    BY DEF SpacedInv
<1> QED BY <1>1, <1>2, <1>3, Invariant, PTL DEF Spec
=============================================================================
