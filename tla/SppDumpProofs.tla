----------------------------- MODULE SppDumpProofs -----------------------------
(* The queue of delayed copies, for any number of processors, any limit and *)
(* any delays: its counter, its limit, and that the work item never waits   *)
(* for its own lock.                                                        *)
EXTENDS SppDump, SequenceTheorems, FiniteSetTheorems, TLAPS

(* Every copy, queued or in the making, carries the mark.                   *)
Made == {"reserve", "copy", "add"}
CopiesMarked ==
    /\ \A k \in 1 .. Len(dump_gc) : Flags(dump_gc[k].tos) # 0
    /\ \A c \in Cpus : hook[c].pc \in Made => Flags(hook[c].tos) # 0

IInv == TypeOK /\ Accounted /\ BelowLimit /\ CopiesMarked /\ NeverSelfLocked

-----------------------------------------------------------------------------
(* What a hook's state holds in each of its steps.                          *)
LEMMA HookFields ==
    ASSUME NEW h \in HookState
    PROVE  /\ h.pc = "idle" => h = Idle
           /\ h.pc = "out" => h = [pc |-> "out"]
           /\ h.pc \in {"reserve", "copy"} =>
                 /\ h \in [pc : {"reserve", "copy"}, tos : Tos, delay : Dups]
                 /\ h.tos \in Tos /\ h.delay \in Dups
           /\ h.pc = "add" => h.tos \in Tos /\ h.expires \in Clock
           /\ h.pc \in {"idle", "reserve", "copy", "add", "out"}
<1>1. CASE h \in {Idle, [pc |-> "out"]}
  BY <1>1 DEF Idle
<1>2. CASE h \in [pc : {"reserve", "copy"}, tos : Tos, delay : Dups]
  BY <1>2
<1>3. CASE h \in [pc : {"add"}, tos : Tos, expires : Clock]
  BY <1>3
<1>4. QED BY <1>1, <1>2, <1>3 DEF HookState

LEMMA GapsAreDelays == Dups \subseteq Nat
<1>1. \A x \in Int : x % 65536 \in Nat
  BY SMT
<1>2. \A ms \in Gaps : Gap(ms) \in Nat
  BY <1>1, SppDumpAssumption DEF Gap
<1>3. QED BY <1>2 DEF Dups

(* Hours of uptime or a delay too long: the sum is again a time.            *)
LEMMA ClockWraps ==
    ASSUME NEW j \in Clock, NEW ms \in Dups
    PROVE  /\ (j + 1) % 2^Width \in Clock
           /\ (j + msecs_to_jiffies(ms)) % 2^Width \in Clock
<1> DEFINE n == 2^Width
<1>1. n \in Nat \ {0}
  BY SppDumpAssumption
<1>2. j \in Int
  BY <1>1 DEF Clock
<1>3. msecs_to_jiffies(ms) \in Int
  <2>1. ms \in Nat /\ HZ \in Nat
    BY SppDumpAssumption, GapsAreDelays
  <2>2. ms * HZ \in Int
    BY <2>1
  <2> DEFINE m == ms * HZ
  <2>3. m \in Int
    BY <2>2
  <2> HIDE DEF m
  <2>4. (m + 999) \div 1000 \in Int
    BY <2>3
  <2>5. QED BY <2>4 DEF m, msecs_to_jiffies
<1>4. Clock = 0 .. n - 1
  BY DEF Clock
<1> HIDE DEF n
<1>5. \A x \in Int : x % n \in 0 .. n - 1
  BY <1>1
<1>6. j + 1 \in Int /\ j + msecs_to_jiffies(ms) \in Int
  BY <1>2, <1>3
<1>7. (j + 1) % n \in Clock /\ (j + msecs_to_jiffies(ms)) % n \in Clock
  BY <1>4, <1>5, <1>6
<1>8. QED BY <1>7 DEF n

(* A packet that is duplicated gets the mark.                               *)
LEMMA MarkIsFlag ==
    ASSUME NEW tos \in Toses, TypeOK, ~Passes(tos)
    PROVE  Marked(tos) \in Tos /\ Flags(Marked(tos)) # 0
BY SppDumpAssumption DEF TypeOK, Passes, Marked, Flags, Tos

(* Places that are taken are finitely many.                                 *)
LEMMA ReservedFinite ==
    /\ IsFiniteSet(Reserved)
    /\ Cardinality(Reserved) \in Nat
<1>1. Reserved \in SUBSET Cpus
  BY DEF Reserved
<1>2. IsFiniteSet(Reserved)
  BY <1>1, SppDumpAssumption, FS_Subset
<1>3. QED BY <1>2, FS_CardinalityType

LEMMA InitInv == Init => IInv
<1> SUFFICES ASSUME Init PROVE IInv
  OBVIOUS
<1>1. TypeOK
  <2>1. hook \in [Cpus -> HookState]
    BY DEF Init, HookState
  <2>2. dump_gc \in Seq(Dumper)
    BY DEF Init
  <2>3. wmm \in BOOLEAN /\ dump_tm \in BOOLEAN /\ dump_wk \in BOOLEAN
    BY Zenon DEF Init
  <2>4. ndumper \in Int
    BY DEF Init
  <2>5. jiffies \in Clock /\ dup \in Dups /\ work = NoWork
    BY DEF Init
  <2>6. QED BY <2>1, <2>2, <2>3, <2>4, <2>5 DEF TypeOK
<1>2. Reserved = {}
  BY DEF Init, Idle, Reserved
<1>3. Cardinality(Reserved) = 0 /\ Len(dump_gc) = 0
  BY <1>2, FS_EmptySet DEF Init
<1>4. Accounted /\ BelowLimit
  BY <1>3, SppDumpAssumption DEF Init, Accounted, BelowLimit
<1>5. CopiesMarked
  BY <1>3 DEF Init, CopiesMarked, Idle, Made
<1>6. NeverSelfLocked
  BY DEF Init, NeverSelfLocked, NoWork
<1>7. QED BY <1>1, <1>4, <1>5, <1>6 DEF IInv

(* A step that leaves the hooks and the list alone.                         *)
LEMMA ElsewhereInv ==
    ASSUME IInv, UNCHANGED <<hook, dump_gc, ndumper>>,
           jiffies' \in Clock, dup' \in Dups, wmm' \in BOOLEAN,
           dump_tm' \in BOOLEAN, dump_wk' \in BOOLEAN,
           work' \in {NoWork} \cup [pc : {"loop"}, cpu : WorkCpus]
    PROVE  IInv'
<1>1. TypeOK'
  BY DEF IInv, TypeOK
<1>2. Reserved' = Reserved
  BY DEF Reserved
<1>3. Accounted' /\ BelowLimit'
  BY <1>2 DEF IInv, Accounted, BelowLimit
<1>4. CopiesMarked'
  BY DEF IInv, CopiesMarked
<1>5. NeverSelfLocked'
  BY DEF NeverSelfLocked, NoWork
<1>6. QED BY <1>1, <1>3, <1>4, <1>5 DEF IInv

(* A step of one hook that leaves the list alone.  What it does to the      *)
(* places taken is left to the caller.                                      *)
LEMMA HookStepInv ==
    ASSUME IInv, NEW c \in Cpus, NEW h \in HookState,
           hook' = [hook EXCEPT ![c] = h],
           h.pc \in Made => Flags(h.tos) # 0,
           ndumper' \in Int,
           UNCHANGED <<jiffies, dup, wmm, dump_gc, dump_tm, dump_wk, work>>,
           Accounted', BelowLimit'
    PROVE  IInv'
<1>1. TypeOK'
  BY DEF IInv, TypeOK
<1>2. CopiesMarked'
  BY DEF IInv, TypeOK, CopiesMarked
<1>3. NeverSelfLocked'
  BY DEF IInv, NeverSelfLocked
<1>4. QED BY <1>1, <1>2, <1>3 DEF IInv

(* ... and keeps what it has taken or not.                                  *)
LEMMA HookKeepsInv ==
    ASSUME IInv, NEW c \in Cpus, NEW h \in HookState,
           hook' = [hook EXCEPT ![c] = h],
           h.pc \in {"copy", "add", "out"} <=> hook[c].pc \in {"copy", "add", "out"},
           h.pc \in Made => Flags(h.tos) # 0,
           UNCHANGED <<jiffies, dup, wmm, ndumper, dump_gc, dump_tm, dump_wk, work>>
    PROVE  IInv'
<1>1. hook' \in [Cpus -> HookState] /\ ndumper' \in Int
  BY DEF IInv, TypeOK
<1>2. Reserved' = Reserved
  BY DEF Reserved, IInv, TypeOK
<1>3. Accounted' /\ BelowLimit'
  BY <1>2 DEF IInv, Accounted, BelowLimit
<1>4. QED BY <1>1, <1>3, HookStepInv

LEMMA NetworkDownInv ==
    ASSUME IInv, NEW c \in HookCpus, NEW tos \in Toses, NetworkDown(c, tos)
    PROVE  IInv'
<1> DEFINE h == [pc |-> "reserve", tos |-> Marked(tos), delay |-> dup]
<1>1. c \in Cpus
  BY SppDumpAssumption
<1>2. Marked(tos) \in Tos /\ Flags(Marked(tos)) # 0
  BY MarkIsFlag DEF IInv, NetworkDown
<1>3. h \in HookState
  BY <1>2 DEF IInv, TypeOK, HookState
<1>4. h.pc = "reserve" /\ h.tos = Marked(tos)
  OBVIOUS
<1>5. hook' = [hook EXCEPT ![c] = h] /\ hook[c].pc = "idle"
      /\ UNCHANGED <<jiffies, dup, wmm, ndumper, dump_gc, dump_tm, dump_wk, work>>
  BY DEF NetworkDown
<1> HIDE DEF h
<1>6. QED BY <1>1, <1>2, <1>3, <1>4, <1>5, HookKeepsInv

LEMMA ReserveInv ==
    ASSUME IInv, NEW c \in HookCpus, Reserve(c)
    PROVE  IInv'
<1>1. c \in Cpus /\ hook[c] \in HookState /\ hook[c].pc = "reserve"
  BY SppDumpAssumption DEF IInv, TypeOK, Reserve
<1>2. /\ hook[c] \in [pc : {"reserve", "copy"}, tos : Tos, delay : Dups]
      /\ Flags(hook[c].tos) # 0
  BY <1>1, HookFields DEF IInv, CopiesMarked, Made
<1>3. CASE ndumper + 1 >= Limit
  <2>1. hook' = [hook EXCEPT ![c] = Idle]
        /\ UNCHANGED <<jiffies, dup, wmm, ndumper, dump_gc, dump_tm, dump_wk, work>>
    BY <1>3 DEF Reserve
  <2>2. Idle \in HookState /\ Idle.pc = "idle"
    BY DEF HookState, Idle
  <2>3. QED BY <1>1, <2>1, <2>2, HookKeepsInv DEF Made
<1>4. CASE ~(ndumper + 1 >= Limit)
  <2> DEFINE h == [hook[c] EXCEPT !.pc = "copy"]
  <2>1. hook' = [hook EXCEPT ![c] = h] /\ ndumper' = ndumper + 1
        /\ UNCHANGED <<jiffies, dup, wmm, dump_gc, dump_tm, dump_wk, work>>
    BY <1>4 DEF Reserve
  <2>2. h \in [pc : {"reserve", "copy"}, tos : Tos, delay : Dups]
    BY <1>2
  <2>3. h.pc = "copy" /\ h.tos = hook[c].tos
    BY <1>2
  <2>4. h \in HookState
    BY <2>2 DEF HookState
  <2> HIDE DEF h
  <2>5. Reserved' = Reserved \cup {c} /\ c \notin Reserved
    BY <1>1, <2>1, <2>3 DEF Reserved, IInv, TypeOK
  <2>6. Cardinality(Reserved') = Cardinality(Reserved) + 1
    BY <2>5, ReservedFinite, FS_AddElement
  <2>7. ndumper \in Int /\ Limit \in Nat /\ Len(dump_gc) \in Nat
    BY SppDumpAssumption, LenProperties DEF IInv, TypeOK
  <2>8. Accounted' /\ BelowLimit'
    BY <1>4, <2>1, <2>6, <2>7, ReservedFinite DEF IInv, Accounted, BelowLimit
  <2>9. ndumper' \in Int
    BY <2>1, <2>7
  <2>10. QED BY <1>1, <1>2, <2>1, <2>3, <2>4, <2>8, <2>9, HookStepInv
<1>5. QED BY <1>3, <1>4

LEMMA CopyInv ==
    ASSUME IInv, NEW c \in HookCpus, Copy(c)
    PROVE  IInv'
<1> DEFINE t == (jiffies + msecs_to_jiffies(hook[c].delay)) % 2^Width
           h == [pc |-> "add", tos |-> hook[c].tos, expires |-> t]
<1>1. c \in Cpus /\ hook[c] \in HookState /\ hook[c].pc = "copy"
  BY SppDumpAssumption DEF IInv, TypeOK, Copy
<1>2. hook[c].tos \in Tos /\ hook[c].delay \in Dups /\ Flags(hook[c].tos) # 0
  BY <1>1, HookFields DEF IInv, CopiesMarked, Made
<1>3. t \in Clock
  BY <1>2, ClockWraps DEF IInv, TypeOK
<1>4. hook' = [hook EXCEPT ![c] = h]
      /\ UNCHANGED <<jiffies, dup, wmm, ndumper, dump_gc, dump_tm, dump_wk, work>>
  BY DEF Copy
<1> HIDE DEF t
<1>5. h \in HookState
  BY <1>2, <1>3 DEF HookState
<1>6. h.pc = "add" /\ h.tos = hook[c].tos
  OBVIOUS
<1> HIDE DEF h
<1>7. QED BY <1>1, <1>2, <1>4, <1>5, <1>6, HookKeepsInv

LEMMA CopyFailsInv ==
    ASSUME IInv, NEW c \in HookCpus, CopyFails(c)
    PROVE  IInv'
<1> DEFINE h == [pc |-> "out"]
<1>1. c \in Cpus /\ hook[c].pc = "copy" /\ hook' = [hook EXCEPT ![c] = h]
      /\ UNCHANGED <<jiffies, dup, wmm, ndumper, dump_gc, dump_tm, dump_wk, work>>
  BY SppDumpAssumption DEF CopyFails
<1>2. h \in HookState /\ h.pc = "out"
  BY DEF HookState
<1> HIDE DEF h
<1>3. QED BY <1>1, <1>2, HookKeepsInv DEF Made

LEMMA OutInv ==
    ASSUME IInv, NEW c \in HookCpus, Out(c)
    PROVE  IInv'
<1>1. c \in Cpus /\ hook[c].pc = "out" /\ hook' = [hook EXCEPT ![c] = Idle]
      /\ ndumper' = ndumper - 1
      /\ UNCHANGED <<jiffies, dup, wmm, dump_gc, dump_tm, dump_wk, work>>
  BY SppDumpAssumption DEF Out
<1>2. Idle \in HookState /\ Idle.pc = "idle"
  BY DEF HookState, Idle
<1>3. Reserved' = Reserved \ {c} /\ c \in Reserved
  BY <1>1, <1>2 DEF Reserved, IInv, TypeOK
<1>4. Cardinality(Reserved') = Cardinality(Reserved) - 1
  BY <1>3, ReservedFinite, FS_RemoveElement
<1>5. ndumper \in Int /\ Limit \in Nat /\ Len(dump_gc) \in Nat
  BY SppDumpAssumption, LenProperties DEF IInv, TypeOK
<1>6. Accounted' /\ BelowLimit'
  BY <1>1, <1>4, <1>5, ReservedFinite DEF IInv, Accounted, BelowLimit
<1>7. ndumper' \in Int
  BY <1>1, <1>5
<1>8. QED BY <1>1, <1>2, <1>6, <1>7, HookStepInv DEF Made

LEMMA EnqueueInv ==
    ASSUME IInv, NEW c \in HookCpus, Enqueue(c)
    PROVE  IInv'
<1> DEFINE d == [tos |-> hook[c].tos, expires |-> hook[c].expires]
<1>1. /\ c \in Cpus /\ hook[c] \in HookState /\ hook[c].pc = "add"
      /\ hook' = [hook EXCEPT ![c] = Idle]
      /\ dump_gc' = Append(dump_gc, d)
      /\ UNCHANGED <<jiffies, dup, wmm, ndumper, dump_tm, dump_wk, work>>
  BY SppDumpAssumption DEF IInv, TypeOK, Enqueue
<1>2. hook[c].tos \in Tos /\ hook[c].expires \in Clock /\ Flags(hook[c].tos) # 0
  BY <1>1, HookFields DEF IInv, CopiesMarked, Made
<1>3. d \in Dumper /\ d.tos = hook[c].tos
  BY <1>2 DEF Dumper
<1> HIDE DEF d
<1>4. /\ dump_gc' \in Seq(Dumper)
      /\ Len(dump_gc) \in Nat
      /\ Len(dump_gc') = Len(dump_gc) + 1
      /\ \A k \in 1 .. Len(dump_gc) : dump_gc'[k] = dump_gc[k]
      /\ dump_gc'[Len(dump_gc) + 1] = d
  BY <1>1, <1>3, AppendProperties, LenProperties DEF IInv, TypeOK
<1>5. TypeOK'
  <2>1. Idle \in HookState
    BY DEF HookState
  <2>2. hook' \in [Cpus -> HookState]
    BY <1>1, <2>1 DEF IInv, TypeOK
  <2>3. QED BY <1>1, <1>4, <2>2 DEF IInv, TypeOK
<1>6. Reserved' = Reserved \ {c} /\ c \in Reserved
  BY <1>1 DEF Reserved, IInv, TypeOK, Idle
<1>7. Cardinality(Reserved') = Cardinality(Reserved) - 1
  BY <1>6, ReservedFinite, FS_RemoveElement
<1>8. ndumper \in Int /\ Limit \in Nat
  BY SppDumpAssumption DEF IInv, TypeOK
<1>9. Accounted' /\ BelowLimit'
  BY <1>1, <1>4, <1>7, <1>8, ReservedFinite DEF IInv, Accounted, BelowLimit
<1>10. CopiesMarked'
  <2>1. ASSUME NEW k \in 1 .. Len(dump_gc') PROVE Flags(dump_gc'[k].tos) # 0
    <3>1. CASE k \in 1 .. Len(dump_gc)
      BY <3>1, <1>4 DEF IInv, CopiesMarked
    <3>2. CASE k = Len(dump_gc) + 1
      BY <3>2, <1>2, <1>3, <1>4
    <3>3. QED BY <1>4, <3>1, <3>2
  <2>2. ASSUME NEW x \in Cpus, hook'[x].pc \in Made PROVE Flags(hook'[x].tos) # 0
    <3>1. CASE x = c
      BY <3>1, <1>1, <2>2 DEF Idle, Made, IInv, TypeOK
    <3>2. CASE x # c
      BY <3>2, <1>1, <2>2 DEF IInv, TypeOK, CopiesMarked
    <3>3. QED BY <3>1, <3>2
  <2>3. QED BY <2>1, <2>2 DEF CopiesMarked
<1>11. NeverSelfLocked'
  BY <1>1 DEF IInv, NeverSelfLocked
<1>12. QED BY <1>5, <1>9, <1>10, <1>11 DEF IInv

LEMMA WorkSendsInv ==
    ASSUME IInv, WorkSends
    PROVE  IInv'
<1>1. /\ dump_gc # <<>> /\ dump_gc \in Seq(Dumper)
      /\ dump_gc' = Tail(dump_gc) /\ ndumper' = ndumper - 1
      /\ UNCHANGED <<jiffies, dup, wmm, hook, dump_tm, dump_wk>>
  BY DEF IInv, TypeOK, WorkSends, HeadIsDue
<1>2. /\ dump_gc' \in Seq(Dumper)
      /\ Len(dump_gc) \in Nat \ {0}
      /\ Len(dump_gc') = Len(dump_gc) - 1
      /\ \A k \in 1 .. Len(dump_gc') : dump_gc'[k] = dump_gc[k + 1]
      /\ Head(dump_gc) = dump_gc[1]
  BY <1>1, HeadTailProperties, EmptySeq, LenProperties
<1>3. Flags(Head(dump_gc).tos) # 0
  BY <1>2 DEF IInv, CopiesMarked
<1>4. work' = work
  BY <1>3 DEF WorkSends, Passes
<1>5. TypeOK'
  BY <1>1, <1>2, <1>4 DEF IInv, TypeOK
<1>6. Reserved' = Reserved
  BY <1>1 DEF Reserved
<1>7. Accounted' /\ BelowLimit'
  <2>1. ndumper \in Int /\ Limit \in Nat
    BY SppDumpAssumption DEF IInv, TypeOK
  <2>2. QED BY <1>1, <1>2, <1>6, <2>1, ReservedFinite DEF IInv, Accounted, BelowLimit
<1>8. CopiesMarked'
  BY <1>1, <1>2 DEF IInv, CopiesMarked
<1>9. NeverSelfLocked'
  BY <1>4 DEF IInv, NeverSelfLocked
<1>10. QED BY <1>5, <1>7, <1>8, <1>9 DEF IInv

LEMMA NextInv == IInv /\ [Next]_vars => IInv'
<1> SUFFICES ASSUME IInv, [Next]_vars PROVE IInv'
  OBVIOUS
<1>1. /\ jiffies \in Clock /\ dup \in Dups /\ wmm \in BOOLEAN
      /\ dump_tm \in BOOLEAN /\ dump_wk \in BOOLEAN
      /\ work \in {NoWork} \cup [pc : {"loop"}, cpu : WorkCpus]
  BY DEF IInv, TypeOK, NeverSelfLocked
<1>2. CASE Tick
  <2>1. jiffies' \in Clock
    BY <1>1, <1>2, ClockWraps DEF Tick
  <2>2. QED BY <1>1, <1>2, <2>1, ElsewhereInv DEF Tick
<1>3. CASE DumpTimerCb
  BY <1>1, <1>3, ElsewhereInv DEF DumpTimerCb
<1>4. ASSUME NEW ms \in Dups, DupSet(ms) PROVE IInv'
  BY <1>1, <1>4, ElsewhereInv DEF DupSet
<1>5. ASSUME NEW on \in BOOLEAN, WmmSet(on) PROVE IInv'
  BY <1>1, <1>5, ElsewhereInv DEF WmmSet
<1>6. ASSUME NEW c \in HookCpus, NEW tos \in Toses, NetworkDown(c, tos) PROVE IInv'
  BY <1>6, NetworkDownInv
<1>7. ASSUME NEW c \in HookCpus, Hook(c) PROVE IInv'
  BY <1>7, ReserveInv, CopyInv, CopyFailsInv, OutInv, EnqueueInv DEF Hook
<1>8. ASSUME NEW c \in WorkCpus, WorkStarts(c) PROVE IInv'
  BY <1>1, <1>8, ElsewhereInv DEF WorkStarts
<1>9. CASE WorkSends
  BY <1>9, WorkSendsInv
<1>10. CASE WorkEnds
  BY <1>1, <1>10, ElsewhereInv DEF WorkEnds
<1>11. CASE UNCHANGED vars
  BY <1>1, <1>11, ElsewhereInv DEF vars
<1>12. QED
  BY <1>2, <1>3, <1>4, <1>5, <1>6, <1>7, <1>8, <1>9, <1>10, <1>11 DEF Next

LEMMA Invariance == Spec => []IInv
BY InitInv, NextInv, PTL DEF Spec

-----------------------------------------------------------------------------
(* The variables of the queue keep their types, whatever gap phones ask     *)
(* for and however jiffies wrap around (tq_req_start_spp,                   *)
(* spp_dumper_alloc).                                                       *)
THEOREM TypeCorrect == Spec => []TypeOK
<1>1. IInv => TypeOK
  BY DEF IInv
<1>2. QED BY <1>1, Invariance, PTL

(* The counter of spp_dumper_alloc and spp_dump_work_cb never goes wrong,   *)
(* whatever number of processors allocates at a time and whatever fails.    *)
THEOREM CounterIsRight == Spec => []Accounted
<1>1. IInv => Accounted
  BY DEF IInv
<1>2. QED BY <1>1, Invariance, PTL

(* The list has fewer entries than the limit of spp_dumper_alloc.           *)
THEOREM ListIsBounded == Spec => []BelowLimit
<1>1. IInv => BelowLimit
  BY DEF IInv
<1>2. QED BY <1>1, Invariance, PTL

(* spp_dump_work_cb never sends a copy that nf_network_down would copy.     *)
THEOREM CopiesAreNotCopied == Spec => []NeverSelfLocked
<1>1. IInv => NeverSelfLocked
  BY DEF IInv
<1>2. QED BY <1>1, Invariance, PTL
=============================================================================
