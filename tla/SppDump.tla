-------------------------------- MODULE SppDump --------------------------------
(***************************************************************************)
(* The kernel module's queue of delayed copies (src/spp/spp_network.c).     *)
(* nf_network_down marks a packet on its way to an accelerated phone,       *)
(* copies it and queues the copy; a timer schedules a work item in every    *)
(* jiffy, which sends the copies whose time has come.  A copy that is sent  *)
(* passes the same hook again.                                              *)
(*                                                                          *)
(* Hooks run in softirq context: they interrupt whatever their processor    *)
(* does and then run to completion.  dump_lock is held over several steps   *)
(* by the work item alone; what a hook does under it is one step.           *)
(***************************************************************************)
EXTENDS Integers, Sequences, FiniteSets

CONSTANTS
    Cpus,
    HookCpus,     \* the processors that receive packets
    WorkCpus,     \* the processors that run work items
    Limit,        \* 1024
    Width,        \* bits of an unsigned long
    HZ,           \* jiffies per second
    Gaps,         \* what requests ask for as "doublegap", in milliseconds
    Toses,        \* type of service of packets that arrive
    KeepsUp       \* TRUE: a jiffy does not pass before the timer and the
                  \* start of the work item that belong to the last one

ASSUME SppDumpAssumption ==
    /\ IsFiniteSet(Cpus)
    /\ HookCpus \subseteq Cpus /\ WorkCpus \subseteq Cpus
    /\ Limit \in Nat \ {0}
    /\ Width \in Nat /\ 2^Width \in Nat \ {0}
    /\ HZ \in Nat \ {0}
    /\ Gaps \subseteq Int
    /\ Toses \subseteq 0 .. 255
    /\ KeepsUp \in BOOLEAN

VARIABLES
    jiffies,
    dup,          \* cctx.dup[0]
    wmm,          \* cctx.wmm
    ndumper,
    dump_gc,      \* the list of struct spp_dumper, first to be sent first
    hook,         \* nf_network_down as it runs on each processor
    dump_tm,      \* the timer has expired
    dump_wk,      \* the work item is scheduled
    work          \* where it runs: on a processor, holding dump_lock

vars == <<jiffies, dup, wmm, ndumper, dump_gc, hook, dump_tm, dump_wk, work>>

(* tq_req_start_spp: a gap of zero switches duplication off, one that is    *)
(* out of bounds is put at the bound; 16 bits of it are sent, so that a     *)
(* negative one becomes a minute.                                           *)
Gap(ms) == (CASE ms > 0 /\ ms < 10 -> 10
              [] ms > 200 -> 200
              [] OTHER -> ms) % 65536
Dups == {Gap(ms) : ms \in Gaps}

Clock == 0 .. 2^Width - 1
Idle == [pc |-> "idle"]
NoWork == [pc |-> "idle"]

msecs_to_jiffies(ms) == (ms * HZ + 999) \div 1000

(* iph->tos & SPP_FLAG_MASK, which the hook takes for the mark of a copy    *)
Flags(tos) == tos % 4

Init ==                                \* spp_config_init, spp_network_init
    /\ jiffies \in Clock
    /\ dup \in Dups /\ wmm = TRUE
    /\ ndumper = 0
    /\ dump_gc = <<>>
    /\ hook = [c \in Cpus |-> Idle]
    /\ dump_tm = FALSE /\ dump_wk = FALSE
    /\ work = NoWork

-----------------------------------------------------------------------------
(* Time, and the requests of the netlink server.                            *)

Tick ==
    /\ KeepsUp => ~dump_tm /\ ~dump_wk
    /\ jiffies' = (jiffies + 1) % 2^Width
    /\ dump_tm' = TRUE
    /\ UNCHANGED <<dup, wmm, ndumper, dump_gc, hook, dump_wk, work>>

(* The callback schedules the work item and arms the timer for the next     *)
(* jiffy; late calls are made up for, and schedule nothing new.             *)
DumpTimerCb ==
    /\ dump_tm
    /\ dump_tm' = FALSE
    /\ dump_wk' = TRUE
    /\ UNCHANGED <<jiffies, dup, wmm, ndumper, dump_gc, hook, work>>

DupSet(ms) ==
    /\ dup' = ms
    /\ UNCHANGED <<jiffies, wmm, ndumper, dump_gc, hook, dump_tm, dump_wk, work>>

WmmSet(on) ==
    /\ wmm' = on
    /\ UNCHANGED <<jiffies, dup, ndumper, dump_gc, hook, dump_tm, dump_wk, work>>

-----------------------------------------------------------------------------
(* nf_network_down, on one processor.                                       *)

(* The hook lets a packet pass untouched if duplication is off or if it     *)
(* carries the mark.  (With wmm alone it is only given its priority.)       *)
Passes(tos) == dup = 0 \/ Flags(tos) # 0

(* Mutant: the priority is set last, and wipes out the mark.                *)
PriorityLast(tos) == IF wmm THEN 224 ELSE tos + 1

Marked(tos) == (IF wmm THEN 224 ELSE tos) + 1

LockIsFree == work.pc = "idle"

(* spp_dumper_alloc is called.                                              *)
NetworkDown(c, tos) ==
    /\ hook[c].pc = "idle"
    /\ ~Passes(tos)
    /\ hook' = [hook EXCEPT ![c] = [pc |-> "reserve", tos |-> Marked(tos), delay |-> dup]]
    /\ UNCHANGED <<jiffies, dup, wmm, ndumper, dump_gc, dump_tm, dump_wk, work>>

(* Mutant: the limit is compared after the increment with >.                *)
ReserveOneMore(c) ==
    /\ hook[c].pc = "reserve" /\ LockIsFree
    /\ IF ndumper + 1 > Limit
       THEN hook' = [hook EXCEPT ![c] = Idle] /\ UNCHANGED ndumper
       ELSE hook' = [hook EXCEPT ![c].pc = "copy"] /\ ndumper' = ndumper + 1
    /\ UNCHANGED <<jiffies, dup, wmm, dump_gc, dump_tm, dump_wk, work>>

(* Under the lock a place is taken, or given back if the queue is full.     *)
Reserve(c) ==
    /\ hook[c].pc = "reserve" /\ LockIsFree
    /\ IF ndumper + 1 >= Limit
       THEN hook' = [hook EXCEPT ![c] = Idle] /\ UNCHANGED ndumper
       ELSE hook' = [hook EXCEPT ![c].pc = "copy"] /\ ndumper' = ndumper + 1
    /\ UNCHANGED <<jiffies, dup, wmm, dump_gc, dump_tm, dump_wk, work>>

(* Mutant: the delay of the configuration, read again and in milliseconds.  *)
CopyUnconverted(c) ==
    /\ hook[c].pc = "copy"
    /\ hook' = [hook EXCEPT ![c] =
           [pc |-> "add", tos |-> hook[c].tos, expires |-> jiffies + dup]]
    /\ UNCHANGED <<jiffies, dup, wmm, ndumper, dump_gc, dump_tm, dump_wk, work>>

(* pskb_copy and kmem_cache_alloc succeed; the time is read without lock.   *)
Copy(c) ==
    /\ hook[c].pc = "copy"
    /\ hook' = [hook EXCEPT ![c] =
           [pc |-> "add", tos |-> hook[c].tos,
            expires |-> (jiffies + msecs_to_jiffies(hook[c].delay)) % 2^Width]]
    /\ UNCHANGED <<jiffies, dup, wmm, ndumper, dump_gc, dump_tm, dump_wk, work>>

(* One of the two fails.                                                    *)
CopyFails(c) ==
    /\ hook[c].pc = "copy"
    /\ hook' = [hook EXCEPT ![c] = [pc |-> "out"]]
    /\ UNCHANGED <<jiffies, dup, wmm, ndumper, dump_gc, dump_tm, dump_wk, work>>

(* Mutant: the place is kept.                                               *)
LeakPlace(c) ==
    /\ hook[c].pc = "out" /\ LockIsFree
    /\ hook' = [hook EXCEPT ![c] = Idle]
    /\ UNCHANGED <<jiffies, dup, wmm, ndumper, dump_gc, dump_tm, dump_wk, work>>

Out(c) ==
    /\ hook[c].pc = "out" /\ LockIsFree
    /\ ndumper' = ndumper - 1
    /\ hook' = [hook EXCEPT ![c] = Idle]
    /\ UNCHANGED <<jiffies, dup, wmm, dump_gc, dump_tm, dump_wk, work>>

Enqueue(c) ==
    /\ hook[c].pc = "add" /\ LockIsFree
    /\ dump_gc' = Append(dump_gc, [tos |-> hook[c].tos, expires |-> hook[c].expires])
    /\ hook' = [hook EXCEPT ![c] = Idle]
    /\ UNCHANGED <<jiffies, dup, wmm, ndumper, dump_tm, dump_wk, work>>

-----------------------------------------------------------------------------
(* spp_dump_work_cb.  It goes on only while no hook runs on its processor:  *)
(* one that interrupts it under dump_lock waits for that lock for ever.     *)

WorkStarts(c) ==
    /\ dump_wk /\ work.pc = "idle"
    /\ hook[c].pc = "idle"
    /\ dump_wk' = FALSE
    /\ work' = [pc |-> "loop", cpu |-> c]
    /\ UNCHANGED <<jiffies, dup, wmm, ndumper, dump_gc, hook, dump_tm>>

InLoop == work.pc = "loop" /\ hook[work.cpu].pc = "idle"

(* Mutant: a copy of this very jiffy is not yet due.                        *)
HeadIsLate == dump_gc # <<>> /\ Head(dump_gc).expires < jiffies

HeadIsDue == dump_gc # <<>> /\ Head(dump_gc).expires <= jiffies

(* The copy is sent under the lock, and passes nf_network_down again: if it *)
(* were duplicated, the work item would wait for the lock it holds.         *)
WorkSends ==
    /\ InLoop
    /\ HeadIsDue
    /\ dump_gc' = Tail(dump_gc)
    /\ ndumper' = ndumper - 1
    /\ work' = IF Passes(Head(dump_gc).tos) THEN work ELSE [work EXCEPT !.pc = "self"]
    /\ UNCHANGED <<jiffies, dup, wmm, hook, dump_tm, dump_wk>>

WorkEnds ==
    /\ InLoop
    /\ ~HeadIsDue
    /\ work' = NoWork
    /\ UNCHANGED <<jiffies, dup, wmm, ndumper, dump_gc, hook, dump_tm, dump_wk>>

-----------------------------------------------------------------------------
Hook(c) == Reserve(c) \/ Copy(c) \/ CopyFails(c) \/ Out(c) \/ Enqueue(c)

Next ==
    \/ Tick \/ DumpTimerCb
    \/ \E ms \in Dups : DupSet(ms)
    \/ \E on \in BOOLEAN : WmmSet(on)
    \/ \E c \in HookCpus : (\E tos \in Toses : NetworkDown(c, tos)) \/ Hook(c)
    \/ \E c \in WorkCpus : WorkStarts(c)
    \/ WorkSends \/ WorkEnds

Spec == Init /\ [][Next]_vars

(* Jiffies go by, the timer runs; hooks end, and packets do not keep a      *)
(* processor from its work items for ever.  A work item that starts in the  *)
(* right jiffy again and again is not always held up until the next one     *)
(* before it has looked at the list.                                        *)
FairSpec ==
    /\ Spec
    /\ WF_vars(Tick)
    /\ WF_vars(DumpTimerCb)
    /\ \A c \in HookCpus : WF_vars(Hook(c))
    /\ SF_vars(\E c \in WorkCpus : WorkStarts(c))
    /\ SF_vars(WorkSends)
    /\ WF_vars(WorkEnds)

-----------------------------------------------------------------------------
Tos == 0 .. 255
Dumper == [tos : Tos, expires : Clock]

HookState ==
    {Idle, [pc |-> "out"]}
        \cup [pc : {"reserve", "copy"}, tos : Tos, delay : Dups]
        \cup [pc : {"add"}, tos : Tos, expires : Clock]

(* The variables have their types.                                          *)
TypeOK ==
    /\ jiffies \in Clock
    /\ dup \in Dups /\ wmm \in BOOLEAN
    /\ ndumper \in Int
    /\ dump_gc \in Seq(Dumper)
    /\ hook \in [Cpus -> HookState]
    /\ dump_tm \in BOOLEAN /\ dump_wk \in BOOLEAN
    /\ work \in {NoWork} \cup [pc : {"loop", "self"}, cpu : WorkCpus]

(* The processors that have taken a place in the queue and not filled it.   *)
Reserved == {c \in Cpus : hook[c].pc \in {"copy", "add", "out"}}

(* ndumper counts the copies in the list and those in the making, with      *)
(* hooks on several processors between their two critical sections and the  *)
(* failures of spp_dumper_alloc (ndumper is changed in four places).        *)
Accounted == ndumper = Len(dump_gc) + Cardinality(Reserved)

(* The list stays within the limit of 1024, although the place for a copy   *)
(* is taken in another critical section than the one that adds it.          *)
BelowLimit == Len(dump_gc) + Cardinality(Reserved) < Limit

(* No copy is duplicated when it is sent: every copy carries a mark that    *)
(* nf_network_down recognises, whatever wmm and dup were when it was made   *)
(* and are now.  Otherwise spp_dump_work_cb would wait for its own lock.    *)
NeverSelfLocked == work.pc # "self"

(* The deadlock of this code: a hook has interrupted spp_dump_work_cb on    *)
(* its own processor, which spin_lock does not prevent, and wants its lock. *)
Deadlocked == work.pc = "loop" /\ hook[work.cpu].pc = "reserve"

(* As long as there are copies, some are sent (spp_dump_work_cb), also when *)
(* jiffies wrap around; the list is a queue, so that each has its turn.     *)
(* Nothing but that one deadlock can stop it.                               *)
SendsOne == Len(dump_gc') < Len(dump_gc)
CopiesGoOut == []<>(dump_gc = <<>>) \/ []<><<SendsOne>>_vars \/ <>[]Deadlocked
=============================================================================
