-------------------------------- MODULE Timers --------------------------------
(***************************************************************************)
(* The daemon's timers (src/tserver/timers.c): events in a red-black tree,  *)
(* keyed by an expiry second that wraps around.  The timerfd of the event   *)
(* loop (tserver.c) reads the clock and runs everything that is due; a      *)
(* handler, run by expire_timers, and a request handler may arm new timers. *)
(***************************************************************************)
EXTENDS RbTree, TimerBounds

CONSTANTS
    TIMER_LAZY_DELAY,
    Drops         \* "del": del_timer is called (the daemon never does);
                  \* "free": free_all_timer is called

(* Keys are compared by the sign of their difference, so all of them must   *)
(* lie within half the range of the counter.                                *)
ASSUME TimersAssumption ==
    /\ MaxLeft + MaxLate < HalfRange
    /\ Steps \subseteq -(MaxLeft + MaxLate) .. MaxLeft + MaxLate
    /\ TIMER_LAZY_DELAY \in Nat
    /\ Drops \subseteq {"del", "free"}

VARIABLES
    tree,         \* timer_rbtree
    now,          \* current_msec (seconds, in spite of its name)
    pc,           \* "wait" in epoll_wait, in the "expire" loop, in a "handler"
    running       \* the event whose handler runs

vars == <<tree, now, pc, running>>

Armed == DOMAIN tree.mem \ {Sentinel}
Left(x, t) == Signed(tree.mem[x].key - t)

Init ==                                 \* timer_init
    /\ tree = EmptyTree
    /\ now = 0
    /\ pc = "wait" /\ running = None

(* time_update, s seconds after the last one.  The model keeps the clock    *)
(* from leaving every armed timer farther behind than its bounds.           *)
TimeUpdate(s) ==
    /\ now' = (now + s) % (2 * HalfRange)
    /\ \A x \in Armed : Left(x, now') \in -MaxLate .. MaxLeft

(* The event loop reads its timerfd.                                        *)
Tick(s) ==
    /\ pc = "wait"
    /\ TimeUpdate(s)
    /\ pc' = "expire"
    /\ UNCHANGED <<tree, running>>

First == MinFrom(tree, tree.root)

(* Mutant: only a timer of this very second is due.                         *)
FirstIsNow == tree.root # Sentinel /\ Left(First, now) = 0

FirstIsDue == tree.root # Sentinel /\ Left(First, now) <= 0

(* expire_timers takes the first timer out and calls its handler.           *)
ExpireTimer ==
    /\ pc = "expire"
    /\ FirstIsDue
    /\ tree' = Delete(tree, First)
    /\ running' = First
    /\ pc' = "handler"
    /\ UNCHANGED now

(* ... and frees it when the handler returns.                               *)
HandlerReturns ==
    /\ pc = "handler"
    /\ running' = None
    /\ pc' = "expire"
    /\ UNCHANGED <<tree, now>>

(* ... until no timer is left or the first is not due.                      *)
ExpireDone ==
    /\ pc = "expire"
    /\ ~FirstIsDue
    /\ pc' = "wait"
    /\ UNCHANGED <<tree, now, running>>

(* tq_timer_new and add_timer.  A delay below TIMER_LAZY_DELAY is taken for *)
(* a timer that is already armed for that time: nothing is inserted.        *)
TimerNew(e, d, s) ==
    /\ pc \in {"wait", "handler"}
    /\ e \notin Armed /\ e # running
    /\ TimeUpdate(s)
    /\ tree' = IF d < TIMER_LAZY_DELAY THEN tree
               ELSE Insert(tree, e, (now' + d) % (2 * HalfRange))
    /\ UNCHANGED <<pc, running>>

DelTimer(e) ==
    /\ "del" \in Drops
    /\ pc \in {"wait", "handler"}
    /\ e \in Armed
    /\ tree' = Delete(tree, e)
    /\ UNCHANGED <<now, pc, running>>

(* free_all_timer: the minimum is deleted until the tree is empty.  The     *)
(* signal handler of main.c calls it, and the process is started anew.      *)
RECURSIVE Emptied(_)
Emptied(t) ==
    IF t.root = Sentinel THEN t ELSE Emptied(Delete(t, MinFrom(t, t.root)))

FreeAllTimer ==
    /\ "free" \in Drops
    /\ pc = "wait"
    /\ tree.root # Sentinel
    /\ Emptied(tree).mem[Sentinel].color = Black
    /\ tree' = EmptyTree
    /\ now' = 0
    /\ UNCHANGED <<pc, running>>

Next ==
    \/ \E s \in Steps : Tick(s)
    \/ ExpireTimer \/ HandlerReturns \/ ExpireDone
    \/ \E e \in Ev, d \in Delays, s \in Steps : TimerNew(e, d, s)
    \/ \E e \in Ev : DelTimer(e)
    \/ FreeAllTimer

Spec == Init /\ [][Next]_vars

(* The timerfd keeps firing, the wall clock does go on, and handlers        *)
(* return.                                                                  *)
FairSpec ==
    /\ Spec
    /\ WF_vars(\E s \in Steps : Tick(s))
    /\ SF_vars(Tick(1))
    /\ WF_vars(ExpireTimer \/ ExpireDone)
    /\ WF_vars(HandlerReturns)

-----------------------------------------------------------------------------
(* The variables have their types; links lead to nodes of the tree.         *)
TypeOK ==
    /\ tree.root \in DOMAIN tree.mem
    /\ DOMAIN tree.mem \subseteq Ev \cup {Sentinel}
    /\ \A x \in Armed :
          /\ tree.mem[x].key \in 0 .. 2 * HalfRange - 1
          /\ tree.mem[x].color \in {Red, Black}
          /\ {tree.mem[x].left, tree.mem[x].right} \subseteq DOMAIN tree.mem
    /\ now \in 0 .. 2 * HalfRange - 1
    /\ pc \in {"wait", "expire", "handler"}
    /\ running \in Ev \cup {None}

(* The tree, read from left to right, is the queue of TimerQueue: timers    *)
(* run once each, in the order of their expiry times, the first armed first *)
(* among equals, also when the keys wrap around.                            *)
QueueOf ==
    LET order == Walk(tree, tree.root)
    IN  [k \in 1 .. Len(order) |-> [ev |-> order[k], left |-> Left(order[k], now)]]

TQ == INSTANCE TimerQueue WITH queue <- QueueOf

KeepsPromise == TQ!Spec

(* A timer that is armed leaves the tree in the end, by running unless it   *)
(* is dropped (KeepsPromise): expire_timers reaches it however many others  *)
(* are armed meanwhile, and though the clock is set back now and then.      *)
SetBack == \E s \in Steps : s < 0 /\ TimeUpdate(s)
EveryTimerRuns ==
    []<><<SetBack>>_vars \/ \A e \in Ev : e \in Armed ~> e \notin Armed
=============================================================================
