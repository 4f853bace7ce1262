------------------------------ MODULE TimerBounds ------------------------------
(* The events and the times of the daemon's timers, for the queue they      *)
(* promise (TimerQueue) and the tree that holds them (Timers).              *)
EXTENDS Integers

CONSTANTS
    Ev,           \* timer events, as malloc returns them
    None,         \* no event
    Delays,       \* seconds the callers of tq_timer_new ask for
    Steps,        \* seconds between two readings of the wall clock
    MaxLeft,      \* farthest expiry time
    MaxLate       \* how far past its expiry time a timer may be found

ASSUME TimerBoundsAssumption ==
    /\ None \notin Ev
    /\ MaxLeft \in Nat /\ MaxLate \in Nat
    /\ Delays \subseteq 0 .. MaxLeft
    /\ Steps \subseteq Int
=============================================================================
