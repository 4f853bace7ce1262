------------------------------ MODULE TimerQueue ------------------------------
(***************************************************************************)
(* What the daemon's timers promise (src/tserver/timers.c): armed timers    *)
(* run once each, in the order of their expiry times, those of one expiry   *)
(* time in the order they were armed.  Times are relative to the clock, so  *)
(* that neither the width nor the wrap-around of current_msec shows here;   *)
(* the red-black tree of Timers implements this queue.                      *)
(***************************************************************************)
EXTENDS TimerBounds, Sequences

VARIABLES
    queue,        \* the armed timers, in the order they will run
    running       \* the event whose handler expire_timers is running

vars == <<queue, running>>

Entry == [ev : Ev, left : -MaxLate .. MaxLeft]
Events(q) == {q[k].ev : k \in DOMAIN q}

(* The bounds of the model hold after the clock has gone s seconds forward. *)
Fits(q, s) == \A k \in 1 .. Len(q) : q[k].left - s \in -MaxLate .. MaxLeft

(* The queue after the clock has gone s seconds forward (back, when s < 0). *)
Shifted(q, s) ==
    [k \in 1 .. Len(q) |-> [q[k] EXCEPT !.left = q[k].left - s]]

(* A new entry behind the first n.                                          *)
Inserted(q, n, x) ==
    [k \in 1 .. Len(q) + 1 |-> IF k <= n THEN q[k] ELSE IF k = n + 1 THEN x ELSE q[k - 1]]

Init == queue = <<>> /\ running = None

(* The clock is read, s seconds after the last reading, and a new event is  *)
(* armed d seconds ahead, behind all that expire no later.                  *)
Add(e, d, s) ==
    /\ e \notin Events(queue) /\ e # running
    /\ Fits(queue, s)
    /\ \E n \in 0 .. Len(queue) :
          /\ \A k \in 1 .. n : queue[k].left - s <= d
          /\ \A k \in n + 1 .. Len(queue) : queue[k].left - s > d
          /\ queue' = Inserted(Shifted(queue, s), n, [ev |-> e, left |-> d])
    /\ UNCHANGED running

(* The first timer is due: it leaves the queue and its handler runs.        *)
Expire ==
    /\ running = None
    /\ queue # <<>>
    /\ Head(queue).left <= 0
    /\ queue' = Tail(queue)
    /\ running' = Head(queue).ev

(* The handler returns.                                                     *)
Finish ==
    /\ running # None
    /\ running' = None
    /\ UNCHANGED queue

(* One armed timer is taken out.                                            *)
Cancel(i) ==
    /\ i \in 1 .. Len(queue)
    /\ queue' = [k \in 1 .. Len(queue) - 1 |-> queue[IF k < i THEN k ELSE k + 1]]
    /\ UNCHANGED running

FreeAll ==
    /\ queue' = <<>>
    /\ UNCHANGED running

(* The clock is read, s seconds after the last reading.                     *)
Advance(s) ==
    /\ Fits(queue, s)
    /\ queue' = Shifted(queue, s)
    /\ UNCHANGED running

Next ==
    \/ \E e \in Ev, d \in Delays, s \in Steps : Add(e, d, s)
    \/ Expire \/ Finish \/ FreeAll
    \/ \E i \in 1 .. Len(queue) : Cancel(i)
    \/ \E s \in Steps : Advance(s)

Spec == Init /\ [][Next]_vars

TypeOK ==
    /\ queue \in Seq(Entry)
    /\ running \in Ev \cup {None}

(* No timer stands before one that expires earlier, whatever the order of   *)
(* arming and however the clock moves (expire_timers stops at the first     *)
(* timer that is not due).                                                  *)
InOrder ==
    \A j, k \in 1 .. Len(queue) : j < k => queue[j].left <= queue[k].left

(* An event is armed at most once, and not while its handler runs, so that  *)
(* expire_timers frees it once.                                             *)
OnceEach ==
    /\ \A j, k \in 1 .. Len(queue) : queue[j].ev = queue[k].ev => j = k
    /\ running \notin Events(queue)
=============================================================================
