-------------------------------- MODULE Server --------------------------------
(***************************************************************************)
(* The daemon's event loop (src/tserver/tserver.c), the dispatch of         *)
(* requests (tq_req_resp.c) and the diagnosis (tq_diag.c): a phone asks for *)
(* the state of the router, and a timer takes a sample of it every few      *)
(* seconds, into a ring, until a phone ends it.                             *)
(*                                                                          *)
(* The sockets are edge triggered: epoll_wait reports one when a datagram   *)
(* has come since the last report, and the loop then reads one datagram.    *)
(* Phones repeat a request until it is answered; the network loses          *)
(* datagrams, and a full socket drops them without waking the loop.         *)
(***************************************************************************)
EXTENDS Integers, Sequences, FiniteSets

CONSTANTS
    Phones, Socks,
    Patient,        \* the phones that send a request until it is answered
    Datagrams,      \* what phones send: [from, to, type, missing]
    NoRequest,
    SIZE_DIAG,      \* slots of the ring                               (12)
    PERIOD,         \* seconds from a sample to the next                (5)
    MaxAge,         \* ages are told apart up to here, in seconds
    MaxLate,        \* seconds the loop may be late for a timer
    SockMax,        \* datagrams a socket holds
    MaxLoops        \* sampling loops of an instance

(* The handlers that only read and answer: tq_req_get_ver and               *)
(* tq_req_get_auth, which serves two types.                                 *)
Reading == {"GET_VER", "REQ_AUTH", "DIAG_AUTH"}

(* The handlers that take values out of the contents, and so assert that    *)
(* they are JSON (tq_json_get_int and _string).                             *)
Parsing == {"REQ_AUTH", "DIAG_AUTH", "OPEN_INFO", "END_INFO"}

Types == Reading \cup {"OPEN_INFO", "END_INFO", "UNDEF"}

ASSUME ServerAssumption ==
    /\ Datagrams \subseteq [from : Phones, to : Socks, type : Types, missing : Nat]
    /\ NoRequest \notin Datagrams
    /\ Patient \subseteq Phones
    /\ SIZE_DIAG \in Nat /\ SIZE_DIAG > 1
    /\ PERIOD \in Nat \ {0}
    /\ MaxAge \in Nat /\ MaxLate \in Nat
    /\ SockMax \in Nat \ {0}
    /\ MaxLoops \in Nat \ {0}
    /\ "timerfd" \notin Socks

VARIABLES
    enable,         \* ctl->tq_diagnose.enable
    last_index,     \* ctl->tq_diagnose.last_index
    diagnoses,      \* the age of each sample, Empty where memset left none
    loops,          \* seconds left of each diagnosis timer in the tree
    queue,          \* the datagrams in each socket
    ready,          \* the descriptors epoll will look at
    events,         \* those epoll_wait returned that are still to be served
    pc,             \* "wait", serving "events", in "expire"_timers, "down"
    asked           \* the request each patient phone wants answered

diagVars == <<enable, last_index, diagnoses, loops>>
vars == <<diagVars, queue, ready, events, pc, asked>>

Indices == 0 .. SIZE_DIAG - 1
Empty == MaxAge + 1

NextSlot(i) == IF i = SIZE_DIAG - 1 THEN 0 ELSE i + 1
Previous(i) == IF i = 0 THEN SIZE_DIAG - 1 ELSE i - 1
NoSamples == [i \in Indices |-> Empty]

(* server_init and timer_init: the control block and the tree are empty.    *)
Cleared ==
    /\ enable' = 0 /\ last_index' = 0
    /\ diagnoses' = NoSamples /\ loops' = <<>>
    /\ queue' = [s \in Socks |-> <<>>] /\ ready' = {} /\ events' = {}

Init ==
    /\ enable = 0 /\ last_index = 0
    /\ diagnoses = NoSamples /\ loops = <<>>
    /\ queue = [s \in Socks |-> <<>>] /\ ready = {} /\ events = {}
    /\ pc = "wait"
    /\ asked = [p \in Patient |-> NoRequest]

-----------------------------------------------------------------------------
(* The phones and the network.                                              *)

(* A patient phone has a new request.                                       *)
Ask(d) ==
    /\ d.from \in Patient
    /\ asked[d.from] = NoRequest
    /\ asked' = [asked EXCEPT ![d.from] = d]
    /\ UNCHANGED <<diagVars, queue, ready, events, pc>>

(* The bound of the instance: no more loops than these can come about.      *)
Opening == {x \in Socks \X (1 .. SockMax) :
                /\ x[2] \in DOMAIN queue[x[1]]
                /\ queue[x[1]][x[2]].type = "OPEN_INFO"}
AtBound == Len(loops) + Cardinality(Opening) >= MaxLoops

(* A datagram arrives: epoll will look at its socket.                       *)
Arrive(d) ==
    /\ pc # "down"
    /\ d.from \in Patient => asked[d.from] = d
    /\ Len(queue[d.to]) < SockMax
    /\ d.type = "OPEN_INFO" => ~AtBound
    /\ queue' = [queue EXCEPT ![d.to] = Append(@, d)]
    /\ ready' = ready \cup {d.to}
    /\ UNCHANGED <<diagVars, events, pc, asked>>

-----------------------------------------------------------------------------
(* The event loop.                                                          *)

(* A second passes: the timerfd fires, timers come nearer.  expire_timers   *)
(* does not take as long.                                                   *)
Second ==
    /\ pc # "expire"
    /\ \A k \in DOMAIN loops : loops[k] > -MaxLate
    /\ diagnoses' = [i \in Indices |-> IF diagnoses[i] < MaxAge THEN diagnoses[i] + 1
                                       ELSE diagnoses[i]]
    /\ loops' = [k \in DOMAIN loops |-> loops[k] - 1]
    /\ ready' = IF pc = "down" THEN ready ELSE ready \cup {"timerfd"}
    /\ UNCHANGED <<enable, last_index, queue, events, pc, asked>>

(* What epoll_wait returns: of the descriptors to look at, the readable.    *)
Reported == {s \in ready \cap Socks : queue[s] # <<>>} \cup (ready \cap {"timerfd"})

EpollWait ==
    /\ pc = "wait"
    /\ Reported # {}
    /\ events' = Reported
    /\ ready' = {}
    /\ pc' = "events"
    /\ UNCHANGED <<diagVars, queue, asked>>

EventsDone ==
    /\ pc = "events" /\ events = {}
    /\ pc' = "wait"
    /\ UNCHANGED <<diagVars, queue, ready, events, asked>>

(* Mutant: the timer takes as long as the ring.                             *)
ArmForRound(ts) == Append(ts, PERIOD * SIZE_DIAG)

(* tq_timer_new, among the diagnosis timers: none expires later than a new  *)
(* one, so that the sequence is in the order of expiry.                     *)
Arm(ts) == Append(ts, PERIOD)

(* Mutant: the samples of an earlier diagnosis stay.                        *)
GetDiagOverOld ==
    IF enable = 0
    THEN /\ enable' = 1
         /\ loops' = Arm(loops)
         /\ UNCHANGED <<last_index, diagnoses>>
    ELSE UNCHANGED diagVars

(* tq_req_get_diag: the first request arms the loop and empties the ring.   *)
GetDiag ==
    \/ /\ enable = 0
       /\ enable' = 1
       /\ loops' = Arm(loops)
       /\ diagnoses' = NoSamples
       /\ UNCHANGED last_index
    \/ /\ enable # 0
       /\ UNCHANGED diagVars

(* tq_req_stop_diag.                                                        *)
StopDiag ==
    /\ enable' = 0
    /\ UNCHANGED <<last_index, diagnoses, loops>>

(* Mutant: a request of no known type gets no answer.                       *)
HandleKnown(d) ==
    /\ \/ d.type = "OPEN_INFO" /\ GetDiag
       \/ d.type = "END_INFO" /\ StopDiag
       \/ d.type \notin {"OPEN_INFO", "END_INFO"} /\ UNCHANGED diagVars
    /\ asked' = [p \in Patient |->
                    IF asked[p] = d /\ d.type # "UNDEF" THEN NoRequest ELSE asked[p]]
    /\ UNCHANGED pc

(* tq_request_parse: the handler of each type, then the answer.             *)
Handle(d) ==
    /\ \/ d.type = "OPEN_INFO" /\ GetDiag
       \/ d.type = "END_INFO" /\ StopDiag
       \/ d.type \notin {"OPEN_INFO", "END_INFO"} /\ UNCHANGED diagVars
    /\ asked' = [p \in Patient |-> IF asked[p] = d THEN NoRequest ELSE asked[p]]
    /\ UNCHANGED pc

(* Up to two missing bytes pass the check of the length, but the last       *)
(* cipher block then decrypts to something else, which may be part of the   *)
(* contents or only of the padding: tq_json.c asserts that they are JSON.   *)
Garbled(d) == d.missing > 0 /\ d.type \in Parsing

(* calc_trac_dealt: a host the earlier sample does not name is in the list  *)
(* of the later one and in that of the differences, and is freed with each. *)
FreedTwice(d) ==
    /\ d.type = "OPEN_INFO" /\ enable = 1
    /\ diagnoses[last_index] # Empty

MayFail(d) == Garbled(d) \/ FreedTwice(d)

(* tq_ser_recv_req: one datagram per event.                                 *)
RecvReq(s) ==
    LET d == Head(queue[s]) IN
    /\ pc = "events" /\ s \in events
    /\ events' = events \ {s}
    /\ queue' = [queue EXCEPT ![s] = Tail(@)]
    /\ UNCHANGED ready
    /\ \/ d.missing > 2 /\ UNCHANGED <<diagVars, pc, asked>>
       \/ /\ d.missing <= 2
          /\ Handle(d)

(* The process ends within the request, by an assertion or a fault.         *)
Aborts(s) ==
    LET d == Head(queue[s]) IN
    /\ pc = "events" /\ s \in events
    /\ d.missing <= 2
    /\ MayFail(d)
    /\ pc' = "down"
    /\ Cleared
    /\ UNCHANGED asked

(* Started again from outside.                                              *)
StartUp ==
    /\ pc = "down"
    /\ pc' = "wait"
    /\ UNCHANGED <<diagVars, queue, ready, events, asked>>

(* The timerfd is read, and expire_timers begins.                           *)
ReadTimer ==
    /\ pc = "events" /\ "timerfd" \in events
    /\ events' = events \ {"timerfd"}
    /\ pc' = "expire"
    /\ UNCHANGED <<diagVars, queue, ready, asked>>

(* Mutant: timers that expire within a second are taken for due.            *)
FirstIsNear == loops # <<>> /\ Head(loops) <= 1

FirstIsDue == loops # <<>> /\ Head(loops) <= 0

(* Mutants: the loop goes on once round the ring; it goes on for ever.      *)
GoesOnceRound == enable = 1 /\ NextSlot(last_index) # 0
GoesOnForEver == TRUE

GoesOn == enable = 1

(* diag_tm_handler: a sample into the next slot, whether or not the         *)
(* diagnosis is still on; only then the slot counts and the loop goes on.   *)
DiagTmHandler ==
    /\ pc = "expire"
    /\ FirstIsDue
    /\ diagnoses' = [diagnoses EXCEPT ![NextSlot(last_index)] = 0]
    /\ \/ /\ GoesOn
          /\ last_index' = NextSlot(last_index)
          /\ loops' = Arm(Tail(loops))
       \/ /\ ~GoesOn
          /\ loops' = Tail(loops)
          /\ UNCHANGED last_index
    /\ UNCHANGED <<enable, queue, ready, events, pc, asked>>

ExpireDone ==
    /\ pc = "expire"
    /\ ~FirstIsDue
    /\ pc' = "events"
    /\ UNCHANGED <<diagVars, queue, ready, events, asked>>

Loop ==
    \/ EpollWait \/ EventsDone
    \/ ReadTimer \/ DiagTmHandler \/ ExpireDone
    \/ \E s \in Socks : RecvReq(s) \/ Aborts(s)

Next ==
    \/ \E d \in Datagrams : Ask(d) \/ Arrive(d)
    \/ Second
    \/ Loop
    \/ StartUp

Spec == Init /\ [][Next]_vars

(* The loop runs, the process is started again, time goes on; and of the    *)
(* datagrams a patient phone keeps sending, some arrive.                    *)
FairSpec ==
    /\ Spec
    /\ WF_vars(Loop) /\ WF_vars(StartUp) /\ WF_vars(Second)
    /\ \A p \in Patient : SF_vars(\E d \in Datagrams : d.from = p /\ Arrive(d))

-----------------------------------------------------------------------------
TypeOK ==
    /\ enable \in {0, 1}
    /\ last_index \in Indices
    /\ diagnoses \in [Indices -> 0 .. Empty]
    /\ loops \in Seq(-MaxLate .. PERIOD)
    /\ queue \in [Socks -> Seq(Datagrams)]
    /\ ready \subseteq Socks \cup {"timerfd"}
    /\ events \subseteq Socks \cup {"timerfd"}
    /\ pc \in {"wait", "events", "expire", "down"}
    /\ asked \in [Patient -> Datagrams \cup {NoRequest}]

(* A diagnosis that is on has a timer that will take the next sample, in    *)
(* whatever order phones open and end it (tq_req_get_diag arms one only     *)
(* when it was off, diag_tm_handler only when it is still on).              *)
LoopWhileEnabled == enable = 1 => loops # <<>>

(* From the last sample backwards the ring goes from new to old and then to *)
(* empty slots, so that the differences tq_req_get_diag answers are of      *)
(* samples in their order, none of them from an earlier diagnosis.          *)
RingInOrder ==
    enable = 1 =>
        \A i \in Indices \ {NextSlot(last_index)} : diagnoses[i] <= diagnoses[Previous(i)]

(* What is answered as "_5" spans five seconds, if the diagnosis has one    *)
(* loop: two samples that follow each other are a period apart, or as much  *)
(* more as the loop was late.                                               *)
EvenlySpaced ==
    enable = 1 /\ Len(loops) = 1 =>
        \A i \in Indices \ {NextSlot(last_index)} :
            diagnoses[Previous(i)] < MaxAge =>
                diagnoses[Previous(i)] - diagnoses[i] \in PERIOD .. PERIOD + MaxLate

(* A diagnosis that has been ended, and is not opened again, stops taking   *)
(* samples (diag_tm_handler does not arm the timer again).                  *)
LoopsEnd == enable = 0 ~> (enable = 1 \/ loops = <<>>)

(* A full socket that epoll no longer looks at: the backlog of earlier      *)
(* coincidences has used it up, and a datagram it has no room for does not  *)
(* wake the loop.                                                           *)
Deaf(s) == Len(queue[s]) = SockMax /\ s \notin ready \cup events

(* A phone that keeps sending its request is answered (one datagram is read *)
(* per event, but every datagram is an event), unless the socket is deaf or *)
(* a request that fails ends the process meanwhile.                         *)
EveryRequestAnswered ==
    \A d \in Datagrams :
        d.from \in Patient /\ d.missing <= 2 =>
            asked[d.from] = d ~> \/ asked[d.from] # d
                                 \/ Deaf(d.to) \/ pc = "down"
                                 \/ d.type = "OPEN_INFO" /\ AtBound
=============================================================================
