--------------------------------- MODULE Qos ---------------------------------
(***************************************************************************)
(* The QoS session of the router daemon (src/tserver/tq_qos.c, the OPEN_QOS *)
(* and END_SPEED handlers of tq_req_resp.c, and the recovery code of        *)
(* main.c).  A phone asks for acceleration; every other leased device is    *)
(* rate limited through the router's nvram until the phone's time is over,  *)
(* and then the configuration found before the session is put back.         *)
(*                                                                          *)
(* The daemon is one thread: a request handler, or a whole expire_timers()  *)
(* loop, runs without any other handler in between.  The scripts it starts  *)
(* with system("... &"), the user's own changes to nvram, lease changes,    *)
(* signals and crashes interleave freely with it.                           *)
(***************************************************************************)
EXTENDS Integers, Sequences, FiniteSets

CONSTANTS
    Cips,           \* addresses of the phones that send requests
    NoIp,           \* an emptied qos_cli[i].ip
    CLI_MAX,        \* slots of the client table
    MaxTimes,       \* largest lease, in loop periods       (65535+19)/20
    ReqTimes,       \* the leases the requests of an instance ask for
    StartDelay,     \* seconds until start_qos runs                    (5)
    TIME_QOS,       \* seconds between two runs of qos_tm_handler     (20)
    Limits,         \* bandwidth limits a request may carry
    LeaseSets,      \* the sets of addresses udhcpd may have leased
    ListMax,        \* entries that fit in ip_qos_list[SIZE_BASE]
    UserCfgs,       \* nvram contents the user may write
    NoList, NoFile,
    EmptyFile,      \* a record that was created but not yet written
    Crashes,        \* which of "kill", "power", "signal" may happen
    Jumps,          \* may the wall clock jump forward?
    Waits,          \* what never comes while a qos.sh runs: a clock "tick"
                    \* (nor a lease change while handlers run), a "start"
                    \* of the daemon, a "request", a loss of "power",
                    \* the end of a "later" script; "reopen": nor a
                    \* session before the limits of the last are gone
    UserChanges,    \* may the user change nvram while the daemon runs?
    MaxTimers, MaxScripts   \* bounds of the model

OwnLists == [ips : SUBSET UNION LeaseSets, limit : Limits \cup {1}]
Lists == {NoList} \cup OwnLists \cup {u.list : u \in UserCfgs}
SavedCfg == [en : {0, 1}, list : Lists]
Nvram == [en : {0, 2}, list : Lists]

ASSUME QosAssumption ==
    /\ NoIp \notin Cips
    /\ CLI_MAX \in Nat \ {0}
    /\ MaxTimes \in Nat /\ ReqTimes \subseteq 0 .. MaxTimes
    /\ StartDelay \in Nat \ {0}
    /\ TIME_QOS \in Nat
    /\ StartDelay < TIME_QOS
    /\ ListMax \in Nat
    /\ Limits \subseteq Int
    /\ UserCfgs \subseteq Nvram
    /\ NoFile \notin SavedCfg /\ EmptyFile \notin SavedCfg
    /\ Crashes \subseteq {"kill", "power", "signal"}
    /\ Jumps \in BOOLEAN /\ UserChanges \in BOOLEAN
    /\ Waits \subseteq {"tick", "start", "request", "power", "later", "reopen"}
    /\ MaxTimers \in Nat /\ MaxScripts \in Nat

VARIABLES
    enable,      \* ctl->tq_qos.enable
    qos_cli,     \* ctl->tq_qos.qos_cli[]
    cli_cnt,     \* ctl->tq_qos.cli_cnt
    qos_tm_max,  \* ctl->tq_qos.qos_tm_max
    brandlimit,  \* ctl->tq_qos.brandlimit, 0 before the first request
    ip_list,     \* ctl->tq_qos.ip_list: the list the loop last applied
    saved,       \* cfg->qos: the configuration to put back
    file,        \* /data/qos_cfg.file
    timers,      \* the QoS timers of the timer tree, in expiry order
    daemon,      \* what the process is doing
    leases,      \* /var/udhcpd.leases
    nvram,       \* QoSEnable and IpQosList
    scripts      \* the qos.sh processes that are running

ctlVars == <<enable, qos_cli, cli_cnt, qos_tm_max, brandlimit, ip_list, saved>>
envVars == <<leases, nvram, scripts>>
vars == <<ctlVars, file, timers, daemon, envVars>>

Slots == 1 .. CLI_MAX
QosCli == [en : {0, 1}, ip : Cips \cup {NoIp}, times : 0 .. MaxTimes]
Timer == [handler : {"start", "loop"}, left : 0 .. TIME_QOS]
QosSh == [en : {0, 2}, list : Lists, step : {1, 2}]
Up == daemon \in {"wait", "expire"}

-----------------------------------------------------------------------------
(* The helpers of tq_qos.c.                                                 *)

EmptySlot == [en |-> 0, ip |-> NoIp, times |-> 0]
EnabledSlots(cli) == {i \in Slots : cli[i].en = 1}

(* Every slot of this address gets the new lease, then the first slot that  *)
(* is free or already its own is (re)written.                               *)
RecordNewClient(cli, c, t) ==
    LET fit == {i \in Slots : cli[i].en # 1 \/ cli[i].ip = c} IN
    [i \in Slots |->
        IF i \in fit /\ \A j \in fit : i <= j THEN [en |-> 1, ip |-> c, times |-> t]
        ELSE IF cli[i].ip = c THEN [cli[i] EXCEPT !.times = t]
        ELSE cli[i]]

(* Mutant: the end of a lease is tested with == 0.                          *)
AgedPastZero(cli) ==
    [i \in Slots |->
        IF cli[i].en # 1 THEN cli[i]
        ELSE IF cli[i].times = 1 THEN [cli[i] EXCEPT !.times = 0, !.en = 0]
        ELSE [cli[i] EXCEPT !.times = @ - 1]]

(* One period passes for every client; the ones that run out are disabled.  *)
Aged(cli) ==
    [i \in Slots |->
        IF cli[i].en # 1 THEN cli[i]
        ELSE IF cli[i].times <= 1 THEN [cli[i] EXCEPT !.times = 0, !.en = 0]
        ELSE [cli[i] EXCEPT !.times = @ - 1]]

LongestLease(cli, m) ==
    /\ \A i \in EnabledSlots(cli) : cli[i].times <= m
    /\ m = 0 \/ \E i \in EnabledSlots(cli) : cli[i].times = m

(* update_qos_info: age the given table and recompute both summaries.       *)
UpdateQosInfo(cli) ==
    /\ qos_cli' = Aged(cli)
    /\ cli_cnt' = Cardinality(EnabledSlots(Aged(cli)))
    /\ qos_tm_max' \in 0 .. MaxTimes
    /\ LongestLease(Aged(cli), qos_tm_max')

(* acquire_ip_qos_list: every leased address except the accelerated ones,   *)
(* at the last requested limit, or 1 Mbps when that is not positive.        *)
QosList(cli) ==
    [ips   |-> leases \ {cli[i].ip : i \in EnabledSlots(cli)},
     limit |-> IF brandlimit > 0 THEN brandlimit ELSE 1]
ListFails(l) == l.ips = {} \/ ~(Cardinality(l.ips) <= ListMax)

Script(e, l) == [en |-> e, list |-> l, step |-> 1]

(* Mutant: the applied list is put back, not the saved one.                 *)
RestoreApplied(c) == Script(IF c.en = 1 THEN 2 ELSE 0, ip_list)

RestoreScript(c) == Script(IF c.en = 1 THEN 2 ELSE 0, c.list)

(* Mutant: new timers go in front.                                          *)
ArmInFront(ts, h, s) ==
    [k \in 1 .. Len(ts) + 1 |-> IF k = 1 THEN [handler |-> h, left |-> s] ELSE ts[k - 1]]

(* tq_timer_new: after every timer that expires no later.                   *)
Arm(ts, h, s) ==
    LET before == {k \in DOMAIN ts : ts[k].left <= s}
        n == Cardinality(before)
    IN  [k \in 1 .. Len(ts) + 1 |->
            IF k <= n THEN ts[k]
            ELSE IF k = n + 1 THEN [handler |-> h, left |-> s]
            ELSE ts[k - 1]]

-----------------------------------------------------------------------------
NothingSaved == [en |-> 0, list |-> NoList]

(* server_init's memset of ser_ctl and cfg_ctl, with an empty timer tree.   *)
Init ==
    /\ enable = 0
    /\ qos_cli = [i \in Slots |-> EmptySlot]
    /\ cli_cnt = 0
    /\ qos_tm_max = 0
    /\ brandlimit = 0
    /\ ip_list = NoList
    /\ saved = NothingSaved
    /\ timers = <<>>
    /\ file = NoFile
    /\ daemon = "wait"
    /\ leases \in LeaseSets
    /\ nvram \in UserCfgs
    /\ scripts = <<>>

(* Mutant: the record is written before the configuration is read.          *)
OpenSessionRecordFirst(t) ==
    /\ enable = 0
    /\ Len(timers) + 2 <= MaxTimers
    /\ saved' = [en |-> IF nvram.en = 2 THEN 1 ELSE 0, list |-> nvram.list]
    /\ qos_tm_max' = t
    /\ cli_cnt' = 1
    /\ enable' = 1
    /\ file' = saved
    /\ timers' = Arm(Arm(timers, "start", StartDelay), "loop", TIME_QOS)

(* The first request of a session: the router's configuration is kept, in   *)
(* memory and in the file, and both timers are armed.                       *)
OpenSession(t) ==
    /\ enable = 0
    /\ Len(timers) + 2 <= MaxTimers
    /\ saved' = [en |-> IF nvram.en = 2 THEN 1 ELSE 0, list |-> nvram.list]
    /\ qos_tm_max' = t
    /\ cli_cnt' = 1
    /\ enable' = 1
    /\ file' = saved'
    /\ timers' = Arm(Arm(timers, "start", StartDelay), "loop", TIME_QOS)

RequestComes ==
    /\ daemon = "wait"
    /\ "request" \in Waits => scripts = <<>>
    /\ "reopen" \in Waits => enable = 1 \/ nvram.list \notin OwnLists

(* OPEN_QOS from phone c with brandqos set; t = (validtime+19)/20.          *)
(* A request with brandqos == 0 changes nothing.                            *)
StartQosReq(c, t, lim) ==
    /\ RequestComes
    /\ brandlimit' = lim
    /\ qos_cli' = RecordNewClient(qos_cli, c, t)
    /\ \/ /\ enable = 1
          /\ UNCHANGED <<enable, qos_tm_max, cli_cnt, saved, file, timers>>
       \/ OpenSession(t)
    /\ UNCHANGED <<ip_list, daemon, envVars>>

(* END_SPEED from phone c.  The timers stay armed.                          *)
StopSpeedReq(c) ==
    /\ daemon = "wait"
    /\ LET cleared == [i \in Slots |->
               IF qos_cli[i].ip = c THEN [qos_cli[i] EXCEPT !.en = 0, !.ip = NoIp]
               ELSE qos_cli[i]]
       IN  UpdateQosInfo(cleared)
    /\ enable' = IF cli_cnt' = 0 THEN 0 ELSE enable
    /\ UNCHANGED <<brandlimit, ip_list, saved, file, timers, daemon, envVars>>

(* The timer descriptor is readable: time_update() and expire_timers().     *)
Tick ==
    /\ daemon = "wait"
    /\ "tick" \in Waits => scripts = <<>>
    /\ timers' = [k \in DOMAIN timers |->
           [timers[k] EXCEPT !.left = IF @ > 0 THEN @ - 1 ELSE 0]]
    /\ daemon' = "expire"
    /\ UNCHANGED <<ctlVars, file, envVars>>

(* The same when the wall clock has jumped past every deadline.             *)
JumpTick ==
    /\ Jumps
    /\ daemon = "wait"
    /\ "tick" \in Waits => scripts = <<>>
    /\ timers # <<>>
    /\ timers' = [k \in DOMAIN timers |-> [timers[k] EXCEPT !.left = 0]]
    /\ daemon' = "expire"
    /\ UNCHANGED <<ctlVars, file, envVars>>

Due == timers # <<>> /\ Head(timers).left = 0

(* start_qos, run by expire_timers.                                         *)
StartQos ==
    /\ daemon = "expire" /\ Due /\ Head(timers).handler = "start"
    /\ timers' = Tail(timers)
    /\ LET list == QosList(qos_cli) IN
       \/ /\ ListFails(list)
          /\ UNCHANGED <<ip_list, scripts>>
       \/ /\ ~ListFails(list)
          /\ Len(scripts) < MaxScripts
          /\ ip_list' = list
          /\ scripts' = Append(scripts, Script(2, list))
    /\ UNCHANGED <<enable, qos_cli, cli_cnt, qos_tm_max, brandlimit, saved,
                   file, daemon, leases, nvram>>

(* Mutants: the last period of a lease is dropped; && for ||.               *)
SessionOverEarly ==
    \/ \A i \in EnabledSlots(Aged(qos_cli)) : Aged(qos_cli)[i].times <= 1
    \/ enable = 0
SessionOverOnlyWhenOff == EnabledSlots(Aged(qos_cli)) = {} /\ enable = 0

(* cli_cnt and qos_tm_max, just recomputed, are 0 when no slot is enabled.  *)
SessionOver == EnabledSlots(Aged(qos_cli)) = {} \/ enable = 0

(* The three ways out of qos_tm_handler, after update_qos_info.             *)
LoopListFails ==
    /\ ListFails(QosList(Aged(qos_cli)))
    /\ UpdateQosInfo(qos_cli)
    /\ timers' = Tail(timers)
    /\ UNCHANGED <<enable, ip_list, scripts>>

LoopRestores ==
    /\ ~ListFails(QosList(Aged(qos_cli)))
    /\ SessionOver
    /\ Len(scripts) < MaxScripts
    /\ qos_cli' = Aged(qos_cli)
    /\ cli_cnt' = 0
    /\ qos_tm_max' = 0
    /\ enable' = 0
    /\ scripts' = Append(scripts, RestoreScript(saved))
    /\ timers' = Tail(timers)
    /\ UNCHANGED ip_list

(* Mutant: a list that only lost entries is taken for the old one.          *)
RefreshIfLonger(list) ==
    \/ list.ips \subseteq ip_list.ips /\ UNCHANGED scripts
    \/ /\ ~(list.ips \subseteq ip_list.ips)
       /\ Len(scripts) < MaxScripts
       /\ scripts' = Append(scripts, Script(2, list))

(* A new list is applied; the one already applied is not.                   *)
Refresh(list) ==
    \/ list = ip_list /\ UNCHANGED scripts
    \/ /\ list # ip_list
       /\ Len(scripts) < MaxScripts
       /\ scripts' = Append(scripts, Script(2, list))

(* Mutant: the loop is not armed again.                                     *)
LoopContinuesOnce ==
    LET list == QosList(Aged(qos_cli)) IN
    /\ ~ListFails(list)
    /\ ~SessionOver
    /\ UpdateQosInfo(qos_cli)
    /\ Refresh(list)
    /\ ip_list' = list
    /\ timers' = Tail(timers)
    /\ UNCHANGED enable

LoopContinues ==
    LET list == QosList(Aged(qos_cli)) IN
    /\ ~ListFails(list)
    /\ ~SessionOver
    /\ UpdateQosInfo(qos_cli)
    /\ Refresh(list)
    /\ ip_list' = list
    /\ timers' = Arm(Tail(timers), "loop", TIME_QOS)
    /\ UNCHANGED enable

(* qos_tm_handler, run by expire_timers.                                    *)
QosTmHandler ==
    /\ daemon = "expire" /\ Due /\ Head(timers).handler = "loop"
    /\ LoopListFails \/ LoopRestores \/ LoopContinues
    /\ UNCHANGED <<brandlimit, saved, file, daemon, leases, nvram>>

(* expire_timers returns: no timer is due.                                  *)
ExpireReturn ==
    /\ daemon = "expire" /\ ~Due
    /\ daemon' = "wait"
    /\ UNCHANGED <<ctlVars, file, timers, envVars>>

-----------------------------------------------------------------------------
(* The end of the process, and its next start.                              *)

(* The memory of the process is gone; the next server_init finds it zeroed. *)
Forget ==
    /\ daemon' = "down"
    /\ enable' = 0
    /\ qos_cli' = [i \in Slots |-> EmptySlot]
    /\ cli_cnt' = 0
    /\ qos_tm_max' = 0
    /\ brandlimit' = 0
    /\ ip_list' = NoList
    /\ saved' = NothingSaved
    /\ timers' = <<>>

(* A killed process leaves its scripts running; a power loss does not.      *)
Die(how) ==
    /\ how \in Crashes
    /\ how \in Waits => scripts = <<>>
    /\ daemon # "down"
    /\ Forget
    /\ scripts' = IF how = "power" THEN <<>> ELSE scripts
    /\ UNCHANGED <<file, leases, nvram>>

(* record_qos_cfg_to_file removes the record, touches it and writes it: a   *)
(* process that dies in between leaves no record, or an empty one.          *)
DieRecording(how) ==
    /\ how \in Crashes
    /\ how \in Waits => scripts = <<>>
    /\ RequestComes /\ enable = 0
    /\ file' \in {NoFile, EmptyFile}
    /\ Forget
    /\ scripts' = IF how = "power" THEN <<>> ELSE scripts
    /\ UNCHANGED <<leases, nvram>>

(* Mutant: the record is never read.                                        *)
RestoresNothing == <<>>

(* reset_qos_config_from_file, when there is a file: json-c reads no object *)
(* from an empty one.                                                       *)
Restores == IF file \in {NoFile, EmptyFile} THEN <<>> ELSE <<RestoreScript(file)>>

(* sighandler interrupts epoll_wait, which then fails: the process exits.   *)
SignalInWait ==
    /\ "signal" \in Crashes
    /\ daemon = "wait"
    /\ Len(scripts) < MaxScripts
    /\ scripts' = scripts \o Restores
    /\ Forget
    /\ UNCHANGED <<file, leases, nvram>>

(* sighandler interrupts expire_timers: the handler returns, every timer is *)
(* freed and every descriptor closed, and epoll_wait blocks for ever.       *)
SignalInExpire ==
    /\ "signal" \in Crashes
    /\ daemon = "expire"
    /\ Len(scripts) < MaxScripts
    /\ scripts' = scripts \o Restores
    /\ timers' = <<>>
    /\ daemon' = "stuck"
    /\ UNCHANGED <<ctlVars, file, leases, nvram>>

(* A second signal finds fdis[] empty: the handler faults, runs again for   *)
(* SIGSEGV, faults again, and the process is gone.                          *)
SignalWhenStuck ==
    /\ "signal" \in Crashes
    /\ daemon = "stuck"
    /\ Len(scripts) < MaxScripts
    /\ scripts' = scripts \o Restores \o Restores
    /\ Forget
    /\ UNCHANGED <<file, leases, nvram>>

(* main: put back the configuration of an accident, remove the record.      *)
StartUp ==
    /\ daemon = "down"
    /\ "start" \in Waits => scripts = <<>>
    /\ Len(scripts) < MaxScripts
    /\ scripts' = scripts \o Restores
    /\ file' = NoFile
    /\ daemon' = "wait"
    /\ UNCHANGED <<ctlVars, timers, leases, nvram>>

-----------------------------------------------------------------------------
(* The environment.                                                         *)

(* One nvram_set of a running qos.sh.                                       *)
RunScript(k) ==
    /\ k \in DOMAIN scripts
    /\ "later" \in Waits => k = 1
    /\ \/ /\ scripts[k].step = 1
          /\ nvram' = [nvram EXCEPT !.en = scripts[k].en]
          /\ scripts' = [scripts EXCEPT ![k].step = 2]
       \/ /\ scripts[k].step = 2
          /\ nvram' = [nvram EXCEPT !.list = scripts[k].list]
          /\ scripts' = [j \in 1 .. Len(scripts) - 1 |->
                            scripts[IF j < k THEN j ELSE j + 1]]
    /\ UNCHANGED <<ctlVars, file, timers, daemon, leases>>

LeaseChange ==
    /\ "tick" \in Waits => daemon \in {"wait", "down"}
    /\ leases' \in LeaseSets \ {leases}
    /\ UNCHANGED <<ctlVars, file, timers, daemon, nvram, scripts>>

UserChange ==
    /\ UserChanges
    /\ nvram' \in UserCfgs \ {nvram}
    /\ UNCHANGED <<ctlVars, file, timers, daemon, leases, scripts>>

Requests ==
    \E c \in Cips :
        \/ \E t \in ReqTimes, lim \in Limits : StartQosReq(c, t, lim)
        \/ StopSpeedReq(c)

EventLoop == Tick \/ JumpTick \/ StartQos \/ QosTmHandler \/ ExpireReturn

Failures ==
    \/ \E how \in {"kill", "power"} : Die(how) \/ DieRecording(how)
    \/ SignalInWait \/ SignalInExpire \/ SignalWhenStuck \/ StartUp

Next ==
    \/ Requests \/ EventLoop \/ Failures
    \/ \E k \in 1 .. MaxScripts : RunScript(k)
    \/ LeaseChange \/ UserChange

Spec == Init /\ [][Next]_vars

(* The loop is driven by a periodic timer descriptor and the scripts are    *)
(* ordinary processes, so neither stops; requests and failures may.         *)
FairSpec ==
    /\ Spec
    /\ WF_vars(EventLoop)
    /\ WF_vars(StartUp)
    /\ WF_vars(\E k \in 1 .. MaxScripts : RunScript(k))

-----------------------------------------------------------------------------
(* The state of every variable is of the shape the C declarations give it.  *)
TypeOK ==
    /\ enable \in {0, 1}
    /\ qos_cli \in [Slots -> QosCli]
    /\ cli_cnt \in 0 .. CLI_MAX
    /\ qos_tm_max \in 0 .. MaxTimes
    /\ brandlimit \in Limits \cup {0}
    /\ ip_list \in Lists
    /\ saved \in SavedCfg
    /\ file \in SavedCfg \cup {NoFile, EmptyFile}
    /\ timers \in Seq(Timer)
    /\ daemon \in {"wait", "expire", "stuck", "down"}
    /\ leases \in LeaseSets
    /\ nvram \in Nvram
    /\ scripts \in Seq(QosSh)

(* When qos is off no client is left accelerated: a stop that leaves enable *)
(* behind, or a loop that clears it too early, breaks this                  *)
(* (tq_req_stop_speed, qos_tm_handler).                                     *)
OffMeansNoClients == enable = 0 => EnabledSlots(qos_cli) = {}

(* While a session is on, the configuration an accident would put back from *)
(* /data/qos_cfg.file is the one the session itself would put back          *)
(* (record_qos_cfg_to_file, main).                                          *)
BackupWhileOn == enable = 1 => file = saved

(* A session that is on has a loop timer to end it (qos_tm_handler either   *)
(* stops the loop, when it restores, or continues it).                      *)
LoopArmed ==
    Up /\ enable = 1 => \E k \in DOMAIN timers : timers[k].handler = "loop"

(* The list of limited devices is never empty nor too long: some leased     *)
(* device is not a phone, and every list fits in its buffer.                *)
ListsFit ==
    \A L \in LeaseSets :
        /\ L \ (Cips \cup {NoIp}) # {}
        /\ \A S \in SUBSET L : Cardinality(S) <= ListMax

(* Whatever start_qos applies, a later run of the loop can take back: every *)
(* pending start_qos has a pending loop run behind it.                      *)
StartBeforeLoop ==
    \A k \in DOMAIN timers : timers[k].handler = "start" =>
        \E j \in DOMAIN timers : j > k /\ timers[j].handler = "loop"

(* Our limits are not left behind in nvram: with qos off, nothing pending   *)
(* and no script running, nvram holds a list of ours only if such a list is *)
(* what the session took for the user's.                                    *)
QuiescentRestored ==
    Up /\ enable = 0 /\ timers = <<>> /\ scripts = <<>> =>
        (nvram.list \in OwnLists => saved.list \in OwnLists)

(* Once start_qos has run, a session keeps nvram at the list the loop       *)
(* compares with (qos_tm_handler refreshes only when ip_list differs).      *)
AppliedWhileOn ==
    (/\ Up /\ enable = 1 /\ scripts = <<>>
     /\ \A k \in DOMAIN timers : timers[k].handler # "start")
    => nvram = [en |-> 2, list |-> ip_list]

(* If the phones go quiet, the session times out and the user's             *)
(* configuration comes back and stays (the purpose of the loop timer).      *)
QuietRestores ==
    \/ []<><<Requests>>_vars
    \/ <>[](enable = 0 /\ (nvram.list \in OwnLists => saved.list \in OwnLists))

(* Limits of ours in nvram are on record for the next start: with no script *)
(* running, /data/qos_cfg.file can be read.  A crash amid the writing of it *)
(* comes before the first limits (record_qos_cfg_to_file, main).            *)
AccidentRecorded ==
    nvram.list \in OwnLists /\ scripts = <<>> => file \in SavedCfg

(* "store the qos config before our tserver" (tq_req_start_qos): what the   *)
(* session will put back is never one of the daemon's own lists.            *)
SavedIsPrior == saved.list \notin OwnLists

(* "Reset qos config cause an accident" (main): without an accident, when   *)
(* nvram holds a configuration of the user's, a start does not replace it.  *)
ResetOnlyAfterAccident ==
    [][StartUp /\ scripts = <<>> /\ nvram.list \notin OwnLists
       => \A k \in DOMAIN scripts' : scripts'[k].list = nvram.list]_vars
=============================================================================
