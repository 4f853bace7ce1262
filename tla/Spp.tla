---------------------------------- MODULE Spp ----------------------------------
(***************************************************************************)
(* Acceleration of the uplink: the daemon's side of OPEN_SPP and END_SPEED  *)
(* (src/tserver/tq_req_resp.c, nl.c), the tables of the kernel module it    *)
(* keeps in step by netlink messages (src/spp/spp_comm.c, spp_config.c),    *)
(* and the hook that lets the first copy of a packet pass and drops the     *)
(* others (src/spp/spp_network.c).                                          *)
(*                                                                          *)
(* A netlink message is handled by the kernel within sendmsg; the hook runs *)
(* on every processor at any time.  The daemon may be killed, signalled and *)
(* started again, and the router may lose its power.  (The downlink is in   *)
(* SppDump.)                                                                *)
(***************************************************************************)
EXTENDS Integers, FiniteSets

CONSTANTS
    Phones, Servers,
    Requests,       \* OPEN_SPP as phones send it: [phone, servers, trim]
    CLI_MAX,        \* slots of ipd[] and of ips[]                      (64)
    Cpus,
    Packets,        \* packets told apart by the hook: [from, to, ...]
    Width,          \* bits of jiffies                                  (32)
    FirstTrim,      \* cctx.trim when the module is loaded             (100)
    PERIOD,         \* jiffies from one run of the trim timer to the next
    MaxLate         \* jiffies a scheduled work item may wait

ASSUME SppAssumption ==
    /\ Phones \cap Servers = {}
    /\ Requests \subseteq [phone : Phones, servers : SUBSET Servers, trim : BOOLEAN]
    /\ \A k \in Packets : k.from \in Phones /\ k.to \in Servers
    /\ CLI_MAX \in Nat
    /\ Width \in Nat /\ 2^Width \in Nat \ {0}
    /\ FirstTrim \in Nat /\ FirstTrim > 0
    /\ PERIOD \in Nat \ {0}
    /\ MaxLate \in Nat

VARIABLES
    daemon,         \* "down", "wait", in a "request", in one and "signalled",
                    \* or "stuck" in epoll_wait without descriptors
    ipd, ips,       \* cfg->ipd[] and cfg->ips[]: the addresses entered
    todo,           \* the messages the request has still to send
    loaded,         \* is the kernel module loaded?
    cips, sips,     \* cctx.ht_cip and cctx.ht_sip
    trim,           \* cctx.trim
    jiffies,
    pkt,            \* ctx->pkt: when the entry of each packet expires
    trim_tm,        \* jiffies until the trim timer fires
    trim_wk,        \* 0, or for how many jiffies its work has been scheduled
    hook,           \* nf_network_up as it runs on each processor
    since, win,     \* history: jiffies since each packet was last recorded,
                    \* and the trim it was recorded with
    lost            \* history: the addresses of which the last message was lost

daemonVars == <<daemon, ipd, ips, todo>>
tableVars == <<loaded, cips, sips, trim, lost>>
packetVars == <<jiffies, pkt, trim_tm, trim_wk, hook, since, win>>
vars == <<daemonVars, tableVars, packetVars>>

Clock == 0 .. 2^Width - 1
NoEntry == 2^Width
LongAgo == 2^Width

Idle == [pc |-> "idle"]
AllIdle == \A c \in Cpus : hook[c] = Idle

-----------------------------------------------------------------------------
(* The module's life.                                                       *)

NoPackets ==
    /\ pkt' = [k \in Packets |-> NoEntry]
    /\ trim_tm' = PERIOD /\ trim_wk' = 0
    /\ hook' = [c \in Cpus |-> Idle]
    /\ since' = [k \in Packets |-> LongAgo] /\ win' = [k \in Packets |-> 0]

Emptied == cips' = {} /\ sips' = {} /\ lost' = {} /\ NoPackets

(* spp_init: insmod is one step for the daemon, which waits for it.         *)
Load ==
    /\ loaded' = TRUE
    /\ trim' = FirstTrim
    /\ jiffies' \in Clock
    /\ Emptied

(* spp_fini.                                                                *)
Unload ==
    /\ loaded' = FALSE
    /\ trim' = 0 /\ jiffies' = 0
    /\ Emptied

Init ==
    /\ daemon = "down" /\ ipd = {} /\ ips = {} /\ todo = {}
    /\ loaded = FALSE /\ cips = {} /\ sips = {} /\ trim = 0 /\ lost = {}
    /\ jiffies = 0
    /\ pkt = [k \in Packets |-> NoEntry]
    /\ trim_tm = PERIOD /\ trim_wk = 0
    /\ hook = [c \in Cpus |-> Idle]
    /\ since = [k \in Packets |-> LongAgo] /\ win = [k \in Packets |-> 0]

-----------------------------------------------------------------------------
(* The requests.  What the daemon enters and sends is settled when the      *)
(* request begins; the messages then go out one by one.                     *)

TrimSet(on) == [type |-> "TRIM_SET", on |-> on]
About(type, ips_) == [type : {type}, ip : ips_]

(* The gap first, then the phone, then the servers.                         *)
Rank(m) == CASE m.type = "TRIM_SET" -> 0
             [] m.type \in {"CIP_ADD", "CIP_DEL"} -> 1
             [] m.type = "SIP_ADD" -> 2
IsNext(m) == m \in todo /\ \A n \in todo : Rank(m) <= Rank(n)

(* Entered: those of some addresses that are not in the table yet, as many  *)
(* as find an empty slot, in whatever order the request names them.         *)
Entered(table, addresses) ==
    LET new == addresses \ table IN
    {e \in SUBSET new :
        \/ e = new /\ Cardinality(table) + Cardinality(new) <= CLI_MAX
        \/ e # new /\ Cardinality(table) + Cardinality(e) = CLI_MAX}

(* Mutant: the addresses that find no empty slot are sent as well.          *)
OpenSppUnlisted(r) ==
    /\ daemon = "wait"
    /\ daemon' = "request"
    /\ \E p \in Entered(ipd, {r.phone}), ss \in Entered(ips, r.servers) :
           /\ ipd' = ipd \cup p
           /\ ips' = ips \cup ss
           /\ todo' = {TrimSet(r.trim)} \cup About("CIP_ADD", {r.phone})
                                        \cup About("SIP_ADD", r.servers)
    /\ UNCHANGED <<tableVars, packetVars>>

(* tq_req_start_spp: the addresses are in ipd[] and ips[] before the kernel *)
(* is told, whatever becomes of the messages.  An address that does not     *)
(* parse is whatever the stack holds: any of r.servers may be that.         *)
OpenSpp(r) ==
    /\ daemon = "wait"
    /\ daemon' = "request"
    /\ \E p \in Entered(ipd, {r.phone}), ss \in Entered(ips, r.servers) :
           /\ ipd' = ipd \cup p
           /\ ips' = ips \cup ss
           /\ todo' = {TrimSet(r.trim)} \cup About("CIP_ADD", p) \cup About("SIP_ADD", ss)
    /\ UNCHANGED <<tableVars, packetVars>>

(* tq_req_stop_speed; the servers stay.                                     *)
StopSpeed(p) ==
    /\ daemon = "wait"
    /\ daemon' = "request"
    /\ ipd' = ipd \ {p}
    /\ todo' = About("CIP_DEL", ipd \cap {p})
    /\ UNCHANGED <<ips, tableVars, packetVars>>

(* The answer, which is "success"; after a signal the loop has nothing left *)
(* to wait for.                                                             *)
Respond ==
    /\ daemon \in {"request", "signalled"}
    /\ todo = {}
    /\ daemon' = IF daemon = "request" THEN "wait" ELSE "stuck"
    /\ UNCHANGED <<ipd, ips, todo, tableVars, packetVars>>

-----------------------------------------------------------------------------
(* spp_netlink_send_msg, and within it spp_comm_msg_process.                *)

Sent(m) == todo' = todo \ {m} /\ UNCHANGED <<daemon, ipd, ips>>

(* Mutant: the gap arrives as it was sent.                                  *)
SetTrimGap(m) ==
    /\ loaded /\ IsNext(m) /\ m.type = "TRIM_SET"
    /\ Sent(m)
    /\ trim' = IF m.on THEN 20 ELSE 0
    /\ UNCHANGED <<loaded, cips, sips, lost, packetVars>>

(* The gap becomes a bool on its way, and the window a jiffy.               *)
SetTrim(m) ==
    /\ loaded /\ IsNext(m) /\ m.type = "TRIM_SET"
    /\ Sent(m)
    /\ trim' = IF m.on THEN 1 ELSE 0
    /\ UNCHANGED <<loaded, cips, sips, lost, packetVars>>

Add(m) ==
    /\ loaded /\ IsNext(m) /\ m.type \in {"CIP_ADD", "SIP_ADD"}
    /\ Sent(m)
    /\ cips' = IF m.type = "CIP_ADD" THEN cips \cup {m.ip} ELSE cips
    /\ sips' = IF m.type = "SIP_ADD" THEN sips \cup {m.ip} ELSE sips
    /\ lost' = lost \ {m.ip}
    /\ UNCHANGED <<loaded, trim, packetVars>>

(* No memory for the entry, of which the daemon learns nothing.             *)
AddFails(m) ==
    /\ loaded /\ IsNext(m) /\ m.type \in {"CIP_ADD", "SIP_ADD"}
    /\ m.ip \notin cips \cup sips
    /\ Sent(m)
    /\ lost' = lost \cup {m.ip}
    /\ UNCHANGED <<loaded, cips, sips, trim, packetVars>>

Del(m) ==
    /\ loaded /\ IsNext(m) /\ m.type = "CIP_DEL"
    /\ Sent(m)
    /\ cips' = cips \ {m.ip}
    /\ lost' = lost \ {m.ip}
    /\ UNCHANGED <<loaded, sips, trim, packetVars>>

(* No socket, no memory, no module: the message is not sent again.          *)
SendFails(m) ==
    /\ IsNext(m)
    /\ Sent(m)
    /\ lost' = IF m.type = "TRIM_SET" THEN lost ELSE lost \cup {m.ip}
    /\ UNCHANGED <<loaded, cips, sips, trim, packetVars>>

Message(m) == SetTrim(m) \/ Add(m) \/ AddFails(m) \/ Del(m) \/ SendFails(m)

-----------------------------------------------------------------------------
(* nf_network_up: the tables are read one after the other, each under its   *)
(* lock; a hook in softirq context runs to completion, but so do others     *)
(* next to it.                                                              *)

Goes(c, to) ==
    /\ hook' = [hook EXCEPT ![c] = to]
    /\ UNCHANGED <<daemonVars, tableVars, jiffies, trim_tm, trim_wk>>
Untouched == UNCHANGED <<pkt, since, win>>

(* A packet that is not for the hook passes; it is not a step.              *)
NetworkUp(c, k) ==
    /\ loaded /\ hook[c] = Idle
    /\ trim > 0
    /\ k.from \in cips
    /\ Goes(c, [pc |-> "sip", packet |-> k]) /\ Untouched

MatchSip(c) ==
    /\ hook[c].pc = "sip"
    /\ Goes(c, IF hook[c].packet.to \in sips THEN [hook[c] EXCEPT !.pc = "add"] ELSE Idle)
    /\ Untouched

(* spp_hash_add under trim_lock; spp_packet_new reads the trim again, and   *)
(* adds it to jiffies.                                                      *)
Record(c) ==
    LET k == hook[c].packet IN
    /\ hook[c].pc = "add"
    /\ pkt[k] = NoEntry
    /\ pkt' = [pkt EXCEPT ![k] = (jiffies + trim) % 2^Width]
    /\ since' = [since EXCEPT ![k] = 0] /\ win' = [win EXCEPT ![k] = trim]
    /\ Goes(c, Idle)

RecordFails(c) ==
    /\ hook[c].pc = "add"
    /\ pkt[hook[c].packet] = NoEntry
    /\ Goes(c, Idle) /\ Untouched

(* -EEXIST.                                                                 *)
DropCopy(c) ==
    /\ hook[c].pc = "add"
    /\ pkt[hook[c].packet] # NoEntry
    /\ Goes(c, Idle) /\ Untouched

Hook(c) == MatchSip(c) \/ Record(c) \/ RecordFails(c) \/ DropCopy(c)

-----------------------------------------------------------------------------
(* Time, and the work that removes entries.                                 *)

Jiffy ==
    /\ loaded
    /\ trim_tm > 0 /\ trim_wk <= MaxLate
    /\ jiffies' = (jiffies + 1) % 2^Width
    /\ trim_tm' = trim_tm - 1
    /\ trim_wk' = IF trim_wk > 0 THEN trim_wk + 1 ELSE 0
    /\ since' = [k \in Packets |-> IF since[k] < LongAgo THEN since[k] + 1 ELSE LongAgo]
    /\ UNCHANGED <<daemonVars, tableVars, pkt, hook, win>>

(* spp_trim_timer_cb; schedule_work does nothing if it is scheduled.        *)
TrimTimerCb ==
    /\ trim_tm = 0
    /\ trim_wk' = IF trim_wk > 0 THEN trim_wk ELSE 1
    /\ trim_tm' = PERIOD
    /\ UNCHANGED <<daemonVars, tableVars, jiffies, pkt, hook, since, win>>

(* Mutants: the comparison the wrong way round; without the equality.       *)
NotExpired(k) == pkt[k] # NoEntry /\ pkt[k] > jiffies
LongExpired(k) == pkt[k] # NoEntry /\ pkt[k] < jiffies

(* pkt_timeout.                                                             *)
Expired(k) == pkt[k] # NoEntry /\ pkt[k] <= jiffies

(* An entry removed after its window: the history of it ends.               *)
Over(k) == Expired(k) /\ since[k] >= win[k]

(* spp_trim_work_cb: spp_hash_visit under trim_lock.                        *)
TrimWorkCb ==
    /\ trim_wk > 0
    /\ trim_wk' = 0
    /\ pkt' = [k \in Packets |-> IF Expired(k) THEN NoEntry ELSE pkt[k]]
    /\ since' = [k \in Packets |-> IF Over(k) THEN LongAgo ELSE since[k]]
    /\ win' = [k \in Packets |-> IF Over(k) THEN 0 ELSE win[k]]
    /\ UNCHANGED <<daemonVars, tableVars, jiffies, trim_tm, hook>>

-----------------------------------------------------------------------------
(* Failures and restarts.                                                   *)

ForgetDaemon == daemon' = "down" /\ ipd' = {} /\ ips' = {} /\ todo' = {}

(* Killed, or aborted by an assertion: the module stays as it is.           *)
Kill ==
    /\ daemon # "down"
    /\ ForgetDaemon
    /\ lost' = cips \cup sips
    /\ UNCHANGED <<loaded, cips, sips, trim, packetVars>>

(* sighandler unloads the module, and the process ends (in epoll_wait, or   *)
(* by the second signal when it is stuck).  The hooks are waited for; the   *)
(* work is not, and if it runs after the module is gone the kernel faults,  *)
(* which leaves what a loss of power does.                                  *)
Signal ==
    /\ daemon \in {"wait", "stuck"}
    /\ AllIdle /\ trim_wk = 0
    /\ ForgetDaemon
    /\ Unload

(* The socket of the request holds the module, so that rmmod fails.         *)
SignalInRequest ==
    /\ daemon = "request"
    /\ daemon' = "signalled"
    /\ UNCHANGED <<ipd, ips, todo, tableVars, packetVars>>

PowerLoss == ForgetDaemon /\ Unload

(* server_init.  insmod fails on a module that is loaded, and otherwise may *)
(* fail; the daemon goes on in either case.                                 *)
StartUp ==
    /\ daemon = "down"
    /\ daemon' = "wait"
    /\ \/ ~loaded /\ Load
       \/ UNCHANGED <<tableVars, packetVars>>
    /\ UNCHANGED <<ipd, ips, todo>>

Next ==
    \/ \E r \in Requests : OpenSpp(r)
    \/ \E p \in Phones : StopSpeed(p)
    \/ \E m \in todo : Message(m)
    \/ Respond
    \/ \E c \in Cpus : Hook(c) \/ \E k \in Packets : NetworkUp(c, k)
    \/ Jiffy \/ TrimTimerCb \/ TrimWorkCb
    \/ Kill \/ Signal \/ SignalInRequest \/ PowerLoss \/ StartUp

Spec == Init /\ [][Next]_vars

-----------------------------------------------------------------------------
Messages == [type : {"TRIM_SET"}, on : BOOLEAN]
                \cup About("CIP_ADD", Phones) \cup About("CIP_DEL", Phones)
                \cup About("SIP_ADD", Servers)

TypeOK ==
    /\ daemon \in {"down", "wait", "request", "signalled", "stuck"}
    /\ ipd \subseteq Phones /\ ips \subseteq Servers
    /\ todo \subseteq Messages
    /\ loaded \in BOOLEAN
    /\ cips \subseteq Phones /\ sips \subseteq Servers
    /\ trim \in {0, 1, FirstTrim}
    /\ jiffies \in Clock
    /\ pkt \in [Packets -> Clock \cup {NoEntry}]
    /\ trim_tm \in 0 .. PERIOD /\ trim_wk \in 0 .. MaxLate + 1
    /\ hook \in [Cpus -> {Idle} \cup [pc : {"sip", "add"}, packet : Packets]]
    /\ since \in [Packets -> 0 .. LongAgo]
    /\ win \in [Packets -> {0, 1, FirstTrim}]
    /\ lost \subseteq Phones \cup Servers

Pending == {m.ip : m \in {n \in todo : n.type # "TRIM_SET"}}

(* An address is in the kernel's table exactly if it is in the daemon's,    *)
(* through any number of requests, restarts and failures, unless the last   *)
(* message about it was lost or is still to be sent, or the daemon was      *)
(* killed since (tq_req_start_spp, tq_req_stop_speed, server_init).  So the *)
(* first message that arrives again puts an address right.                  *)
TablesAgree ==
    \A a \in (Phones \cup Servers) \ (lost \cup Pending) :
        a \in ipd \cup ips <=> a \in cips \cup sips

(* jiffies has wrapped around since packet k was recorded, or will before   *)
(* its window ends.                                                         *)
Wraps(k) == since[k] > jiffies \/ jiffies - since[k] + win[k] > 2^Width - 1

(* A window that was switched off while the hook ran lasts for the rest of  *)
(* the jiffy.                                                               *)
Window(k) == IF win[k] = 0 THEN 1 ELSE win[k]

(* nf_network_up lets no second copy of a packet pass within the window,    *)
(* however the copies, the messages, the timer and its work interleave, but *)
(* for the wrap-around.                                                     *)
OneCopyPasses ==
    [][\A c \in Cpus : Record(c) \/ RecordFails(c) =>
           LET k == hook[c].packet IN since[k] >= win[k] \/ Wraps(k)]_vars

(* It drops a packet only if an equal one passed not long before: entries   *)
(* are removed within a period of the timer after they expired (and the     *)
(* time the work may wait), but for the wrap-around.                        *)
FirstCopyPasses ==
    [][\A c \in Cpus : DropCopy(c) =>
           LET k == hook[c].packet IN
           since[k] < Window(k) + PERIOD + MaxLate \/ Wraps(k)]_vars
=============================================================================
