------------------------------- MODULE SppProofs -------------------------------
(***************************************************************************)
(* Proofs about Spp, for any number of phones, servers, slots, processors   *)
(* and packets, any width of jiffies, trim, period and lateness.            *)
(***************************************************************************)
EXTENDS Spp, TLAPS

(* What the messages still to be sent say of the daemon's tables, and where *)
(* there are none.                                                          *)
TodoInv ==
    /\ \A m \in todo : /\ m.type = "CIP_ADD" => m.ip \in ipd
                       /\ m.type = "CIP_DEL" => m.ip \notin ipd
                       /\ m.type = "SIP_ADD" => m.ip \in ips
    /\ daemon \notin {"request", "signalled"} => todo = {}
    /\ daemon = "down" => ipd = {} /\ ips = {}
    /\ ~loaded => cips = {} /\ sips = {}

(* Where the entry of a packet is while its window lasts.                   *)
KeptInv ==
    \A k \in Packets :
        since[k] < win[k] /\ ~Wraps(k) => pkt[k] = jiffies - since[k] + win[k]

DaemonTypes ==
    /\ daemon \in {"down", "wait", "request", "signalled", "stuck"}
    /\ ipd \subseteq Phones /\ ips \subseteq Servers
    /\ todo \subseteq Messages

TableTypes ==
    /\ loaded \in BOOLEAN
    /\ cips \subseteq Phones /\ sips \subseteq Servers
    /\ trim \in {0, 1, FirstTrim}
    /\ lost \subseteq Phones \cup Servers

HookState == {Idle} \cup [pc : {"sip", "add"}, packet : Packets]

PacketTypes ==
    /\ jiffies \in Clock
    /\ pkt \in [Packets -> Clock \cup {NoEntry}]
    /\ trim_tm \in 0 .. PERIOD /\ trim_wk \in 0 .. MaxLate + 1
    /\ hook \in [Cpus -> HookState]
    /\ since \in [Packets -> 0 .. LongAgo]
    /\ win \in [Packets -> {0, 1, FirstTrim}]

DaemonInv == DaemonTypes /\ TableTypes /\ TodoInv /\ TablesAgree
PacketInv == PacketTypes /\ KeptInv
IInv == DaemonInv /\ PacketInv

LEMMA Types == IInv => TypeOK
BY DEF IInv, DaemonInv, PacketInv, DaemonTypes, TableTypes, PacketTypes, HookState, TypeOK

-----------------------------------------------------------------------------
(* Numbers.                                                                 *)

LEMMA ClockFacts == /\ 2^Width \in Nat \ {0}
                    /\ Clock = 0 .. 2^Width - 1
                    /\ NoEntry = 2^Width /\ LongAgo = 2^Width
                    /\ 0 \in Clock
BY SppAssumption DEF Clock, NoEntry, LongAgo

(* A packet whose window has not met the wrap-around.                       *)
LEMMA NotWrapped ==
    /\ \A k : since[k] \in Int /\ win[k] \in Int /\ jiffies \in Int /\ ~Wraps(k) =>
           since[k] <= jiffies /\ jiffies - since[k] + win[k] < LongAgo
    /\ \A k : since'[k] \in Int /\ win'[k] \in Int /\ jiffies' \in Int /\ ~Wraps(k)' =>
           since'[k] <= jiffies' /\ jiffies' - since'[k] + win'[k] < LongAgo
<1> DEFINE n == 2^Width
<1>1. n \in Int /\ LongAgo = n
    BY ClockFacts
<1>2. \A k : /\ Wraps(k) <=> since[k] > jiffies \/ jiffies - since[k] + win[k] > n - 1
             /\ Wraps(k)' <=> since'[k] > jiffies' \/ jiffies' - since'[k] + win'[k] > n - 1
    BY DEF Wraps
<1> HIDE DEF n
<1> QED BY <1>1, <1>2

LEMMA Wrapped ==
    ASSUME NEW n \in Nat \ {0}, NEW t \in Nat
    PROVE  t % n \in 0 .. n - 1 /\ (t < n => t % n = t)
BY SMT

-----------------------------------------------------------------------------
(* An empty module.                                                         *)

LEMMA NoPacketsHolds ==
    ASSUME NoPackets, jiffies' \in Clock
    PROVE  PacketInv'
<1>1. NoEntry \in Clock \cup {NoEntry} /\ LongAgo \in 0 .. LongAgo
    BY ClockFacts
<1>2. PacketTypes'
    BY <1>1, SppAssumption DEF NoPackets, PacketTypes, HookState
<1>3. KeptInv'
    BY ClockFacts DEF NoPackets, KeptInv
<1> QED BY <1>2, <1>3 DEF PacketInv

LEMMA InitHolds == Init => IInv
<1> SUFFICES ASSUME Init PROVE IInv
    OBVIOUS
<1>1. NoEntry \in Clock \cup {NoEntry} /\ LongAgo \in 0 .. LongAgo /\ 0 \in Clock
    BY ClockFacts
<1>2. PacketTypes
    BY <1>1, SppAssumption DEF Init, PacketTypes, HookState
<1>3. KeptInv
    BY ClockFacts DEF Init, KeptInv
<1>4. DaemonTypes /\ TableTypes /\ TodoInv /\ TablesAgree
    BY DEF Init, DaemonTypes, TableTypes, TodoInv, TablesAgree, Pending
<1> QED BY <1>2, <1>3, <1>4 DEF IInv, DaemonInv, PacketInv

LEMMA LoadHolds ==
    ASSUME DaemonInv, Load, daemon = "down", daemon' = "wait", UNCHANGED <<ipd, ips, todo>>
    PROVE  IInv'
<1>1. PacketInv'
    BY NoPacketsHolds DEF Load, Emptied
<1>2. ipd' = {} /\ ips' = {} /\ todo' = {} /\ cips' = {} /\ sips' = {} /\ lost' = {}
    BY DEF DaemonInv, TodoInv, Load, Emptied
<1>3. DaemonTypes' /\ TableTypes' /\ TodoInv' /\ TablesAgree'
    BY <1>2 DEF Load, DaemonTypes, TableTypes, TodoInv, TablesAgree
<1> QED BY <1>1, <1>3 DEF IInv, DaemonInv

LEMMA UnloadHolds ==
    ASSUME ForgetDaemon, Unload
    PROVE  IInv'
<1>1. PacketInv'
    BY NoPacketsHolds, ClockFacts DEF Unload, Emptied
<1>2. DaemonTypes' /\ TableTypes' /\ TodoInv' /\ TablesAgree'
    BY DEF ForgetDaemon, Unload, Emptied, DaemonTypes, TableTypes, TodoInv, TablesAgree
<1> QED BY <1>1, <1>2 DEF IInv, DaemonInv

-----------------------------------------------------------------------------
(* The requests.                                                            *)

LEMMA SamePackets == PacketInv /\ UNCHANGED packetVars => PacketInv'
BY DEF PacketInv, PacketTypes, KeptInv, Wraps, packetVars

LEMMA SameDaemon == DaemonInv /\ UNCHANGED <<daemonVars, tableVars>> => DaemonInv'
BY DEF DaemonInv, DaemonTypes, TableTypes, TodoInv, TablesAgree, Pending, daemonVars, tableVars

LEMMA PendingHas ==
    /\ \A m \in todo : m.type # "TRIM_SET" => m.ip \in Pending
    /\ \A m \in todo' : m.type # "TRIM_SET" => m.ip \in Pending'
BY DEF Pending

LEMMA OpenSppKeeps ==
    ASSUME IInv, NEW r \in Requests, OpenSpp(r)
    PROVE  IInv'
<1> DEFINE msgs(p, ss) ==
        {TrimSet(r.trim)} \cup About("CIP_ADD", p) \cup About("SIP_ADD", ss)
<1>1. r.phone \in Phones /\ r.servers \subseteq Servers /\ r.trim \in BOOLEAN
    BY SppAssumption
<1>2. PICK p \in Entered(ipd, {r.phone}), ss \in Entered(ips, r.servers) :
          ipd' = ipd \cup p /\ ips' = ips \cup ss /\ todo' = msgs(p, ss)
    BY DEF OpenSpp
<1>3. p \subseteq Phones \ ipd /\ ss \subseteq Servers \ ips
    BY <1>1, <1>2 DEF Entered
<1>4. DaemonTypes'
  <2>1. todo' \subseteq Messages
      BY <1>1, <1>2, <1>3 DEF Messages, TrimSet, About
  <2> QED BY <1>2, <1>3, <2>1 DEF OpenSpp, IInv, DaemonInv, DaemonTypes
<1>5. TableTypes'
    BY DEF OpenSpp, IInv, DaemonInv, TableTypes, tableVars
<1>6. TodoInv'
  <2>1. \A m \in todo' : /\ m.type = "CIP_ADD" => m.ip \in ipd'
                         /\ m.type = "CIP_DEL" => m.ip \notin ipd'
                         /\ m.type = "SIP_ADD" => m.ip \in ips'
      BY <1>2 DEF TrimSet, About
  <2> QED BY <2>1 DEF OpenSpp, IInv, DaemonInv, TodoInv, tableVars
<1>7. TablesAgree'
  <2>1. Pending = {}
      BY DEF OpenSpp, IInv, DaemonInv, TodoInv, Pending
  <2>2. p \subseteq Pending' /\ ss \subseteq Pending'
    <3>1. \A a \in p : [type |-> "CIP_ADD", ip |-> a] \in todo'
        BY <1>2 DEF About
    <3>2. \A a \in ss : [type |-> "SIP_ADD", ip |-> a] \in todo'
        BY <1>2 DEF About
    <3> QED BY <3>1, <3>2, PendingHas
  <2>3. UNCHANGED <<cips, sips, lost>>
      BY DEF OpenSpp, tableVars
  <2> QED BY <1>2, <2>1, <2>2, <2>3 DEF IInv, DaemonInv, TablesAgree
<1> QED BY <1>4, <1>5, <1>6, <1>7, SamePackets DEF IInv, DaemonInv, OpenSpp

LEMMA StopSpeedKeeps ==
    ASSUME IInv, NEW p \in Phones, StopSpeed(p)
    PROVE  IInv'
<1>1. DaemonTypes'
    BY DEF StopSpeed, IInv, DaemonInv, DaemonTypes, Messages, About
<1>2. TableTypes'
    BY DEF StopSpeed, IInv, DaemonInv, TableTypes, tableVars
<1>3. TodoInv'
    BY DEF StopSpeed, IInv, DaemonInv, TodoInv, tableVars, About
<1>4. TablesAgree'
  <2>1. Pending = {}
      BY DEF StopSpeed, IInv, DaemonInv, TodoInv, Pending
  <2>2. ipd \cap {p} \subseteq Pending'
    <3>1. \A a \in ipd \cap {p} : [type |-> "CIP_DEL", ip |-> a] \in todo'
        BY DEF StopSpeed, About
    <3> QED BY <3>1, PendingHas
  <2>3. UNCHANGED <<ips, cips, sips, lost>> /\ ipd' = ipd \ {p}
      BY DEF StopSpeed, tableVars
  <2>4. ASSUME NEW a \in (Phones \cup Servers) \ (lost' \cup Pending')
        PROVE  a \in ipd' \cup ips' <=> a \in cips' \cup sips'
    <3>1. a \notin lost \cup Pending /\ a \notin ipd \cap {p}
        BY <2>1, <2>2, <2>3, <2>4
    <3> QED BY <2>3, <2>4, <3>1 DEF IInv, DaemonInv, TablesAgree
  <2> QED BY <2>4 DEF TablesAgree
<1> QED BY <1>1, <1>2, <1>3, <1>4, SamePackets DEF IInv, DaemonInv, StopSpeed

-----------------------------------------------------------------------------
(* The messages.  Of a message that has been sent the address is either     *)
(* right in both tables or lost; about the others nothing changes.          *)

LEMMA MessageTyped ==
    ASSUME DaemonTypes, NEW m \in todo
    PROVE  /\ m.type \in {"TRIM_SET", "CIP_ADD", "CIP_DEL", "SIP_ADD"}
           /\ m.type \in {"CIP_ADD", "CIP_DEL"} => m.ip \in Phones
           /\ m.type = "SIP_ADD" => m.ip \in Servers
BY DEF DaemonTypes, Messages, About

LEMMA AfterSent ==
    ASSUME DaemonInv, NEW m \in todo, Sent(m)
    PROVE  /\ DaemonTypes'
           /\ \A n \in todo' : /\ n.type = "CIP_ADD" => n.ip \in ipd'
                               /\ n.type = "CIP_DEL" => n.ip \notin ipd'
                               /\ n.type = "SIP_ADD" => n.ip \in ips'
           /\ daemon' \notin {"request", "signalled"} => todo' = {}
           /\ daemon' = "down" => ipd' = {} /\ ips' = {}
           /\ m.type # "TRIM_SET" => Pending \subseteq Pending' \cup {m.ip}
           /\ m.type = "TRIM_SET" => Pending \subseteq Pending'
BY DEF Sent, DaemonInv, DaemonTypes, TodoInv, Pending

LEMMA MessageKeeps ==
    ASSUME IInv, NEW m \in todo, Message(m)
    PROVE  IInv'
<1>1. DaemonInv /\ DaemonTypes /\ TableTypes /\ TodoInv /\ TablesAgree
    BY DEF IInv, DaemonInv
<1>2. Sent(m) /\ UNCHANGED packetVars /\ loaded' = loaded
    BY DEF Message, SetTrim, Add, AddFails, Del, SendFails
<1>3. ipd' = ipd /\ ips' = ips
    BY <1>2 DEF Sent
<1>4. TableTypes'
    BY <1>1, MessageTyped DEF Message, SetTrim, Add, AddFails, Del, SendFails, TableTypes
<1>5. TodoInv'
  <2>1. ~loaded' => cips' = {} /\ sips' = {}
      BY <1>1 DEF Message, SetTrim, Add, AddFails, Del, SendFails, TodoInv
  <2> QED BY <1>1, <1>2, <2>1, AfterSent DEF TodoInv
<1>6. TablesAgree'
  <2> SUFFICES ASSUME NEW a \in Phones \cup Servers, a \notin lost', a \notin Pending'
               PROVE  a \in ipd \cup ips <=> a \in cips' \cup sips'
      BY <1>3 DEF TablesAgree
  <2>1. a \notin lost \cup Pending => (a \in ipd \cup ips <=> a \in cips \cup sips)
      BY <1>1 DEF TablesAgree
  <2>2. CASE m.type = "TRIM_SET"
    <3>1. UNCHANGED <<cips, sips, lost>>
        BY <2>2 DEF Message, SetTrim, Add, AddFails, Del, SendFails
    <3> QED BY <1>1, <1>2, <2>1, <2>2, <3>1, AfterSent
  <2>3. CASE m.type # "TRIM_SET" /\ a # m.ip
    <3>1. (a \in lost' <=> a \in lost) /\ (a \in cips' <=> a \in cips) /\ (a \in sips' <=> a \in sips)
        BY <2>3 DEF Message, SetTrim, Add, AddFails, Del, SendFails
    <3> QED BY <1>1, <1>2, <2>1, <2>3, <3>1, AfterSent
  <2>4. CASE m.type # "TRIM_SET" /\ a = m.ip
    <3>1. CASE Add(m)
        BY <1>1, <2>4, <3>1, MessageTyped DEF Add, TodoInv
    <3>2. CASE Del(m)
      <4>1. m.ip \notin ipd /\ m.ip \in Phones /\ cips' = cips \ {m.ip} /\ sips' = sips
          BY <1>1, <3>2, MessageTyped DEF Del, TodoInv
      <4> QED BY <1>1, <2>4, <4>1, SppAssumption DEF DaemonTypes, TableTypes
    <3>3. CASE AddFails(m) \/ SendFails(m)
        BY <2>4, <3>3 DEF AddFails, SendFails
    <3>4. CASE SetTrim(m)
        BY <2>4, <3>4 DEF SetTrim
    <3> QED BY <3>1, <3>2, <3>3, <3>4 DEF Message
  <2> QED BY <2>2, <2>3, <2>4
<1> QED BY <1>1, <1>2, <1>4, <1>5, <1>6, AfterSent, SamePackets DEF IInv, DaemonInv

-----------------------------------------------------------------------------
(* The daemon's other steps.                                                *)

LEMMA KillKeeps ==
    ASSUME IInv, Kill
    PROVE  IInv'
<1>1. DaemonTypes' /\ TableTypes' /\ TodoInv' /\ TablesAgree'
    BY DEF Kill, ForgetDaemon, IInv, DaemonInv, DaemonTypes, TableTypes, TodoInv, TablesAgree
<1> QED BY <1>1, SamePackets DEF IInv, DaemonInv, Kill

LEMMA OtherStepsKeep ==
    ASSUME IInv, Respond \/ SignalInRequest \/ StartUp
    PROVE  IInv'
<1>1. CASE StartUp /\ Load
    BY <1>1, LoadHolds DEF StartUp, IInv
<1>2. CASE /\ Respond \/ SignalInRequest \/ StartUp
           /\ UNCHANGED <<ipd, ips, todo, tableVars, packetVars>>
  <2>1. DaemonTypes' /\ TableTypes' /\ TablesAgree'
      BY <1>2 DEF Respond, SignalInRequest, StartUp, IInv, DaemonInv, DaemonTypes, TableTypes,
         TablesAgree, Pending, tableVars
  <2>2. TodoInv'
      BY <1>2 DEF Respond, SignalInRequest, StartUp, IInv, DaemonInv, TodoInv, tableVars
  <2> QED BY <1>2, <2>1, <2>2, SamePackets DEF IInv, DaemonInv
<1> QED BY <1>1, <1>2 DEF Respond, SignalInRequest, StartUp

-----------------------------------------------------------------------------
(* The hook and the timer.                                                  *)

LEMMA RecordKeeps ==
    ASSUME IInv, NEW c \in Cpus, Record(c)
    PROVE  PacketInv'
<1> DEFINE n == 2^Width
           k == hook[c].packet
           e == (jiffies + trim) % n
<1>1. n \in Nat \ {0} /\ Clock = 0 .. n - 1 /\ NoEntry = n /\ LongAgo = n
    BY ClockFacts
<1>2. jiffies \in 0 .. n - 1 /\ trim \in Nat /\ trim \in {0, 1, FirstTrim}
    BY <1>1, SppAssumption DEF IInv, DaemonInv, PacketInv, TableTypes, PacketTypes
<1>3. k \in Packets
    BY DEF Record, IInv, PacketInv, PacketTypes, HookState, Idle
<1>4. /\ pkt' = [pkt EXCEPT ![k] = e]
      /\ since' = [since EXCEPT ![k] = 0] /\ win' = [win EXCEPT ![k] = trim]
      /\ hook' = [hook EXCEPT ![c] = Idle]
      /\ UNCHANGED <<jiffies, trim_tm, trim_wk>>
    BY DEF Record, Goes
<1>5. e \in 0 .. n - 1 /\ (jiffies + trim < n => e = jiffies + trim)
  <2>1. jiffies + trim \in Nat
      BY <1>1, <1>2
  <2> HIDE DEF n
  <2> QED BY <1>1, <2>1, Wrapped
<1> HIDE DEF n, e, k
<1>6. PacketTypes'
    BY <1>1, <1>2, <1>3, <1>4, <1>5 DEF IInv, PacketInv, PacketTypes, HookState
<1>7. KeptInv'
  <2> SUFFICES ASSUME NEW j \in Packets, since'[j] < win'[j], ~Wraps(j)'
               PROVE  pkt'[j] = jiffies' - since'[j] + win'[j]
      BY DEF KeptInv
  <2>1. CASE j = k
    <3>1. since'[j] = 0 /\ win'[j] = trim /\ pkt'[j] = e
        BY <1>3, <1>4, <2>1 DEF IInv, PacketInv, PacketTypes
    <3>2. jiffies - 0 + trim < n
        BY <1>1, <1>2, <1>4, <3>1, NotWrapped
    <3> QED BY <1>1, <1>2, <1>4, <1>5, <3>1, <3>2
  <2>2. CASE j # k
    <3>1. since'[j] = since[j] /\ win'[j] = win[j] /\ pkt'[j] = pkt[j]
        BY <1>3, <1>4, <2>2 DEF IInv, PacketInv, PacketTypes
    <3> QED BY <1>4, <3>1 DEF Wraps, IInv, PacketInv, KeptInv
  <2> QED BY <2>1, <2>2
<1> QED BY <1>6, <1>7 DEF PacketInv

LEMMA OtherHooksKeep ==
    ASSUME PacketInv, NEW c \in Cpus,
           Untouched, UNCHANGED <<jiffies, trim_tm, trim_wk>>,
           NEW h \in HookState, hook' = [hook EXCEPT ![c] = h]
    PROVE  PacketInv'
BY DEF PacketInv, PacketTypes, KeptInv, Wraps, Untouched

LEMMA HookKeeps ==
    ASSUME IInv, NEW c \in Cpus, Hook(c) \/ \E k \in Packets : NetworkUp(c, k)
    PROVE  IInv'
<1>1. DaemonInv'
    BY SameDaemon DEF IInv, Hook, NetworkUp, MatchSip, Record, RecordFails, DropCopy, Goes
<1>2. CASE Record(c)
    BY <1>1, <1>2, RecordKeeps DEF IInv
<1>3. CASE RecordFails(c) \/ DropCopy(c)
    BY <1>1, <1>3, OtherHooksKeep DEF IInv, RecordFails, DropCopy, Goes, HookState
<1>4. CASE MatchSip(c)
  <2>1. hook[c] \in [pc : {"sip", "add"}, packet : Packets]
      BY <1>4 DEF MatchSip, IInv, PacketInv, PacketTypes, HookState, Idle
  <2>2. [hook[c] EXCEPT !.pc = "add"] \in HookState /\ Idle \in HookState
      BY <2>1 DEF HookState
  <2> QED BY <1>1, <1>4, <2>2, OtherHooksKeep DEF IInv, MatchSip, Goes
<1>5. CASE \E k \in Packets : NetworkUp(c, k)
    BY <1>1, <1>5, OtherHooksKeep DEF IInv, NetworkUp, Goes, HookState
<1> QED BY <1>2, <1>3, <1>4, <1>5 DEF Hook

LEMMA JiffyKeeps ==
    ASSUME IInv, Jiffy
    PROVE  IInv'
<1> DEFINE n == 2^Width
<1>1. n \in Nat \ {0} /\ Clock = 0 .. n - 1 /\ NoEntry = n /\ LongAgo = n
    BY ClockFacts
<1>2. /\ jiffies \in 0 .. n - 1 /\ trim_tm \in 0 .. PERIOD /\ trim_wk \in 0 .. MaxLate + 1
      /\ since \in [Packets -> 0 .. n] /\ win \in [Packets -> {0, 1, FirstTrim}]
    BY <1>1 DEF IInv, PacketInv, PacketTypes
<1>3. /\ jiffies' = (jiffies + 1) % n
      /\ trim_tm > 0 /\ trim_wk <= MaxLate
      /\ trim_tm' = trim_tm - 1
      /\ trim_wk' = IF trim_wk > 0 THEN trim_wk + 1 ELSE 0
      /\ since' = [k \in Packets |-> IF since[k] < n THEN since[k] + 1 ELSE n]
      /\ UNCHANGED <<pkt, hook, win>>
    BY <1>1 DEF Jiffy
<1>4. jiffies' \in 0 .. n - 1 /\ (jiffies' = jiffies + 1 \/ jiffies' = 0)
  <2> HIDE DEF n
  <2>1. n \in Nat \ {0} /\ jiffies \in 0 .. n - 1 /\ jiffies' = (jiffies + 1) % n
    BY Zenon, <1>1, <1>2, <1>3
  <2>2. CASE jiffies + 1 = n
    <3>1. n % n = 0 BY <2>1
    <3> QED BY <2>1, <2>2, <3>1
  <2>3. CASE jiffies + 1 < n
    <3>1. (jiffies + 1) % n = jiffies + 1 BY <2>1, <2>3
    <3> QED BY <2>1, <2>3, <3>1
  <2> QED BY <2>1, <2>2, <2>3
<1> HIDE DEF n
<1>5. PacketTypes'
  <2>1. since' \in [Packets -> 0 .. n]
      BY <1>1, <1>2, <1>3
  <2>2. trim_tm' \in 0 .. PERIOD /\ trim_wk' \in 0 .. MaxLate + 1
      BY <1>2, <1>3, SppAssumption
  <2> QED BY <1>1, <1>3, <1>4, <2>1, <2>2 DEF IInv, PacketInv, PacketTypes
<1>6. KeptInv'
  <2> SUFFICES ASSUME NEW k \in Packets, since'[k] < win'[k], ~Wraps(k)'
               PROVE  pkt'[k] = jiffies' - since'[k] + win'[k]
      BY DEF KeptInv
  <2>1. since'[k] <= jiffies' /\ jiffies' - since'[k] + win'[k] <= n - 1
    <3>1. since'[k] \in Int /\ win'[k] \in Int /\ jiffies' \in Int
        BY <1>2, <1>3, <1>4, <1>1, SppAssumption
    <3> QED BY <1>1, <3>1, NotWrapped
  <2>2. since[k] \in 0 .. n /\ win[k] \in Nat /\ win' = win /\ pkt' = pkt
      BY <1>2, <1>3, SppAssumption
  <2>3. since[k] < n
      BY <1>1, <1>3, <1>4, <2>1, <2>2
  <2>4. since'[k] = since[k] + 1
      BY <1>3, <2>3
  <2>5. jiffies' = jiffies + 1
      BY <1>4, <2>1, <2>2, <2>4
  <2>6. since[k] <= jiffies /\ jiffies - since[k] + win[k] <= n - 1 /\ since[k] < win[k]
      BY <1>2, <2>1, <2>2, <2>4, <2>5
  <2>7. pkt[k] = jiffies - since[k] + win[k]
      BY <1>1, <1>2, <2>2, <2>6 DEF IInv, PacketInv, KeptInv, Wraps, n
  <2> QED BY <1>2, <2>2, <2>4, <2>5, <2>7
<1>7. DaemonInv'
    BY SameDaemon DEF IInv, Jiffy
<1> QED BY <1>5, <1>6, <1>7 DEF IInv, PacketInv

LEMMA TrimWorkCbKeeps ==
    ASSUME IInv, TrimWorkCb
    PROVE  IInv'
<1> DEFINE n == 2^Width
<1>1. n \in Nat \ {0} /\ Clock = 0 .. n - 1 /\ NoEntry = n /\ LongAgo = n
    BY ClockFacts
<1>2. /\ jiffies \in 0 .. n - 1 /\ pkt \in [Packets -> 0 .. n]
      /\ since \in [Packets -> 0 .. n] /\ win \in [Packets -> {0, 1, FirstTrim}]
    BY <1>1 DEF IInv, PacketInv, PacketTypes
<1>3. /\ pkt' = [k \in Packets |-> IF Expired(k) THEN n ELSE pkt[k]]
      /\ since' = [k \in Packets |-> IF Over(k) THEN n ELSE since[k]]
      /\ win' = [k \in Packets |-> IF Over(k) THEN 0 ELSE win[k]]
      /\ trim_wk' = 0
      /\ UNCHANGED <<jiffies, trim_tm, hook>>
    BY <1>1 DEF TrimWorkCb
<1>4. PacketTypes'
    BY <1>1, <1>2, <1>3, SppAssumption DEF IInv, PacketInv, PacketTypes
<1>5. KeptInv'
  <2> SUFFICES ASSUME NEW k \in Packets, since'[k] < win'[k], ~Wraps(k)'
               PROVE  pkt'[k] = jiffies' - since'[k] + win'[k]
      BY DEF KeptInv
  <2>1. ~Over(k)
      BY <1>1, <1>3
  <2>2. since'[k] = since[k] /\ win'[k] = win[k] /\ jiffies' = jiffies
      BY <1>3, <2>1
  <2>3. pkt[k] = jiffies - since[k] + win[k]
      BY <2>2 DEF Wraps, IInv, PacketInv, KeptInv
  <2>4. ~Expired(k)
    <3>1. since[k] \in Int /\ win[k] \in Int /\ jiffies \in Int
        BY <1>1, <1>2, SppAssumption
    <3>2. pkt[k] > jiffies
        BY <2>2, <2>3, <3>1
    <3> QED BY <3>1, <3>2, <2>3 DEF Expired
  <2> QED BY <1>3, <2>2, <2>3, <2>4
<1>6. DaemonInv'
    BY SameDaemon DEF IInv, TrimWorkCb
<1> QED BY <1>4, <1>5, <1>6 DEF IInv, PacketInv

LEMMA TrimTimerCbKeeps ==
    ASSUME IInv, TrimTimerCb
    PROVE  IInv'
<1>1. PacketTypes'
    BY SppAssumption DEF TrimTimerCb, IInv, PacketInv, PacketTypes
<1>2. KeptInv'
    BY DEF TrimTimerCb, IInv, PacketInv, KeptInv, Wraps
<1>3. DaemonInv'
    BY SameDaemon DEF IInv, TrimTimerCb
<1> QED BY <1>1, <1>2, <1>3 DEF IInv, PacketInv

-----------------------------------------------------------------------------
LEMMA NextKeeps == IInv /\ [Next]_vars => IInv'
<1> SUFFICES ASSUME IInv, [Next]_vars PROVE IInv'
    OBVIOUS
<1>1. ASSUME NEW r \in Requests, OpenSpp(r) PROVE IInv'
    BY <1>1, OpenSppKeeps
<1>2. ASSUME NEW p \in Phones, StopSpeed(p) PROVE IInv'
    BY <1>2, StopSpeedKeeps
<1>3. ASSUME NEW m \in todo, Message(m) PROVE IInv'
    BY <1>3, MessageKeeps
<1>4. ASSUME NEW c \in Cpus, Hook(c) \/ \E k \in Packets : NetworkUp(c, k) PROVE IInv'
    BY <1>4, HookKeeps
<1>5. CASE Jiffy \/ TrimTimerCb \/ TrimWorkCb
    BY <1>5, JiffyKeeps, TrimTimerCbKeeps, TrimWorkCbKeeps
<1>6. CASE Respond \/ SignalInRequest \/ StartUp
    BY <1>6, OtherStepsKeep
<1>7. CASE Kill
    BY <1>7, KillKeeps
<1>8. CASE Signal \/ PowerLoss
    BY <1>8, UnloadHolds DEF Signal, PowerLoss
<1>9. CASE UNCHANGED vars
    BY <1>9, SameDaemon, SamePackets DEF IInv, vars
<1> QED BY <1>1, <1>2, <1>3, <1>4, <1>5, <1>6, <1>7, <1>8, <1>9 DEF Next

LEMMA Invariant == Spec => []IInv
<1>1. Init => IInv
    BY InitHolds
<1>2. IInv /\ [Next]_vars => IInv'
    BY NextKeeps
<1> QED BY <1>1, <1>2, PTL DEF Spec

(* The variables of the daemon, the module and the hook keep their types;   *)
(* in particular the trim is 1 jiffy after the first request, whatever the  *)
(* phones ask for (spp_comm_msg_process).                                   *)
THEOREM TypeCorrect == Spec => []TypeOK
<1>1. IInv => TypeOK
    BY Types
<1> QED BY <1>1, Invariant, PTL

(* The tables of the daemon and the kernel agree on every address but the   *)
(* lost ones, whatever fails and whenever the daemon is signalled, killed   *)
(* and started again (tq_req_start_spp, tq_req_stop_speed, server_init).    *)
THEOREM TablesStayInStep == Spec => []TablesAgree
<1>1. IInv => TablesAgree
    BY DEF IInv, DaemonInv
<1> QED BY <1>1, Invariant, PTL

(* No second copy of a packet passes nf_network_up within its window, on    *)
(* however many processors the copies come in, but for the wrap-around.     *)
THEOREM SecondCopiesDropped == Spec => OneCopyPasses
<1> DEFINE Fine == \A c \in Cpus : Record(c) \/ RecordFails(c) =>
                       LET k == hook[c].packet IN since[k] >= win[k] \/ Wraps(k)
<1>1. ASSUME IInv PROVE Fine
  <2> SUFFICES ASSUME NEW c \in Cpus, Record(c) \/ RecordFails(c)
               PROVE  since[hook[c].packet] >= win[hook[c].packet] \/ Wraps(hook[c].packet)
      BY Zenon
  <2> DEFINE k == hook[c].packet
  <2>1. /\ jiffies \in Clock /\ hook[c] \in HookState
        /\ since \in [Packets -> 0 .. LongAgo] /\ win \in [Packets -> {0, 1, FirstTrim}]
      BY <1>1 DEF IInv, PacketInv, PacketTypes
  <2>2. k \in Packets
      BY <2>1 DEF Record, RecordFails, HookState, Idle
  <2>3. pkt[k] = LongAgo
      BY ClockFacts DEF Record, RecordFails
  <2>4. since[k] \in Int /\ win[k] \in Int /\ jiffies \in Int /\ LongAgo \in Int
    <3>1. LongAgo \in Int /\ jiffies \in Int
        BY <2>1, ClockFacts
    <3> QED BY <2>1, <2>2, <3>1, SppAssumption
  <2>5. CASE since[k] < win[k] /\ ~Wraps(k)
    <3>1. LongAgo = jiffies - since[k] + win[k]
        BY <1>1, <2>2, <2>3, <2>5 DEF IInv, PacketInv, KeptInv
    <3>2. jiffies - since[k] + win[k] < LongAgo
        BY <2>4, <2>5, NotWrapped
    <3> QED BY <2>4, <3>1, <3>2
  <2> QED BY <2>4, <2>5
<1>2. IInv /\ [Next]_vars => [Fine]_vars
    BY <1>1
<1> QED BY <1>2, Invariant, PTL DEF OneCopyPasses, Spec

-----------------------------------------------------------------------------
(* How old an entry can get.  An entry is where its window ends; once that  *)
(* has passed, either the timer has not fired since, and fires within a     *)
(* period of it, or its work has been scheduled since.                      *)
Due(k) ==
    \/ since[k] < Window(k)
    \/ since[k] - Window(k) + trim_tm < PERIOD
    \/ trim_wk > 0 /\ since[k] - Window(k) < PERIOD + trim_wk - 1

EntryInv ==
    \A k \in Packets : pkt[k] # NoEntry /\ ~Wraps(k) =>
        pkt[k] = jiffies - since[k] + win[k] /\ Due(k)

LEMMA SameEntries ==
    EntryInv /\ UNCHANGED <<pkt, jiffies, since, win, trim_tm, trim_wk>> => EntryInv'
BY DEF EntryInv, Due, Wraps, Window

LEMMA EntryTypes ==
    ASSUME IInv, NEW k \in Packets
    PROVE  /\ jiffies \in Nat /\ trim_tm \in Nat /\ trim_wk \in Nat /\ trim \in Nat
           /\ since[k] \in Nat /\ win[k] \in Nat /\ Window(k) \in Nat /\ Window(k) >= 1
           /\ Window(k) = win[k] \/ (win[k] = 0 /\ Window(k) = 1)
           /\ jiffies < LongAgo /\ since[k] <= LongAgo /\ LongAgo \in Nat \ {0}
           /\ PERIOD \in Nat \ {0} /\ MaxLate \in Nat
           /\ trim_tm <= PERIOD /\ trim_wk <= MaxLate + 1
<1>1. LongAgo \in Nat \ {0} /\ Clock = 0 .. LongAgo - 1
    BY ClockFacts
<1>2. since[k] \in 0 .. LongAgo /\ win[k] \in {0, 1, FirstTrim} /\ jiffies \in 0 .. LongAgo - 1
      /\ trim_tm \in 0 .. PERIOD /\ trim_wk \in 0 .. MaxLate + 1 /\ trim \in {0, 1, FirstTrim}
    BY <1>1 DEF IInv, DaemonInv, PacketInv, PacketTypes, TableTypes
<1>3. FirstTrim \in Nat \ {0} /\ PERIOD \in Nat \ {0} /\ MaxLate \in Nat
    BY SppAssumption
<1> QED BY <1>1, <1>2, <1>3 DEF Window

(* A new entry is at the end of its window, which is still to pass.         *)
LEMMA RecordEntry ==
    ASSUME IInv, EntryInv, NEW c \in Cpus, Record(c)
    PROVE  EntryInv'
<1> DEFINE n == 2^Width
           k == hook[c].packet
           e == (jiffies + trim) % n
<1>1. k \in Packets
    BY DEF Record, IInv, PacketInv, PacketTypes, HookState, Idle
<1>2. /\ pkt' = [pkt EXCEPT ![k] = e]
      /\ since' = [since EXCEPT ![k] = 0] /\ win' = [win EXCEPT ![k] = trim]
      /\ UNCHANGED <<jiffies, trim_tm, trim_wk>>
    BY DEF Record, Goes
<1>3. pkt \in [Packets -> Clock \cup {NoEntry}] /\ since \in [Packets -> 0 .. LongAgo]
      /\ win \in [Packets -> {0, 1, FirstTrim}] /\ LongAgo = n /\ n \in Nat \ {0}
    BY ClockFacts DEF IInv, PacketInv, PacketTypes
<1>4. jiffies + trim < n => e = jiffies + trim
  <2>1. jiffies + trim \in Nat
      BY <1>1, EntryTypes
  <2> HIDE DEF n
  <2> QED BY <1>3, <2>1, Wrapped
<1> HIDE DEF n, e, k
<1> SUFFICES ASSUME NEW j \in Packets, pkt'[j] # NoEntry, ~Wraps(j)'
             PROVE  pkt'[j] = jiffies' - since'[j] + win'[j] /\ Due(j)'
    BY DEF EntryInv
<1>5. CASE j = k
  <2>1. since'[j] = 0 /\ win'[j] = trim /\ pkt'[j] = e
      BY <1>2, <1>3, <1>5
  <2>2. jiffies - 0 + trim < n
    <3>1. since'[j] \in Int /\ win'[j] \in Int /\ jiffies' \in Int
        BY <1>1, <1>2, <2>1, EntryTypes
    <3> QED BY <1>2, <1>3, <2>1, <3>1, NotWrapped
  <2>3. trim \in Nat /\ jiffies \in Nat
      BY <1>1, EntryTypes
  <2>4. Due(j)'
    <3>1. Window(j)' = IF win'[j] = 0 THEN 1 ELSE win'[j]
        BY DEF Window
    <3>2. since'[j] < Window(j)'
        BY <2>1, <2>3, <3>1
    <3> QED BY <3>2 DEF Due
  <2> QED BY <1>2, <1>4, <2>1, <2>2, <2>3, <2>4
<1>6. CASE j # k
  <2>1. since'[j] = since[j] /\ win'[j] = win[j] /\ pkt'[j] = pkt[j]
      BY <1>2, <1>3, <1>6
  <2> QED BY <1>2, <2>1 DEF EntryInv, Wraps, Due, Window
<1> QED BY <1>5, <1>6

(* A jiffy more for the entry, one less for the timer.                      *)
LEMMA JiffyEntry ==
    ASSUME IInv, EntryInv, Jiffy
    PROVE  EntryInv'
<1> SUFFICES ASSUME NEW k \in Packets, pkt'[k] # NoEntry, ~Wraps(k)'
             PROVE  pkt'[k] = jiffies' - since'[k] + win'[k] /\ Due(k)'
    BY DEF EntryInv
<1>1. /\ jiffies' = (jiffies + 1) % LongAgo
      /\ trim_tm > 0
      /\ trim_tm' = trim_tm - 1
      /\ trim_wk' = IF trim_wk > 0 THEN trim_wk + 1 ELSE 0
      /\ since'[k] = IF since[k] < LongAgo THEN since[k] + 1 ELSE LongAgo
      /\ UNCHANGED <<pkt, win>>
    BY ClockFacts DEF Jiffy
<1>2. /\ jiffies \in Nat /\ jiffies < LongAgo /\ LongAgo \in Nat \ {0}
      /\ since[k] \in Nat /\ since[k] <= LongAgo /\ win[k] \in Nat
      /\ trim_tm \in Nat /\ trim_wk \in Nat /\ PERIOD \in Nat \ {0} /\ trim_tm <= PERIOD
      /\ Window(k) \in Nat
    BY EntryTypes
<1>3. jiffies' \in 0 .. LongAgo - 1 /\ (jiffies' = jiffies + 1 \/ jiffies' = 0)
    BY <1>1, <1>2, SMT
<1>4. since'[k] <= jiffies' /\ jiffies' - since'[k] + win[k] < LongAgo
  <2>1. since'[k] \in Int /\ win'[k] \in Int /\ jiffies' \in Int
      BY <1>1, <1>2, <1>3
  <2> QED BY <1>1, <2>1, NotWrapped
<1>5. since'[k] = since[k] + 1 /\ jiffies' = jiffies + 1
    BY <1>1, <1>2, <1>3, <1>4
<1>6. since[k] <= jiffies /\ jiffies - since[k] + win[k] <= LongAgo - 1
    BY <1>2, <1>4, <1>5
<1>7. ~Wraps(k)
    BY <1>2, <1>6, ClockFacts DEF Wraps
<1>8. pkt[k] = jiffies - since[k] + win[k] /\ Due(k)
    BY <1>1, <1>7 DEF EntryInv
<1>9. Window(k)' = Window(k)
    BY <1>1 DEF Window
<1>10. Due(k)'
    BY <1>1, <1>2, <1>5, <1>8, <1>9 DEF Due
<1> QED BY <1>1, <1>2, <1>5, <1>8, <1>10

(* The timer fires: from now on the work is scheduled.                      *)
LEMMA TimerEntry ==
    ASSUME IInv, EntryInv, TrimTimerCb
    PROVE  EntryInv'
<1> SUFFICES ASSUME NEW k \in Packets, pkt'[k] # NoEntry, ~Wraps(k)'
             PROVE  pkt'[k] = jiffies' - since'[k] + win'[k] /\ Due(k)'
    BY DEF EntryInv
<1>1. /\ trim_tm = 0
      /\ trim_wk' = IF trim_wk > 0 THEN trim_wk ELSE 1
      /\ trim_tm' = PERIOD
      /\ UNCHANGED <<jiffies, pkt, since, win>>
    BY DEF TrimTimerCb
<1>2. since[k] \in Nat /\ Window(k) \in Nat /\ trim_wk \in Nat /\ PERIOD \in Nat \ {0}
    BY EntryTypes
<1>3. ~Wraps(k) /\ Window(k)' = Window(k)
    BY <1>1 DEF Wraps, Window
<1>4. pkt[k] = jiffies - since[k] + win[k] /\ Due(k)
    BY <1>1, <1>3 DEF EntryInv
<1>5. Due(k)'
    BY <1>1, <1>2, <1>3, <1>4 DEF Due
<1> QED BY <1>1, <1>4, <1>5

(* The work leaves only entries whose window lasts.                         *)
LEMMA WorkEntry ==
    ASSUME IInv, EntryInv, TrimWorkCb
    PROVE  EntryInv'
<1> SUFFICES ASSUME NEW k \in Packets, pkt'[k] # NoEntry, ~Wraps(k)'
             PROVE  pkt'[k] = jiffies' - since'[k] + win'[k] /\ Due(k)'
    BY DEF EntryInv
<1>1. /\ pkt'[k] = IF Expired(k) THEN NoEntry ELSE pkt[k]
      /\ since'[k] = IF Over(k) THEN LongAgo ELSE since[k]
      /\ win'[k] = IF Over(k) THEN 0 ELSE win[k]
      /\ UNCHANGED jiffies
    BY DEF TrimWorkCb
<1>2. ~Expired(k) /\ ~Over(k)
    BY <1>1 DEF Over
<1>3. pkt'[k] = pkt[k] /\ since'[k] = since[k] /\ win'[k] = win[k]
    BY <1>1, <1>2
<1>4. ~Wraps(k) /\ Window(k)' = Window(k)
    BY <1>1, <1>3 DEF Wraps, Window
<1>5. pkt[k] = jiffies - since[k] + win[k]
    BY <1>3, <1>4 DEF EntryInv
<1>6. ~(pkt[k] <= jiffies)
    BY <1>2, <1>3 DEF Expired
<1>7. since[k] < Window(k)
    BY <1>5, <1>6, EntryTypes
<1> QED BY <1>1, <1>3, <1>4, <1>5, <1>7 DEF Due

LEMMA NoEntries == (\A k \in Packets : pkt'[k] = NoEntry') => EntryInv'
BY DEF EntryInv

LEMMA EntryStep == IInv /\ EntryInv /\ [Next]_vars => EntryInv'
<1> SUFFICES ASSUME IInv, EntryInv, [Next]_vars PROVE EntryInv'
    OBVIOUS
<1>1. CASE UNCHANGED <<pkt, jiffies, since, win, trim_tm, trim_wk>>
    BY <1>1, SameEntries
<1>2. ASSUME NEW c \in Cpus, Record(c) PROVE EntryInv'
    BY <1>2, RecordEntry
<1>3. CASE Jiffy \/ TrimTimerCb \/ TrimWorkCb
    BY <1>3, JiffyEntry, TimerEntry, WorkEntry
<1>4. CASE NoPackets
    BY <1>4, NoEntries DEF NoPackets, NoEntry
<1>5. \/ UNCHANGED packetVars \/ NoPackets
      \/ Jiffy \/ TrimTimerCb \/ TrimWorkCb
      \/ \E c \in Cpus : Hook(c) \/ \E k \in Packets : NetworkUp(c, k)
  <2>1. ASSUME NEW m \in todo, Message(m) PROVE UNCHANGED packetVars
      BY <2>1 DEF Message, SetTrim, Add, AddFails, Del, SendFails
  <2>2. ASSUME Signal \/ PowerLoss \/ StartUp PROVE UNCHANGED packetVars \/ NoPackets
      BY <2>2 DEF Signal, PowerLoss, StartUp, Unload, Load, Emptied
  <2>3. ASSUME \/ \E r \in Requests : OpenSpp(r)
               \/ \E p \in Phones : StopSpeed(p)
               \/ Respond \/ Kill \/ SignalInRequest \/ UNCHANGED vars
        PROVE  UNCHANGED packetVars
      BY <2>3 DEF OpenSpp, StopSpeed, Respond, Kill, SignalInRequest, vars
  <2> QED BY <2>1, <2>2, <2>3 DEF Next
<1>6. ASSUME NEW c \in Cpus, Hook(c) \/ \E k \in Packets : NetworkUp(c, k), ~Record(c)
      PROVE  UNCHANGED <<pkt, jiffies, since, win, trim_tm, trim_wk>>
    BY <1>6 DEF Hook, MatchSip, RecordFails, DropCopy, NetworkUp, Goes, Untouched
<1> QED BY <1>1, <1>2, <1>3, <1>4, <1>5, <1>6 DEF packetVars

(* A packet that nf_network_up drops had an equal one pass within the       *)
(* window, a period of the timer and the time its work may wait, but for    *)
(* the wrap-around: for any trim, period and lateness.                      *)
THEOREM FirstCopiesPass == Spec => FirstCopyPasses
<1> DEFINE Fine == \A c \in Cpus : DropCopy(c) =>
                       LET k == hook[c].packet IN
                       since[k] < Window(k) + PERIOD + MaxLate \/ Wraps(k)
<1>1. ASSUME IInv, EntryInv PROVE Fine
  <2> SUFFICES ASSUME NEW c \in Cpus, DropCopy(c)
               PROVE  \/ since[hook[c].packet] < Window(hook[c].packet) + PERIOD + MaxLate
                      \/ Wraps(hook[c].packet)
      BY Zenon
  <2> DEFINE k == hook[c].packet
  <2>1. k \in Packets
      BY <1>1 DEF DropCopy, IInv, PacketInv, PacketTypes, HookState, Idle
  <2>2. pkt[k] # NoEntry
      BY DEF DropCopy
  <2> HIDE DEF k
  <2>3. ASSUME ~Wraps(k) PROVE since[k] < Window(k) + PERIOD + MaxLate
    <3>1. Due(k)
        BY <1>1, <2>1, <2>2, <2>3 DEF EntryInv
    <3> QED BY <1>1, <2>1, <3>1, EntryTypes DEF Due
  <2> QED BY <2>3 DEF k
<1>2. IInv /\ EntryInv /\ [Next]_vars => [Fine]_vars
    BY <1>1
<1>3. Init => EntryInv
    BY DEF Init, EntryInv
<1>4. IInv /\ EntryInv /\ [Next]_vars => EntryInv'
    BY EntryStep
<1> QED BY <1>2, <1>3, <1>4, Invariant, PTL DEF FirstCopyPasses, Spec
=============================================================================
