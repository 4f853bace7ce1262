------------------------------ MODULE QosProofs ------------------------------
(* What holds of the QoS session for every number of phones, slots, leases  *)
(* and periods, with crashes, clock jumps and racing scripts allowed.       *)
EXTENDS Qos, SequenceTheorems, FiniteSetTheorems, TLAPS

-----------------------------------------------------------------------------
(* The client table.                                                        *)

(* An initial interval has as many elements as its bound says.              *)
LEMMA IntervalSize ==
    ASSUME NEW m \in Nat
    PROVE  IsFiniteSet(1 .. m) /\ Cardinality(1 .. m) = m
<1>1. Cardinality(1 .. m) = IF 1 > m THEN 0 ELSE m - 1 + 1
  BY FS_Interval
<1>2. IsFiniteSet(1 .. m)
  BY FS_Interval
<1>3. QED BY <1>1, <1>2

(* record_new_client keeps the table well formed.                           *)
LEMMA RecordType ==
    ASSUME NEW cli \in [Slots -> QosCli], NEW c \in Cips, NEW t \in 0 .. MaxTimes
    PROVE  RecordNewClient(cli, c, t) \in [Slots -> QosCli]
BY DEF RecordNewClient, QosCli

(* update_qos_info keeps the table well formed and enables nobody.          *)
LEMMA AgedType ==
    ASSUME NEW cli \in [Slots -> QosCli]
    PROVE  /\ Aged(cli) \in [Slots -> QosCli]
           /\ EnabledSlots(Aged(cli)) \subseteq EnabledSlots(cli)
<1>1. ASSUME NEW i \in Slots PROVE Aged(cli)[i] \in QosCli
  <2>1. cli[i] \in QosCli /\ cli[i].times \in 0 .. MaxTimes /\ MaxTimes \in Nat
    BY QosAssumption DEF QosCli
  <2>2. CASE cli[i].en # 1
    BY <2>1, <2>2 DEF Aged
  <2>3. CASE cli[i].en = 1 /\ cli[i].times <= 1
    <3>1. Aged(cli)[i] = [cli[i] EXCEPT !.times = 0, !.en = 0]
      BY <2>3 DEF Aged
    <3>2. 0 \in 0 .. MaxTimes
      BY <2>1
    <3>3. QED BY <2>1, <3>1, <3>2 DEF QosCli
  <2>4. CASE cli[i].en = 1 /\ ~(cli[i].times <= 1)
    <3>1. Aged(cli)[i] = [cli[i] EXCEPT !.times = cli[i].times - 1]
      BY <2>4 DEF Aged
    <3>2. cli[i].times - 1 \in 0 .. MaxTimes
      BY <2>1, <2>4
    <3>3. QED BY <2>1, <3>1, <3>2 DEF QosCli
  <2>5. QED BY <2>2, <2>3, <2>4
<1>2. Aged(cli) \in [Slots -> QosCli]
  BY <1>1 DEF Aged
<1>3. EnabledSlots(Aged(cli)) \subseteq EnabledSlots(cli)
  BY DEF Aged, EnabledSlots
<1>4. QED BY <1>2, <1>3

(* cli_cnt is within the table, and 0 only when no slot is enabled.         *)
LEMMA CountType ==
    ASSUME NEW cli
    PROVE  /\ Cardinality(EnabledSlots(cli)) \in 0 .. CLI_MAX
           /\ Cardinality(EnabledSlots(cli)) = 0 <=> EnabledSlots(cli) = {}
<1>1. EnabledSlots(cli) \in SUBSET (1 .. CLI_MAX)
  BY DEF EnabledSlots, Slots
<1>2. CLI_MAX \in Nat /\ IsFiniteSet(1 .. CLI_MAX) /\ Cardinality(1 .. CLI_MAX) = CLI_MAX
  <2>1. CLI_MAX \in Nat /\ ~(1 > CLI_MAX)
    BY QosAssumption
  <2>2. QED BY <2>1, FS_Interval
<1>3. IsFiniteSet(EnabledSlots(cli)) /\ Cardinality(EnabledSlots(cli)) <= CLI_MAX
  BY <1>1, <1>2, FS_Subset
<1>4. Cardinality(EnabledSlots(cli)) \in Nat
  BY <1>3, FS_CardinalityType
<1>5. Cardinality(EnabledSlots(cli)) = 0 <=> EnabledSlots(cli) = {}
  BY <1>3, FS_EmptySet
<1>6. QED BY <1>2, <1>3, <1>4, <1>5

(* acquire_ip_qos_list builds a list of the daemon's own.                   *)
LEMMA QosListType ==
    ASSUME TypeOK, NEW cli
    PROVE  QosList(cli) \in Lists
<1>1. (IF brandlimit > 0 THEN brandlimit ELSE 1) \in Limits \cup {1}
  BY QosAssumption DEF TypeOK
<1>2. leases \ {cli[i].ip : i \in EnabledSlots(cli)} \in SUBSET UNION LeaseSets
  BY DEF TypeOK
<1>3. QED BY <1>1, <1>2 DEF QosList, Lists, OwnLists

-----------------------------------------------------------------------------
(* The timer queue.                                                         *)

(* A new timer of at most one loop period is inserted, the others keep      *)
(* their order.                                                             *)
LEMMA ArmShape ==
    ASSUME NEW ts \in Seq(Timer), NEW h \in {"start", "loop"}, NEW s \in 0 .. TIME_QOS
    PROVE  /\ Arm(ts, h, s) \in Seq(Timer)
           /\ Len(Arm(ts, h, s)) = Len(ts) + 1
           /\ \E n \in 0 .. Len(ts) :
                 /\ \A k \in 1 .. n : Arm(ts, h, s)[k] = ts[k]
                 /\ Arm(ts, h, s)[n + 1] = [handler |-> h, left |-> s]
                 /\ \A k \in n + 2 .. Len(ts) + 1 : Arm(ts, h, s)[k] = ts[k - 1]
                 /\ s = TIME_QOS => n = Len(ts)
<1> DEFINE before == {k \in DOMAIN ts : ts[k].left <= s}
           n == Cardinality(before)
           new == [handler |-> h, left |-> s]
           at(k) == IF k <= n THEN ts[k] ELSE IF k = n + 1 THEN new ELSE ts[k - 1]
<1>1. Len(ts) \in Nat /\ DOMAIN ts = 1 .. Len(ts) /\ \A k \in 1 .. Len(ts) : ts[k] \in Timer
  BY LenProperties, ElementOfSeq
<1>2. IsFiniteSet(1 .. Len(ts)) /\ Cardinality(1 .. Len(ts)) = Len(ts)
  BY <1>1, IntervalSize
<1>3. before \in SUBSET (1 .. Len(ts))
  BY <1>1
<1>4. IsFiniteSet(before) /\ n <= Len(ts)
  BY <1>2, <1>3, FS_Subset
<1>5. n \in 0 .. Len(ts)
  <2>1. n \in Nat
    BY <1>4, FS_CardinalityType
  <2>2. QED BY <1>1, <1>4, <2>1
<1>6. s = TIME_QOS => n = Len(ts)
  <2>1. \A k \in 1 .. Len(ts) : ts[k].left \in 0 .. TIME_QOS
    BY <1>1 DEF Timer
  <2>2. ASSUME s = TIME_QOS PROVE before = 1 .. Len(ts)
    BY <1>1, <2>1, <2>2, QosAssumption
  <2>3. QED BY <1>2, <2>2
<1> HIDE DEF n, before
<1>7. Arm(ts, h, s) = [k \in 1 .. Len(ts) + 1 |-> at(k)]
  BY DEF Arm, n, before
<1>8. \A k \in 1 .. Len(ts) + 1 : at(k) \in Timer
  BY <1>1, <1>5 DEF Timer
<1>9. Arm(ts, h, s) \in [1 .. Len(ts) + 1 -> Timer]
  BY <1>7, <1>8
<1>10. Arm(ts, h, s) \in Seq(Timer) /\ Len(Arm(ts, h, s)) = Len(ts) + 1
  <2>1. Len(ts) + 1 \in Nat
    BY <1>1
  <2>2. Arm(ts, h, s) \in Seq(Timer)
    BY <1>9, <2>1, SeqDef
  <2>3. QED BY <1>9, <2>1, <2>2, LenProperties
<1>11. \A k \in 1 .. n : Arm(ts, h, s)[k] = ts[k]
  BY <1>1, <1>5, <1>7
<1>12. Arm(ts, h, s)[n + 1] = new
  BY <1>1, <1>5, <1>7
<1>13. \A k \in n + 2 .. Len(ts) + 1 : Arm(ts, h, s)[k] = ts[k - 1]
  BY <1>1, <1>5, <1>7
<1>14. QED BY <1>5, <1>6, <1>10, <1>11, <1>12, <1>13

-----------------------------------------------------------------------------
(* Types of the scripts a step may start.                                   *)

LEMMA RestoreType ==
    ASSUME NEW c \in SavedCfg
    PROVE  RestoreScript(c) \in QosSh
BY DEF SavedCfg, RestoreScript, Script, QosSh

LEMMA RestoresType ==
    ASSUME file \in SavedCfg \cup {NoFile, EmptyFile}
    PROVE  Restores \in Seq(QosSh)
<1>1. CASE file \in {NoFile, EmptyFile}
  BY <1>1, EmptySeq DEF Restores
<1>2. CASE file \notin {NoFile, EmptyFile}
  BY <1>2, RestoreType DEF Restores
<1>3. QED BY <1>1, <1>2

(* Head and tail of a timer queue with a due timer.                         *)
LEMMA DueShape ==
    ASSUME timers \in Seq(Timer), Due
    PROVE  /\ Tail(timers) \in Seq(Timer)
           /\ Len(timers) \in Nat \ {0}
           /\ Len(Tail(timers)) = Len(timers) - 1
           /\ \A k \in 1 .. Len(timers) - 1 : Tail(timers)[k] = timers[k + 1]
BY HeadTailProperties, EmptySeq DEF Due

-----------------------------------------------------------------------------
(* Type correctness, one lemma per step.                                    *)

LEMMA TypeStartQosReq ==
    ASSUME TypeOK, NEW c \in Cips, NEW t \in ReqTimes, NEW lim \in Limits,
           StartQosReq(c, t, lim)
    PROVE  TypeOK'
<1>1. t \in 0 .. MaxTimes /\ 1 \in 0 .. CLI_MAX
  BY QosAssumption
<1>2. qos_cli' \in [Slots -> QosCli] /\ brandlimit' \in Limits \cup {0}
  BY <1>1, RecordType DEF TypeOK, StartQosReq, OpenSession
<1>3. CASE enable = 1
  BY <1>2, <1>3 DEF TypeOK, StartQosReq, OpenSession, envVars
<1>4. CASE enable = 0
  <2>1. saved' \in SavedCfg
    BY <1>4 DEF TypeOK, StartQosReq, OpenSession, SavedCfg, Nvram
  <2>2. timers' \in Seq(Timer)
    <3>1. StartDelay \in 0 .. TIME_QOS /\ TIME_QOS \in 0 .. TIME_QOS
      BY QosAssumption
    <3>2. Arm(timers, "start", StartDelay) \in Seq(Timer)
      BY <3>1, ArmShape DEF TypeOK
    <3>3. Arm(Arm(timers, "start", StartDelay), "loop", TIME_QOS) \in Seq(Timer)
      BY <3>1, <3>2, ArmShape
    <3>4. QED BY <1>4, <3>3 DEF StartQosReq, OpenSession
  <2>3. file' = saved' /\ qos_tm_max' = t /\ cli_cnt' = 1 /\ enable' = 1
    BY <1>4 DEF StartQosReq, OpenSession
  <2>4. UNCHANGED <<ip_list, daemon, leases, nvram, scripts>>
    BY DEF StartQosReq, OpenSession, envVars
  <2>5. QED BY <1>1, <1>2, <2>1, <2>2, <2>3, <2>4 DEF TypeOK
<1>5. QED BY <1>3, <1>4 DEF TypeOK

LEMMA TypeUpdate ==
    ASSUME NEW cli \in [Slots -> QosCli], UpdateQosInfo(cli)
    PROVE  /\ qos_cli' \in [Slots -> QosCli]
           /\ cli_cnt' \in 0 .. CLI_MAX
           /\ qos_tm_max' \in 0 .. MaxTimes
BY AgedType, CountType DEF UpdateQosInfo

LEMMA TypeStopSpeedReq ==
    ASSUME TypeOK, NEW c \in Cips, StopSpeedReq(c)
    PROVE  TypeOK'
<1> DEFINE cleared == [i \in Slots |->
               IF qos_cli[i].ip = c THEN [qos_cli[i] EXCEPT !.en = 0, !.ip = NoIp]
               ELSE qos_cli[i]]
<1>1. cleared \in [Slots -> QosCli]
  BY DEF TypeOK, QosCli
<1>2. UpdateQosInfo(cleared)
  BY DEF StopSpeedReq
<1> HIDE DEF cleared
<1>3. /\ qos_cli' \in [Slots -> QosCli]
      /\ cli_cnt' \in 0 .. CLI_MAX
      /\ qos_tm_max' \in 0 .. MaxTimes
  BY <1>1, <1>2, TypeUpdate
<1>4. enable' \in {0, 1}
  BY DEF StopSpeedReq, TypeOK
<1>5. UNCHANGED <<brandlimit, ip_list, saved, file, timers, daemon, leases, nvram, scripts>>
  BY DEF StopSpeedReq, envVars
<1>6. QED BY <1>3, <1>4, <1>5 DEF TypeOK

LEMMA TypeTick ==
    ASSUME TypeOK, Tick \/ JumpTick
    PROVE  TypeOK'
<1>1. Len(timers) \in Nat /\ DOMAIN timers = 1 .. Len(timers)
      /\ \A k \in DOMAIN timers : timers[k] \in Timer
  BY LenProperties, ElementOfSeq DEF TypeOK
<1>2. PICK left : timers' = [k \in DOMAIN timers |-> [timers[k] EXCEPT !.left = left[k]]]
                  /\ \A k \in DOMAIN timers : left[k] \in 0 .. TIME_QOS
  <2>1. \A k \in DOMAIN timers : timers[k].left \in 0 .. TIME_QOS
    BY <1>1 DEF Timer
  <2>2. CASE Tick
    <3> DEFINE l == [k \in DOMAIN timers |->
                        IF timers[k].left > 0 THEN timers[k].left - 1 ELSE 0]
    <3>1. \A k \in DOMAIN timers : l[k] \in 0 .. TIME_QOS
      BY <2>1, QosAssumption
    <3>2. \A k \in DOMAIN timers : l[k] = IF timers[k].left > 0 THEN timers[k].left - 1 ELSE 0
      OBVIOUS
    <3>3. timers' = [k \in DOMAIN timers |-> [timers[k] EXCEPT !.left =
                         IF timers[k].left > 0 THEN timers[k].left - 1 ELSE 0]]
      BY <2>2 DEF Tick
    <3> HIDE DEF l
    <3>4. timers' = [k \in DOMAIN timers |-> [timers[k] EXCEPT !.left = l[k]]]
      BY <3>2, <3>3
    <3>5. QED BY <3>1, <3>4
  <2>3. CASE JumpTick
    <3> DEFINE l == [k \in DOMAIN timers |-> 0]
    <3>1. \A k \in DOMAIN timers : l[k] \in 0 .. TIME_QOS
      BY QosAssumption
    <3>2. timers' = [k \in DOMAIN timers |-> [timers[k] EXCEPT !.left = l[k]]]
      BY <2>3 DEF JumpTick
    <3>3. QED BY <3>1, <3>2
  <2>4. QED BY <2>2, <2>3
<1>3. timers' \in [1 .. Len(timers) -> Timer]
  BY <1>1, <1>2 DEF Timer
<1>4. timers' \in Seq(Timer)
  BY <1>2, <1>3, SeqDef
<1>5. UNCHANGED <<enable, qos_cli, cli_cnt, qos_tm_max, brandlimit, ip_list, saved,
                  file, leases, nvram, scripts>> /\ daemon' = "expire"
  BY DEF Tick, JumpTick, ctlVars, envVars
<1>6. QED BY <1>4, <1>5 DEF TypeOK

LEMMA TypeStartQos ==
    ASSUME TypeOK, StartQos
    PROVE  TypeOK'
<1>1. Tail(timers) \in Seq(Timer)
  BY DueShape DEF TypeOK, StartQos
<1>2. ip_list' \in Lists /\ scripts' \in Seq(QosSh)
  <2> DEFINE list == QosList(qos_cli)
  <2>1. list \in Lists
    BY QosListType
  <2>2. Script(2, list) \in QosSh
    BY <2>1 DEF Script, QosSh
  <2>3. Append(scripts, Script(2, list)) \in Seq(QosSh)
    BY <2>2 DEF TypeOK
  <2>4. \/ UNCHANGED <<ip_list, scripts>>
        \/ ip_list' = list /\ scripts' = Append(scripts, Script(2, list))
    BY DEF StartQos
  <2> HIDE DEF list
  <2>5. QED BY <2>1, <2>3, <2>4 DEF TypeOK
<1>3. timers' = Tail(timers)
      /\ UNCHANGED <<enable, qos_cli, cli_cnt, qos_tm_max, brandlimit, saved,
                     file, daemon, leases, nvram>>
  BY DEF StartQos
<1>4. QED BY <1>1, <1>2, <1>3 DEF TypeOK

LEMMA TypeQosTmHandler ==
    ASSUME TypeOK, QosTmHandler
    PROVE  TypeOK'
<1>1. Tail(timers) \in Seq(Timer)
  BY DueShape DEF TypeOK, QosTmHandler
<1>2. UNCHANGED <<brandlimit, saved, file, daemon, leases, nvram>>
  BY DEF QosTmHandler
<1>3. CASE LoopListFails
  <2>1. UpdateQosInfo(qos_cli) /\ timers' = Tail(timers)
        /\ UNCHANGED <<enable, ip_list, scripts>>
    BY <1>3 DEF LoopListFails
  <2>2. QED BY <1>1, <1>2, <2>1, TypeUpdate DEF TypeOK
<1>4. CASE LoopRestores
  <2>1. Append(scripts, RestoreScript(saved)) \in Seq(QosSh)
    BY RestoreType DEF TypeOK
  <2>2. /\ qos_cli' = Aged(qos_cli) /\ cli_cnt' = 0 /\ qos_tm_max' = 0 /\ enable' = 0
        /\ scripts' = Append(scripts, RestoreScript(saved)) /\ timers' = Tail(timers)
        /\ UNCHANGED ip_list
    BY <1>4 DEF LoopRestores
  <2>3. Aged(qos_cli) \in [Slots -> QosCli]
    BY AgedType DEF TypeOK
  <2>4. 0 \in 0 .. CLI_MAX /\ 0 \in 0 .. MaxTimes
    BY QosAssumption
  <2>5. QED BY <1>1, <1>2, <2>1, <2>2, <2>3, <2>4 DEF TypeOK
<1>5. CASE LoopContinues
  <2> DEFINE list == QosList(Aged(qos_cli))
  <2>1. list \in Lists
    BY QosListType
  <2>2. Append(scripts, Script(2, list)) \in Seq(QosSh)
    <3>1. Script(2, list) \in QosSh
      BY <2>1 DEF Script, QosSh
    <3>2. QED BY <3>1 DEF TypeOK
  <2>3. /\ UpdateQosInfo(qos_cli) /\ ip_list' = list /\ UNCHANGED enable
        /\ timers' = Arm(Tail(timers), "loop", TIME_QOS)
        /\ scripts' = scripts \/ scripts' = Append(scripts, Script(2, list))
    BY <1>5 DEF LoopContinues, Refresh
  <2>4. Arm(Tail(timers), "loop", TIME_QOS) \in Seq(Timer)
    <3>1. TIME_QOS \in 0 .. TIME_QOS
      BY QosAssumption
    <3>2. QED BY <1>1, <3>1, ArmShape
  <2> HIDE DEF list
  <2>5. QED BY <1>2, <2>1, <2>2, <2>3, <2>4, TypeUpdate DEF TypeOK
<1>6. QED BY <1>3, <1>4, <1>5 DEF QosTmHandler

LEMMA TypeForget ==
    ASSUME TypeOK, Forget, scripts' \in Seq(QosSh),
           file' \in {file, NoFile, EmptyFile}, UNCHANGED <<leases, nvram>>
    PROVE  TypeOK'
<1>1. qos_cli' \in [Slots -> QosCli]
  BY QosAssumption DEF Forget, EmptySlot, QosCli
<1>2. 0 \in 0 .. CLI_MAX /\ 0 \in 0 .. MaxTimes
  BY QosAssumption
<1>3. NoList \in Lists /\ NothingSaved \in SavedCfg /\ <<>> \in Seq(Timer)
  BY EmptySeq DEF Lists, NothingSaved, SavedCfg
<1>4. QED BY <1>1, <1>2, <1>3 DEF TypeOK, Forget

LEMMA TypeFailures ==
    ASSUME TypeOK, Failures
    PROVE  TypeOK'
<1>1. Restores \in Seq(QosSh)
  BY RestoresType DEF TypeOK
<1>2. /\ scripts \o Restores \in Seq(QosSh)
      /\ scripts \o Restores \o Restores \in Seq(QosSh)
      /\ <<>> \in Seq(QosSh)
  BY <1>1, ConcatProperties, EmptySeq DEF TypeOK
<1>3. ASSUME NEW how \in {"kill", "power"}, Die(how) PROVE TypeOK'
  <2>1. scripts' \in Seq(QosSh)
    BY <1>2, <1>3 DEF Die, TypeOK
  <2>2. QED BY <1>3, <2>1, TypeForget DEF Die
<1>4. ASSUME NEW how \in {"kill", "power"}, DieRecording(how) PROVE TypeOK'
  <2>1. scripts' \in Seq(QosSh)
    BY <1>2, <1>4 DEF DieRecording, TypeOK
  <2>2. QED BY <1>4, <2>1, TypeForget DEF DieRecording
<1>5. CASE SignalInWait
  BY <1>2, <1>5, TypeForget DEF SignalInWait
<1>6. CASE SignalWhenStuck
  BY <1>2, <1>6, TypeForget DEF SignalWhenStuck
<1>7. CASE SignalInExpire
  BY <1>2, <1>7, EmptySeq DEF SignalInExpire, TypeOK, ctlVars
<1>8. CASE StartUp
  BY <1>2, <1>8 DEF StartUp, TypeOK, ctlVars
<1>9. QED BY <1>3, <1>4, <1>5, <1>6, <1>7, <1>8 DEF Failures

LEMMA TypeRunScript ==
    ASSUME TypeOK, NEW k \in 1 .. MaxScripts, RunScript(k)
    PROVE  TypeOK'
<1>1. Len(scripts) \in Nat /\ DOMAIN scripts = 1 .. Len(scripts)
      /\ \A j \in 1 .. Len(scripts) : scripts[j] \in QosSh
  BY LenProperties, ElementOfSeq DEF TypeOK
<1>2. k \in 1 .. Len(scripts)
  BY <1>1 DEF RunScript
<1>3. scripts' \in Seq(QosSh) /\ nvram' \in Nvram
  <2>1. CASE scripts[k].step = 1
    <3>1. /\ nvram' = [nvram EXCEPT !.en = scripts[k].en]
          /\ scripts' = [scripts EXCEPT ![k].step = 2]
      BY <2>1 DEF RunScript
    <3>2. scripts[k].en \in {0, 2} /\ [scripts[k] EXCEPT !.step = 2] \in QosSh
      BY <1>1, <1>2 DEF QosSh
    <3>3. nvram' \in Nvram
      BY <3>1, <3>2 DEF TypeOK, Nvram
    <3>4. [scripts EXCEPT ![k] = [scripts[k] EXCEPT !.step = 2]] \in Seq(QosSh)
      BY <1>2, <3>2, ExceptSeq DEF TypeOK
    <3>5. QED BY <3>1, <3>3, <3>4
  <2>2. CASE scripts[k].step = 2
    <3>1. /\ nvram' = [nvram EXCEPT !.list = scripts[k].list]
          /\ scripts' = [j \in 1 .. Len(scripts) - 1 |->
                            scripts[IF j < k THEN j ELSE j + 1]]
      BY <2>2 DEF RunScript
    <3>2. scripts[k].list \in Lists
      BY <1>1, <1>2 DEF QosSh
    <3>3. nvram' \in Nvram
      BY <3>1, <3>2 DEF TypeOK, Nvram
    <3>4. Len(scripts) - 1 \in Nat /\ scripts' \in [1 .. Len(scripts) - 1 -> QosSh]
      BY <1>1, <1>2, <3>1
    <3>5. scripts' \in Seq(QosSh)
      BY <3>4, SeqDef
    <3>6. QED BY <3>3, <3>5
  <2>3. QED BY <2>1, <2>2 DEF RunScript
<1>4. UNCHANGED <<ctlVars, file, timers, daemon, leases>>
  BY DEF RunScript
<1>5. QED BY <1>3, <1>4 DEF TypeOK, ctlVars

LEMMA TypeStep ==
    ASSUME TypeOK, [Next]_vars
    PROVE  TypeOK'
<1>1. CASE Requests
  BY <1>1, TypeStartQosReq, TypeStopSpeedReq DEF Requests
<1>2. CASE EventLoop
  <2>1. CASE ExpireReturn
    BY <2>1 DEF ExpireReturn, TypeOK, ctlVars, envVars
  <2>2. QED BY <1>2, <2>1, TypeTick, TypeStartQos, TypeQosTmHandler DEF EventLoop
<1>3. CASE Failures
  BY <1>3, TypeFailures
<1>4. CASE \E k \in 1 .. MaxScripts : RunScript(k)
  BY <1>4, TypeRunScript
<1>5. CASE LeaseChange
  BY <1>5 DEF LeaseChange, TypeOK, ctlVars
<1>6. CASE UserChange
  BY <1>6, QosAssumption DEF UserChange, TypeOK, ctlVars
<1>7. CASE UNCHANGED vars
  BY <1>7 DEF TypeOK, vars, ctlVars, envVars
<1>8. QED BY <1>1, <1>2, <1>3, <1>4, <1>5, <1>6, <1>7 DEF Next

(* Every state the daemon and its environment reach is well formed: the     *)
(* periods never leave their range, cli_cnt never exceeds the table, and    *)
(* every pending timer is at most one loop period away.                     *)
THEOREM TypeCorrect == Spec => []TypeOK
<1>1. Init => TypeOK
  <2> SUFFICES ASSUME Init PROVE TypeOK
    OBVIOUS
  <2>1. qos_cli \in [Slots -> QosCli]
    BY QosAssumption DEF Init, EmptySlot, QosCli
  <2>2. 0 \in 0 .. CLI_MAX /\ 0 \in 0 .. MaxTimes
    BY QosAssumption
  <2>3. NoList \in Lists /\ NothingSaved \in SavedCfg
        /\ <<>> \in Seq(Timer) /\ <<>> \in Seq(QosSh)
    BY EmptySeq DEF Lists, NothingSaved, SavedCfg
  <2>4. nvram \in Nvram
    BY QosAssumption DEF Init
  <2>5. QED BY <2>1, <2>2, <2>3, <2>4 DEF Init, TypeOK
<1>2. TypeOK /\ [Next]_vars => TypeOK'
  BY TypeStep
<1>3. QED BY <1>1, <1>2, PTL DEF Spec

-----------------------------------------------------------------------------
(* The session: off means nobody is accelerated, on means it is backed up.  *)

(* A process that is gone has no session: what lets main remove the record. *)
DownMeansOff == daemon = "down" => enable = 0

SessionInv == OffMeansNoClients /\ BackupWhileOn /\ DownMeansOff

LEMMA SessionStep ==
    ASSUME TypeOK, SessionInv, [Next]_vars
    PROVE  SessionInv'
<1>1. ASSUME NEW c \in Cips, NEW t \in ReqTimes, NEW lim \in Limits, StartQosReq(c, t, lim)
      PROVE  SessionInv'
  BY <1>1 DEF SessionInv, OffMeansNoClients, BackupWhileOn, DownMeansOff,
              StartQosReq, OpenSession, RequestComes, TypeOK
<1>2. ASSUME NEW c \in Cips, StopSpeedReq(c) PROVE SessionInv'
  <2>1. /\ cli_cnt' = Cardinality(EnabledSlots(qos_cli'))
        /\ enable' = IF cli_cnt' = 0 THEN 0 ELSE enable
        /\ UNCHANGED <<saved, file, daemon>> /\ daemon = "wait"
    BY <1>2 DEF StopSpeedReq, UpdateQosInfo
  <2>2. cli_cnt' = 0 => EnabledSlots(qos_cli') = {}
    BY <2>1, CountType
  <2>3. enable = 0 => EnabledSlots(qos_cli') = {}
    <3> DEFINE cleared == [i \in Slots |->
               IF qos_cli[i].ip = c THEN [qos_cli[i] EXCEPT !.en = 0, !.ip = NoIp]
               ELSE qos_cli[i]]
    <3>1. cleared \in [Slots -> QosCli] /\ EnabledSlots(cleared) \subseteq EnabledSlots(qos_cli)
      BY DEF TypeOK, QosCli, EnabledSlots
    <3>2. qos_cli' = Aged(cleared)
      BY <1>2 DEF StopSpeedReq, UpdateQosInfo
    <3> HIDE DEF cleared
    <3>3. EnabledSlots(qos_cli') \subseteq EnabledSlots(qos_cli)
      BY <3>1, <3>2, AgedType
    <3>4. QED BY <3>3 DEF SessionInv, OffMeansNoClients
  <2>4. OffMeansNoClients'
    BY <2>1, <2>2, <2>3 DEF OffMeansNoClients, EnabledSlots
  <2>5. BackupWhileOn'
    BY <2>1 DEF SessionInv, BackupWhileOn, TypeOK
  <2>6. QED BY <2>1, <2>4, <2>5 DEF SessionInv, DownMeansOff
<1>3. CASE EventLoop
  <2>1. CASE QosTmHandler
    <3>1. qos_cli' = Aged(qos_cli)
      BY <2>1 DEF QosTmHandler, LoopListFails, LoopRestores, LoopContinues, Refresh, UpdateQosInfo
    <3>2. EnabledSlots(qos_cli') \subseteq EnabledSlots(qos_cli)
      BY <3>1, AgedType DEF TypeOK
    <3>3. UNCHANGED <<saved, file>> /\ (enable' = enable \/ enable' = 0)
      BY <2>1 DEF QosTmHandler, LoopListFails, LoopRestores, LoopContinues, Refresh
    <3>4. enable' = enable \/ EnabledSlots(qos_cli') = {}
      <4>1. CASE LoopRestores
        BY <3>1, <3>2, <4>1 DEF LoopRestores, SessionOver, SessionInv, OffMeansNoClients
      <4>2. CASE ~LoopRestores
        BY <2>1, <4>2 DEF QosTmHandler, LoopListFails, LoopContinues, Refresh
      <4>3. QED BY <4>1, <4>2
    <3>5. OffMeansNoClients'
      BY <3>2, <3>3, <3>4 DEF SessionInv, OffMeansNoClients, EnabledSlots
    <3>6. daemon' = "expire"
      BY <2>1 DEF QosTmHandler
    <3>7. QED BY <3>3, <3>5, <3>6 DEF SessionInv, BackupWhileOn, DownMeansOff
  <2>2. CASE Tick \/ JumpTick \/ StartQos \/ ExpireReturn
    <3>1. UNCHANGED <<enable, qos_cli, saved, file>> /\ daemon' # "down"
      BY <2>2 DEF Tick, JumpTick, StartQos, ExpireReturn, ctlVars
    <3>2. QED BY <3>1 DEF SessionInv, OffMeansNoClients, BackupWhileOn, DownMeansOff, EnabledSlots
  <2>3. QED BY <1>3, <2>1, <2>2 DEF EventLoop
<1>4. CASE Failures
  <2>1. CASE Forget
    <3>1. EnabledSlots(qos_cli') = {} /\ enable' = 0
      BY <2>1 DEF Forget, EmptySlot, EnabledSlots
    <3>2. QED BY <3>1 DEF SessionInv, OffMeansNoClients, BackupWhileOn, DownMeansOff, EnabledSlots
  <2>2. CASE SignalInExpire
    BY <2>2 DEF SignalInExpire, ctlVars, SessionInv, OffMeansNoClients, BackupWhileOn,
                DownMeansOff, EnabledSlots
  <2>3. CASE StartUp
    BY <2>3 DEF StartUp, ctlVars, SessionInv, OffMeansNoClients, BackupWhileOn,
                DownMeansOff, EnabledSlots
  <2>4. QED BY <1>4, <2>1, <2>2, <2>3 DEF Failures, Die, DieRecording, SignalInWait, SignalWhenStuck
<1>5. CASE \/ \E k \in 1 .. MaxScripts : RunScript(k)
           \/ LeaseChange \/ UserChange \/ UNCHANGED vars
  <2>1. UNCHANGED <<enable, qos_cli, saved, file, daemon>>
    BY <1>5 DEF RunScript, LeaseChange, UserChange, vars, ctlVars
  <2>2. QED BY <2>1 DEF SessionInv, OffMeansNoClients, BackupWhileOn, DownMeansOff, EnabledSlots
<1>6. QED BY <1>1, <1>2, <1>3, <1>4, <1>5 DEF Next, Requests

LEMMA SessionInvariant == Spec => []SessionInv
<1>1. Init => SessionInv
  BY DEF Init, SessionInv, OffMeansNoClients, BackupWhileOn, DownMeansOff, EnabledSlots, EmptySlot
<1>2. TypeOK /\ SessionInv /\ [Next]_vars => SessionInv'
  BY SessionStep
<1>3. QED BY <1>1, <1>2, TypeCorrect, PTL DEF Spec

(* The handler's test of enable never contradicts the client table: no step *)
(* of a request, timer or failure leaves a client accelerated with qos off. *)
THEOREM OffIsOff == Spec => []OffMeansNoClients
BY SessionInvariant, PTL DEF SessionInv

(* Whenever a session is on, however the process ends, the file it leaves   *)
(* names the configuration the session would have put back itself.          *)
THEOREM SessionIsBackedUp == Spec => []BackupWhileOn
BY SessionInvariant, PTL DEF SessionInv

-----------------------------------------------------------------------------
(* The timers: what start_qos applies a loop run can take back, and while   *)
(* the lists fit the loop of a session never dies.                          *)

LEMMA TimersAre ==
    ASSUME TypeOK
    PROVE  /\ Len(timers) \in Nat
           /\ DOMAIN timers = 1 .. Len(timers)
           /\ \A k \in 1 .. Len(timers) : timers[k] \in Timer
BY LenProperties, ElementOfSeq DEF TypeOK

(* Arming a loop run puts it at the end of the queue.                       *)
LEMMA ArmLoop ==
    ASSUME NEW ts \in Seq(Timer)
    PROVE  LET q == Arm(ts, "loop", TIME_QOS) IN
           /\ q \in Seq(Timer)
           /\ DOMAIN q = 1 .. Len(ts) + 1
           /\ q[Len(ts) + 1].handler = "loop"
           /\ Len(ts) \in Nat
<1>1. TIME_QOS \in 0 .. TIME_QOS
  BY QosAssumption
<1>2. Len(ts) \in Nat
  BY LenProperties
<1>3. Arm(ts, "loop", TIME_QOS)[Len(ts) + 1] = [handler |-> "loop", left |-> TIME_QOS]
  BY <1>1, ArmShape
<1>4. Arm(ts, "loop", TIME_QOS) \in Seq(Timer) /\ Len(Arm(ts, "loop", TIME_QOS)) = Len(ts) + 1
  BY <1>1, ArmShape
<1>5. DOMAIN Arm(ts, "loop", TIME_QOS) = 1 .. Len(ts) + 1
  BY <1>4, LenProperties
<1>6. QED BY <1>2, <1>3, <1>4, <1>5

(* So both ways of arming one leave a loop run behind every start_qos.      *)
LEMMA QueueEndsInLoop ==
    ASSUME TypeOK, NEW ts \in Seq(Timer), timers' = Arm(ts, "loop", TIME_QOS)
    PROVE  StartBeforeLoop' /\ \E k \in DOMAIN timers' : timers'[k].handler = "loop"
<1>1. /\ DOMAIN timers' = 1 .. Len(ts) + 1
      /\ timers'[Len(ts) + 1].handler = "loop"
      /\ Len(ts) \in Nat
  BY ArmLoop
<1>2. \A k \in 1 .. Len(ts) + 1 : timers'[k].handler = "start" => Len(ts) + 1 > k
  BY <1>1
<1>3. QED BY <1>1, <1>2 DEF StartBeforeLoop

LEMMA ReqTimers ==
    ASSUME TypeOK, NEW c \in Cips, NEW t \in ReqTimes, NEW lim \in Limits,
           StartQosReq(c, t, lim), enable = 0
    PROVE  StartBeforeLoop' /\ \E k \in DOMAIN timers' : timers'[k].handler = "loop"
<1>1. StartDelay \in 0 .. TIME_QOS
  BY QosAssumption
<1>2. Arm(timers, "start", StartDelay) \in Seq(Timer)
  BY <1>1, ArmShape DEF TypeOK
<1>3. timers' = Arm(Arm(timers, "start", StartDelay), "loop", TIME_QOS)
  BY DEF StartQosReq, OpenSession
<1>4. QED BY <1>2, <1>3, QueueEndsInLoop

(* A tick changes no handler.                                               *)
LEMMA TickTimers ==
    ASSUME TypeOK, Tick \/ JumpTick
    PROVE  /\ DOMAIN timers' = DOMAIN timers
           /\ \A k \in DOMAIN timers : timers'[k].handler = timers[k].handler
<1>1. \A k \in DOMAIN timers : timers[k] \in Timer
  BY TimersAre
<1>2. QED BY <1>1 DEF Tick, JumpTick, Timer

(* Running the first timer leaves the rest as they were.                    *)
LEMMA PopTimers ==
    ASSUME TypeOK, Due, timers' = Tail(timers)
    PROVE  /\ DOMAIN timers' = 1 .. Len(timers) - 1
           /\ \A k \in 1 .. Len(timers) - 1 : timers'[k] = timers[k + 1]
           /\ Len(timers) \in Nat \ {0}
           /\ DOMAIN timers = 1 .. Len(timers)
           /\ Head(timers) = timers[1]
<1>1. /\ timers' \in Seq(Timer)
      /\ Len(timers) \in Nat \ {0}
      /\ Len(timers') = Len(timers) - 1
      /\ \A k \in 1 .. Len(timers) - 1 : timers'[k] = timers[k + 1]
  BY DueShape DEF TypeOK
<1>2. DOMAIN timers' = 1 .. Len(timers) - 1
  BY <1>1, LenProperties
<1>3. QED BY <1>1, <1>2, TimersAre DEF TypeOK

LEMMA PopKeepsOrder ==
    ASSUME TypeOK, StartBeforeLoop, Due, timers' = Tail(timers)
    PROVE  StartBeforeLoop'
<1> SUFFICES ASSUME NEW k \in DOMAIN timers', timers'[k].handler = "start"
             PROVE  \E j \in DOMAIN timers' : j > k /\ timers'[j].handler = "loop"
  BY DEF StartBeforeLoop
<1>1. k + 1 \in DOMAIN timers /\ timers[k + 1].handler = "start"
  BY PopTimers
<1>2. PICK j \in DOMAIN timers : j > k + 1 /\ timers[j].handler = "loop"
  BY <1>1 DEF StartBeforeLoop
<1>3. j - 1 \in 1 .. Len(timers) - 1 /\ j - 1 > k /\ timers'[j - 1] = timers[j]
  BY <1>2, PopTimers
<1>4. QED BY <1>2, <1>3, PopTimers

LEMMA OrderStep ==
    ASSUME TypeOK, StartBeforeLoop, [Next]_vars
    PROVE  StartBeforeLoop'
<1>1. ASSUME NEW c \in Cips, NEW t \in ReqTimes, NEW lim \in Limits, StartQosReq(c, t, lim)
      PROVE  StartBeforeLoop'
  <2>1. CASE enable = 0
    BY <1>1, <2>1, ReqTimers
  <2>2. CASE UNCHANGED timers
    BY <2>2 DEF StartBeforeLoop
  <2>3. QED BY <1>1, <2>1, <2>2 DEF StartQosReq, OpenSession
<1>2. CASE Tick \/ JumpTick
  BY <1>2, TickTimers DEF StartBeforeLoop
<1>3. CASE StartQos
  BY <1>3, PopKeepsOrder DEF StartQos
<1>4. CASE QosTmHandler
  <2>1. CASE LoopListFails \/ LoopRestores
    BY <1>4, <2>1, PopKeepsOrder DEF QosTmHandler, LoopListFails, LoopRestores
  <2>2. CASE LoopContinues
    <3>1. Tail(timers) \in Seq(Timer)
      BY <1>4, DueShape DEF TypeOK, QosTmHandler
    <3>2. QED BY <2>2, <3>1, QueueEndsInLoop DEF LoopContinues, Refresh
  <2>3. QED BY <1>4, <2>1, <2>2 DEF QosTmHandler
<1>5. CASE Failures
  <2>1. timers' = <<>> \/ UNCHANGED timers
    BY <1>5 DEF Failures, Die, DieRecording, SignalInWait, SignalInExpire, SignalWhenStuck,
                StartUp, Forget
  <2>2. QED BY <2>1, EmptySeq DEF StartBeforeLoop
<1>6. CASE \/ \E c \in Cips : StopSpeedReq(c)
           \/ ExpireReturn \/ \E k \in 1 .. MaxScripts : RunScript(k)
           \/ LeaseChange \/ UserChange \/ UNCHANGED vars
  <2>1. UNCHANGED timers
    BY <1>6 DEF StopSpeedReq, ExpireReturn, RunScript, LeaseChange, UserChange, vars
  <2>2. QED BY <2>1 DEF StartBeforeLoop
<1>7. QED BY <1>1, <1>2, <1>3, <1>4, <1>5, <1>6 DEF Next, Requests, EventLoop

(* However requests, clock jumps and crashes fall, a start_qos that is      *)
(* still to come is followed by a loop run that can undo it.                *)
THEOREM ApplyCanBeUndone == Spec => []StartBeforeLoop
<1>1. Init => StartBeforeLoop
  BY EmptySeq DEF Init, StartBeforeLoop
<1>2. TypeOK /\ StartBeforeLoop /\ [Next]_vars => StartBeforeLoop'
  BY OrderStep
<1>3. QED BY <1>1, <1>2, TypeCorrect, PTL DEF Spec

(* A leased device that is no phone is always on the list, which fits.      *)
LEMMA ListNeverFails ==
    ASSUME TypeOK, ListsFit, NEW cli \in [Slots -> QosCli]
    PROVE  ~ListFails(QosList(cli))
<1>1. {cli[i].ip : i \in EnabledSlots(cli)} \subseteq Cips \cup {NoIp}
  BY DEF EnabledSlots, QosCli
<1>2. QosList(cli).ips = leases \ {cli[i].ip : i \in EnabledSlots(cli)}
  BY DEF QosList
<1>3. /\ leases \ (Cips \cup {NoIp}) # {}
      /\ \A S \in SUBSET leases : Cardinality(S) <= ListMax
  BY DEF ListsFit, TypeOK
<1>4. QosList(cli).ips # {}
  BY <1>1, <1>2, <1>3
<1>5. Cardinality(QosList(cli).ips) <= ListMax
  BY <1>2, <1>3
<1>6. QED BY <1>4, <1>5 DEF ListFails

LEMMA LoopArmedStep ==
    ASSUME TypeOK, ListsFit, DownMeansOff, LoopArmed, [Next]_vars
    PROVE  LoopArmed'
<1>1. ASSUME NEW c \in Cips, NEW t \in ReqTimes, NEW lim \in Limits, StartQosReq(c, t, lim)
      PROVE  LoopArmed'
  <2>1. CASE enable = 0
    BY <1>1, <2>1, ReqTimers DEF LoopArmed
  <2>2. CASE enable = 1 /\ UNCHANGED <<enable, timers>>
    BY <1>1, <2>2 DEF LoopArmed, StartQosReq, OpenSession, Up
  <2>3. QED BY <1>1, <2>1, <2>2 DEF StartQosReq, OpenSession
<1>2. ASSUME NEW c \in Cips, StopSpeedReq(c) PROVE LoopArmed'
  <2>1. (enable' = 1 => enable = 1) /\ UNCHANGED <<timers, daemon>>
    <3>1. enable' = IF cli_cnt' = 0 THEN 0 ELSE enable
      BY <1>2 DEF StopSpeedReq
    <3>2. UNCHANGED <<timers, daemon>>
      BY <1>2 DEF StopSpeedReq
    <3>3. QED BY <3>1, <3>2
  <2>2. QED BY <2>1 DEF LoopArmed, Up
<1>3. CASE Tick \/ JumpTick
  <2>1. UNCHANGED enable /\ daemon = "wait"
    BY <1>3 DEF Tick, JumpTick, ctlVars
  <2>2. QED BY <1>3, <2>1, TickTimers DEF LoopArmed, Up
<1>4. CASE StartQos
  <2>1. /\ Due /\ timers' = Tail(timers) /\ Head(timers).handler = "start"
        /\ UNCHANGED <<enable, daemon>>
    BY <1>4 DEF StartQos
  <2>2. SUFFICES ASSUME Up, enable = 1
                 PROVE  \E k \in DOMAIN timers' : timers'[k].handler = "loop"
    BY <2>1 DEF LoopArmed, Up
  <2>3. PICK k \in DOMAIN timers : timers[k].handler = "loop"
    BY <2>2 DEF LoopArmed
  <2>4. k # 1
    BY <2>1, <2>3, PopTimers
  <2>5. k - 1 \in DOMAIN timers' /\ timers'[k - 1] = timers[k]
    BY <2>1, <2>3, <2>4, PopTimers
  <2>6. QED BY <2>3, <2>5
<1>5. CASE QosTmHandler
  <2>1. ~LoopListFails
    BY AgedType, ListNeverFails DEF LoopListFails, TypeOK
  <2>2. CASE LoopRestores
    BY <2>2 DEF LoopRestores, LoopArmed
  <2>3. CASE LoopContinues
    <3>1. Tail(timers) \in Seq(Timer)
      BY <1>5, DueShape DEF TypeOK, QosTmHandler
    <3>2. QED BY <2>3, <3>1, QueueEndsInLoop DEF LoopContinues, Refresh, LoopArmed
  <2>4. QED BY <1>5, <2>1, <2>2, <2>3 DEF QosTmHandler
<1>6. CASE Failures
  <2>1. CASE StartUp
    BY <2>1 DEF StartUp, ctlVars, DownMeansOff, LoopArmed
  <2>2. daemon' \in {"down", "stuck"} \/ StartUp
    BY <1>6 DEF Failures, Die, DieRecording, SignalInWait, SignalInExpire, SignalWhenStuck, Forget
  <2>3. QED BY <2>1, <2>2 DEF LoopArmed, Up
<1>7. CASE ExpireReturn
  BY <1>7 DEF ExpireReturn, ctlVars, LoopArmed, Up
<1>8. CASE \/ \E k \in 1 .. MaxScripts : RunScript(k)
           \/ LeaseChange \/ UserChange \/ UNCHANGED vars
  <2>1. UNCHANGED <<enable, timers, daemon>>
    BY <1>8 DEF RunScript, LeaseChange, UserChange, vars, ctlVars
  <2>2. QED BY <2>1 DEF LoopArmed, Up
<1>9. QED
  BY <1>1, <1>2, <1>3, <1>4, <1>5, <1>6, <1>7, <1>8 DEF Next, Requests, EventLoop

(* As long as some leased device is not a phone and the lists fit in their  *)
(* buffer, a session that is on has a loop run ahead of it to end it.       *)
THEOREM LoopNeverDies == ListsFit => (Spec => []LoopArmed)
<1> SUFFICES ASSUME ListsFit PROVE Spec => []LoopArmed
  OBVIOUS
<1>1. Init => LoopArmed
  BY DEF Init, LoopArmed
<1>2. TypeOK /\ SessionInv /\ LoopArmed /\ [Next]_vars => LoopArmed'
  BY LoopArmedStep DEF SessionInv
<1>3. QED BY <1>1, <1>2, TypeCorrect, SessionInvariant, PTL DEF Spec

-----------------------------------------------------------------------------
(* What holds of the router's nvram, of the record of an accident, and of   *)
(* the qos.sh scripts that write nvram, for every number of phones, slots,  *)
(* devices and periods.                                                     *)

(* None of the lists a user keeps in nvram is one the daemon would build.   *)
ListsAreTold ==
    /\ NoList \notin OwnLists
    /\ \A u \in UserCfgs : u.list \notin OwnLists

(* What QosCrash lets wait for the scripts in flight.                       *)
RecordWaits == {"start", "request", "power", "reopen"} \subseteq Waits

(* Without it, a daemon that never dies.                                    *)
AccidentsWait == Crashes = {} \/ RecordWaits

-----------------------------------------------------------------------------
(* The scripts in flight.                                                   *)

LEMMA ScriptsAre ==
    ASSUME TypeOK
    PROVE  /\ Len(scripts) \in Nat
           /\ DOMAIN scripts = 1 .. Len(scripts)
           /\ \A k \in 1 .. Len(scripts) : scripts[k] \in QosSh
           /\ scripts = <<>> <=> Len(scripts) = 0
           /\ scripts # <<>> => Head(scripts) = scripts[1]
BY LenProperties, ElementOfSeq, EmptySeq, HeadTailProperties DEF TypeOK

(* A script that starts comes after the others.                             *)
LEMMA ScriptStarts ==
    ASSUME TypeOK, NEW s \in QosSh, scripts' = Append(scripts, s)
    PROVE  /\ DOMAIN scripts' = 1 .. Len(scripts) + 1
           /\ Len(scripts') = Len(scripts) + 1
           /\ \A k \in 1 .. Len(scripts) : scripts'[k] = scripts[k]
           /\ scripts'[Len(scripts) + 1] = s
           /\ scripts' # <<>>
<1>1. /\ scripts' \in Seq(QosSh)
      /\ Len(scripts') = Len(scripts) + 1
      /\ \A k \in 1 .. Len(scripts) : scripts'[k] = scripts[k]
      /\ scripts'[Len(scripts) + 1] = s
  BY AppendProperties DEF TypeOK
<1>2. DOMAIN scripts' = 1 .. Len(scripts) + 1
  BY <1>1, LenProperties
<1>3. scripts' # <<>>
  BY <1>1, ScriptsAre, EmptySeq
<1>4. QED BY <1>1, <1>2, <1>3

(* A script sets QoSEnable, then IpQosList, and is gone.                    *)
LEMMA ScriptRuns ==
    ASSUME TypeOK, NEW k \in 1 .. MaxScripts, RunScript(k)
    PROVE  /\ k \in 1 .. Len(scripts) /\ Len(scripts) \in Nat
           /\ \/ /\ scripts[k].step = 1
                 /\ nvram'.en = scripts[k].en /\ nvram'.list = nvram.list
                 /\ DOMAIN scripts' = 1 .. Len(scripts) /\ Len(scripts') = Len(scripts)
                 /\ scripts'[k].step = 2
                 /\ scripts'[k].en = scripts[k].en /\ scripts'[k].list = scripts[k].list
                 /\ \A j \in 1 .. Len(scripts) : j # k => scripts'[j] = scripts[j]
              \/ /\ scripts[k].step = 2
                 /\ nvram'.list = scripts[k].list /\ nvram'.en = nvram.en
                 /\ DOMAIN scripts' = 1 .. Len(scripts) - 1 /\ Len(scripts') = Len(scripts) - 1
                 /\ \A j \in 1 .. Len(scripts) - 1 :
                       scripts'[j] = scripts[IF j < k THEN j ELSE j + 1]
<1>1. k \in 1 .. Len(scripts) /\ Len(scripts) \in Nat /\ scripts[k] \in QosSh
  BY ScriptsAre DEF RunScript
<1>2. nvram \in Nvram
  BY DEF TypeOK
<1>3. CASE /\ scripts[k].step = 1
           /\ nvram' = [nvram EXCEPT !.en = scripts[k].en]
           /\ scripts' = [scripts EXCEPT ![k].step = 2]
  <2>1. scripts \in [1 .. Len(scripts) -> QosSh]
    BY LenProperties DEF TypeOK
  <2>2. scripts' \in [1 .. Len(scripts) -> QosSh]
    BY <1>3, <2>1 DEF QosSh
  <2>3. Len(scripts') = Len(scripts)
    <3>1. scripts' \in Seq(QosSh)
      BY <1>1, <2>2, SeqDef
    <3> QED BY <1>1, <2>2, <3>1, LenProperties
  <2>4. nvram'.en = scripts[k].en /\ nvram'.list = nvram.list
    BY <1>2, <1>3 DEF Nvram
  <2>5. /\ scripts'[k].step = 2
        /\ scripts'[k].en = scripts[k].en /\ scripts'[k].list = scripts[k].list
    BY <1>1, <1>3, <2>1 DEF QosSh
  <2>6. \A j \in 1 .. Len(scripts) : j # k => scripts'[j] = scripts[j]
    BY <1>3, <2>1
  <2> QED BY <1>1, <1>3, <2>2, <2>3, <2>4, <2>5, <2>6
<1>4. CASE /\ scripts[k].step = 2
           /\ nvram' = [nvram EXCEPT !.list = scripts[k].list]
           /\ scripts' = [j \in 1 .. Len(scripts) - 1 |->
                             scripts[IF j < k THEN j ELSE j + 1]]
  <2>1. Len(scripts) - 1 \in Nat
    BY <1>1
  <2>2. \A j \in 1 .. Len(scripts) - 1 :
           /\ (IF j < k THEN j ELSE j + 1) \in 1 .. Len(scripts)
           /\ scripts'[j] = scripts[IF j < k THEN j ELSE j + 1]
    BY <1>1, <1>4
  <2>3. scripts' \in [1 .. Len(scripts) - 1 -> QosSh]
    <3>1. \A j \in 1 .. Len(scripts) - 1 : scripts'[j] \in QosSh
      BY <2>2, ScriptsAre
    <3> QED BY <1>4, <3>1
  <2>4. Len(scripts') = Len(scripts) - 1
    <3>1. scripts' \in Seq(QosSh)
      BY <2>1, <2>3, SeqDef
    <3> QED BY <2>1, <2>3, <3>1, LenProperties
  <2>5. nvram'.list = scripts[k].list /\ nvram'.en = nvram.en
    BY <1>2, <1>4 DEF Nvram
  <2> QED BY <1>1, <1>4, <2>2, <2>3, <2>4, <2>5
<1> QED BY <1>3, <1>4 DEF RunScript

(* A script that runs puts no list of tqos into another.                    *)
LEMMA ScriptsStayForeign ==
    ASSUME TypeOK, NEW k \in 1 .. MaxScripts, RunScript(k),
           \A j \in 1 .. Len(scripts) : scripts[j].list \notin OwnLists
    PROVE  \A j \in DOMAIN scripts' : scripts'[j].list \notin OwnLists
<1>1. k \in 1 .. Len(scripts) /\ Len(scripts) \in Nat
  BY ScriptRuns
<1>2. CASE /\ DOMAIN scripts' = 1 .. Len(scripts)
           /\ scripts'[k].list = scripts[k].list
           /\ \A j \in 1 .. Len(scripts) : j # k => scripts'[j] = scripts[j]
  BY <1>1, <1>2
<1>3. CASE /\ DOMAIN scripts' = 1 .. Len(scripts) - 1
           /\ \A j \in 1 .. Len(scripts) - 1 :
                 scripts'[j] = scripts[IF j < k THEN j ELSE j + 1]
  <2>1. \A j \in 1 .. Len(scripts) - 1 :
           (IF j < k THEN j ELSE j + 1) \in 1 .. Len(scripts)
    BY <1>1
  <2> QED BY <1>3, <2>1
<1>4. \/ /\ DOMAIN scripts' = 1 .. Len(scripts)
         /\ scripts'[k].list = scripts[k].list
         /\ \A j \in 1 .. Len(scripts) : j # k => scripts'[j] = scripts[j]
      \/ /\ DOMAIN scripts' = 1 .. Len(scripts) - 1
         /\ \A j \in 1 .. Len(scripts) - 1 :
               scripts'[j] = scripts[IF j < k THEN j ELSE j + 1]
  BY ScriptRuns
<1> QED BY <1>2, <1>3, <1>4

(* What the user writes is the user's.                                      *)
LEMMA UserWrites ==
    ASSUME ListsAreTold, UserChange
    PROVE  nvram'.list \notin OwnLists
BY DEF ListsAreTold, UserChange

(* A start that finds a record puts back its list, and nothing else.        *)
LEMMA RestoresShape ==
    ASSUME TypeOK
    PROVE  /\ file \notin SavedCfg => Restores = <<>> /\ scripts \o Restores = scripts
           /\ file \in SavedCfg =>
                 /\ Restores = <<RestoreScript(file)>>
                 /\ RestoreScript(file).list = file.list
<1>1. CASE file \notin SavedCfg
  <2>1. Restores = <<>>
    BY <1>1 DEF TypeOK, Restores
  <2>2. scripts \o <<>> = scripts
    BY ConcatEmptySeq DEF TypeOK
  <2> QED BY <1>1, <2>1, <2>2
<1>2. CASE file \in SavedCfg
  BY <1>2, QosAssumption DEF Restores, RestoreScript, Script
<1> QED BY <1>1, <1>2

-----------------------------------------------------------------------------
(* The configuration before the session.  If a session waits until the      *)
(* limits of the last are gone, what it takes for the user's is the user's, *)
(* and so is what the record holds.                                         *)

PriorSaved ==
    /\ saved.list \notin OwnLists
    /\ file \in SavedCfg => file.list \notin OwnLists

LEMMA PriorStep ==
    ASSUME TypeOK, ListsAreTold, "reopen" \in Waits, PriorSaved, [Next]_vars
    PROVE  PriorSaved'
<1>1. ASSUME NEW c \in Cips, NEW t \in ReqTimes, NEW lim \in Limits, StartQosReq(c, t, lim)
      PROVE  PriorSaved'
  <2>1. CASE enable = 1
    BY <1>1, <2>1 DEF StartQosReq, OpenSession, PriorSaved
  <2>2. CASE enable = 0
    <3>1. nvram.list \notin OwnLists
      BY <1>1, <2>2 DEF StartQosReq, RequestComes
    <3>2. saved'.list = nvram.list /\ file' = saved'
      BY <1>1, <2>2 DEF StartQosReq, OpenSession
    <3> QED BY <3>1, <3>2 DEF PriorSaved
  <2> QED BY <2>1, <2>2 DEF TypeOK
<1>2. CASE Failures
  <2>1. saved' = saved \/ saved' = NothingSaved
    BY <1>2 DEF Failures, Die, DieRecording, SignalInWait, SignalInExpire, SignalWhenStuck,
                StartUp, Forget, ctlVars
  <2>2. file' = file \/ file' \in {NoFile, EmptyFile}
    BY <1>2 DEF Failures, Die, DieRecording, SignalInWait, SignalInExpire, SignalWhenStuck,
                StartUp, Forget
  <2>3. NothingSaved.list \notin OwnLists
    BY DEF NothingSaved, ListsAreTold
  <2> QED BY <2>1, <2>2, <2>3, QosAssumption DEF PriorSaved
<1>3. CASE \/ \E c \in Cips : StopSpeedReq(c)
           \/ EventLoop \/ \E k \in 1 .. MaxScripts : RunScript(k)
           \/ LeaseChange \/ UserChange \/ UNCHANGED vars
  <2>1. UNCHANGED <<saved, file>>
    BY <1>3 DEF StopSpeedReq, EventLoop, Tick, JumpTick, StartQos, QosTmHandler, ExpireReturn,
                RunScript, LeaseChange, UserChange, vars, ctlVars
  <2> QED BY <2>1 DEF PriorSaved
<1> QED BY <1>1, <1>2, <1>3 DEF Next, Requests

LEMMA PriorInvariant ==
    ASSUME ListsAreTold, "reopen" \in Waits
    PROVE  Spec => []PriorSaved
<1>1. Init => PriorSaved
  BY QosAssumption DEF Init, PriorSaved, NothingSaved, ListsAreTold
<1>2. TypeOK /\ PriorSaved /\ [Next]_vars => PriorSaved'
  BY PriorStep
<1> QED BY <1>1, <1>2, TypeCorrect, PTL DEF Spec

(* "store the qos config before our tserver": what QosSaved finds broken    *)
(* holds when no session opens while limits of the last one are in nvram.   *)
THEOREM PriorIsSaved ==
    ListsAreTold /\ "reopen" \in Waits => (Spec => []SavedIsPrior)
<1> SUFFICES ASSUME ListsAreTold, "reopen" \in Waits PROVE Spec => []SavedIsPrior
  OBVIOUS
<1>1. PriorSaved => SavedIsPrior
  BY DEF PriorSaved, SavedIsPrior
<1> QED BY <1>1, PriorInvariant, PTL

-----------------------------------------------------------------------------
(* The record of an accident.                                               *)

(* A process that is gone, or stuck, has freed its timers.                  *)
DownMeansNoTimers == daemon \in {"down", "stuck"} => timers = <<>>

LEMMA DownStep ==
    ASSUME DownMeansNoTimers, [Next]_vars
    PROVE  DownMeansNoTimers'
<1>1. CASE Failures
  BY <1>1 DEF Failures, Die, DieRecording, SignalInWait, SignalInExpire, SignalWhenStuck,
              StartUp, Forget, DownMeansNoTimers
<1>2. CASE Requests
  BY <1>2 DEF Requests, StartQosReq, StopSpeedReq, RequestComes, DownMeansNoTimers
<1>3. CASE EventLoop
  BY <1>3 DEF EventLoop, Tick, JumpTick, StartQos, QosTmHandler, ExpireReturn, DownMeansNoTimers
<1>4. CASE \/ \E k \in 1 .. MaxScripts : RunScript(k)
           \/ LeaseChange \/ UserChange \/ UNCHANGED vars
  BY <1>4 DEF RunScript, LeaseChange, UserChange, vars, DownMeansNoTimers
<1> QED BY <1>1, <1>2, <1>3, <1>4 DEF Next

(* Whoever has a timer armed has a record; without one, no limits of ours   *)
(* are in nvram, or about to be, that a script in flight does not take back.*)
OnRecord ==
    /\ timers # <<>> => file \in SavedCfg
    /\ file \notin SavedCfg =>
         /\ \A k \in DOMAIN scripts : scripts[k].list \notin OwnLists
         /\ nvram.list \in OwnLists => scripts # <<>>

RecordInv == DownMeansNoTimers /\ PriorSaved /\ OnRecord

(* A start while no script runs leaves nvram to the user, or will.          *)
LEMMA StartUpOnRecord ==
    ASSUME TypeOK, RecordInv, RecordWaits, StartUp
    PROVE  /\ OnRecord'
           /\ \A k \in DOMAIN scripts' : scripts'[k].list \notin OwnLists
           /\ nvram'.list \in OwnLists => scripts' # <<>>
<1>1. /\ daemon = "down" /\ scripts = <<>> /\ file' = NoFile
      /\ scripts' = scripts \o Restores /\ UNCHANGED <<timers, nvram>>
  BY DEF StartUp, RecordWaits
<1>2. timers' = <<>>
  BY <1>1 DEF RecordInv, DownMeansNoTimers
<1>3. CASE file \notin SavedCfg
  <2>1. scripts' = scripts /\ nvram.list \notin OwnLists
    BY <1>1, <1>3, RestoresShape DEF RecordInv, OnRecord
  <2> QED BY <1>1, <1>2, <2>1, EmptySeq DEF OnRecord
<1>4. CASE file \in SavedCfg
  <2>1. scripts' = <<RestoreScript(file)>>
    <3>1. <<>> \o <<RestoreScript(file)>> = <<RestoreScript(file)>>
      OBVIOUS
    <3> QED BY <1>1, <1>4, <3>1, RestoresShape
  <2>2. DOMAIN scripts' = 1 .. 1 /\ scripts'[1].list \notin OwnLists /\ scripts' # <<>>
    BY <1>4, <2>1, RestoresShape DEF RecordInv, PriorSaved
  <2> QED BY <1>2, <2>2 DEF OnRecord
<1> QED BY <1>3, <1>4

LEMMA OnRecordStep ==
    ASSUME TypeOK, ListsAreTold, RecordWaits, RecordInv, [Next]_vars
    PROVE  OnRecord'
<1>1. ASSUME NEW c \in Cips, NEW t \in ReqTimes, NEW lim \in Limits, StartQosReq(c, t, lim)
      PROVE  OnRecord'
  <2>1. CASE enable = 1
    BY <1>1, <2>1 DEF StartQosReq, OpenSession, RecordInv, OnRecord, envVars
  <2>2. CASE enable = 0
    <3>1. saved' = [en |-> IF nvram.en = 2 THEN 1 ELSE 0, list |-> nvram.list] /\ file' = saved'
      BY <1>1, <2>2 DEF StartQosReq, OpenSession
    <3>2. file' \in SavedCfg
      BY <3>1 DEF TypeOK, Nvram, SavedCfg
    <3> QED BY <3>2 DEF OnRecord
  <2> QED BY <2>1, <2>2 DEF TypeOK
<1>2. CASE StartQos \/ QosTmHandler
  <2>1. timers # <<>> /\ UNCHANGED file
    BY <1>2 DEF StartQos, QosTmHandler, Due
  <2> QED BY <2>1 DEF RecordInv, OnRecord
<1>3. CASE Tick \/ JumpTick
  <2>1. UNCHANGED <<file, nvram, scripts>> /\ DOMAIN timers' = DOMAIN timers
    BY <1>3, TickTimers DEF Tick, JumpTick, envVars
  <2>2. timers' # <<>> => timers # <<>>
    <3>1. timers = <<>> => timers' = <<>>
      BY <1>3, EmptySeq DEF Tick, JumpTick
    <3> QED BY <3>1
  <2> QED BY <2>1, <2>2 DEF RecordInv, OnRecord
<1>4. CASE Failures
  <2>1. ASSUME NEW how \in {"kill", "power"}, Die(how) PROVE OnRecord'
    <3>1. scripts' = scripts
      BY <2>1 DEF Die, RecordWaits
    <3> QED BY <2>1, <3>1 DEF Die, Forget, RecordInv, OnRecord
  <2>2. ASSUME NEW how \in {"kill", "power"}, DieRecording(how) PROVE OnRecord'
    <3>1. scripts = <<>> /\ nvram.list \notin OwnLists
      BY <2>2 DEF DieRecording, RequestComes, RecordWaits
    <3>2. scripts' = <<>> /\ nvram' = nvram /\ timers' = <<>>
      BY <2>2, <3>1 DEF DieRecording, Forget
    <3> QED BY <3>1, <3>2, EmptySeq DEF OnRecord
  <2>3. CASE SignalInWait \/ SignalInExpire
    <3>1. scripts' = scripts \o Restores /\ timers' = <<>> /\ UNCHANGED <<file, nvram>>
      BY <2>3 DEF SignalInWait, SignalInExpire, Forget
    <3> QED BY <3>1, RestoresShape DEF RecordInv, OnRecord
  <2>4. CASE SignalWhenStuck
    <3>1. /\ scripts' = scripts \o Restores \o Restores
          /\ timers' = <<>> /\ UNCHANGED <<file, nvram>>
      BY <2>4 DEF SignalWhenStuck, Forget
    <3> QED BY <3>1, RestoresShape DEF RecordInv, OnRecord
  <2>5. CASE StartUp
    BY <2>5, StartUpOnRecord
  <2> QED BY <1>4, <2>1, <2>2, <2>3, <2>4, <2>5 DEF Failures
<1>5. ASSUME NEW k \in 1 .. MaxScripts, RunScript(k) PROVE OnRecord'
  <2>1. UNCHANGED <<file, timers>>
    BY <1>5 DEF RunScript
  <2>2. CASE file \in SavedCfg
    BY <2>1, <2>2 DEF RecordInv, OnRecord
  <2>3. CASE file \notin SavedCfg
    <3>1. \A j \in 1 .. Len(scripts) : scripts[j].list \notin OwnLists
      BY <2>3, ScriptsAre DEF RecordInv, OnRecord
    <3>2. \A j \in DOMAIN scripts' : scripts'[j].list \notin OwnLists
      BY <1>5, <3>1, ScriptsStayForeign
    <3>3. nvram'.list \in OwnLists => scripts' # <<>>
      <4>1. nvram'.list \notin OwnLists \/ Len(scripts') = Len(scripts)
        BY <1>5, <3>1, ScriptRuns
      <4>2. Len(scripts') = Len(scripts) => scripts' # <<>>
        BY <1>5, ScriptRuns, EmptySeq
      <4> QED BY <4>1, <4>2
    <3> QED BY <2>1, <3>2, <3>3 DEF RecordInv, OnRecord
  <2> QED BY <2>2, <2>3
<1>6. CASE UserChange
  BY <1>6, UserWrites DEF UserChange, RecordInv, OnRecord
<1>7. CASE \/ \E c \in Cips : StopSpeedReq(c)
           \/ ExpireReturn \/ LeaseChange \/ UNCHANGED vars
  <2>1. UNCHANGED <<timers, file, nvram, scripts>>
    BY <1>7 DEF StopSpeedReq, ExpireReturn, LeaseChange, vars, envVars
  <2> QED BY <2>1 DEF RecordInv, OnRecord
<1> QED BY <1>1, <1>2, <1>3, <1>4, <1>5, <1>6, <1>7 DEF Next, Requests, EventLoop

LEMMA RecordInvariant ==
    ASSUME ListsAreTold, RecordWaits
    PROVE  Spec => []RecordInv
<1>1. Init => RecordInv
  <2> SUFFICES ASSUME Init PROVE RecordInv
    OBVIOUS
  <2>1. nvram.list \notin OwnLists /\ scripts = <<>> /\ timers = <<>> /\ daemon = "wait"
    BY DEF Init, ListsAreTold
  <2>2. file = NoFile /\ saved = NothingSaved /\ file \notin SavedCfg
    BY QosAssumption DEF Init
  <2> QED BY <2>1, <2>2, EmptySeq
          DEF RecordInv, DownMeansNoTimers, PriorSaved, OnRecord, NothingSaved, ListsAreTold
<1>2. TypeOK /\ RecordInv /\ [Next]_vars => RecordInv'
  <2>1. "reopen" \in Waits
    BY DEF RecordWaits
  <2> QED BY <2>1, DownStep, PriorStep, OnRecordStep DEF RecordInv
<1> QED BY <1>1, <1>2, TypeCorrect, PTL DEF Spec

(* However the process ends, limits of the daemon's that stay in nvram are  *)
(* on record for the next start (record_qos_cfg_to_file, main): for a user  *)
(* who keeps other lists, and scripts that end before a request, a start or *)
(* a loss of power comes.                                                   *)
THEOREM AccidentsAreRecorded ==
    ListsAreTold /\ RecordWaits => (Spec => []AccidentRecorded)
<1> SUFFICES ASSUME ListsAreTold, RecordWaits PROVE Spec => []AccidentRecorded
  OBVIOUS
<1>1. RecordInv => AccidentRecorded
  BY DEF RecordInv, OnRecord, AccidentRecorded
<1> QED BY <1>1, RecordInvariant, PTL

-----------------------------------------------------------------------------
(* What the scripts in flight make of nvram, when none overtakes another.   *)

(* Only the first script has run half of itself, and it shows in nvram.     *)
OneHalfRun ==
    /\ \A k \in DOMAIN scripts : k > 1 => scripts[k].step = 1
    /\ scripts # <<>> /\ Head(scripts).step = 2 => nvram.en = Head(scripts).en

LEMMA SameHalfRun ==
    OneHalfRun /\ UNCHANGED <<nvram, scripts>> => OneHalfRun'
BY DEF OneHalfRun

(* Scripts that start come after the others, which are as they were.        *)
LEMMA ScriptsAdded ==
    ASSUME TypeOK, NEW r \in Seq(QosSh), scripts' = scripts \o r
    PROVE  /\ Len(scripts') = Len(scripts) + Len(r)
           /\ DOMAIN scripts' = 1 .. Len(scripts) + Len(r)
           /\ DOMAIN r = 1 .. Len(r) /\ Len(r) \in Nat
           /\ \A k \in 1 .. Len(scripts) : scripts'[k] = scripts[k]
           /\ \A k \in Len(scripts) + 1 .. Len(scripts) + Len(r) :
                 scripts'[k] = r[k - Len(scripts)]
<1>1. Len(scripts) \in Nat /\ Len(r) \in Nat /\ DOMAIN r = 1 .. Len(r)
  BY ScriptsAre, LenProperties
<1>2. /\ scripts' \in Seq(QosSh)
      /\ Len(scripts') = Len(scripts) + Len(r)
      /\ \A i \in 1 .. Len(scripts) + Len(r) :
            scripts'[i] = IF i <= Len(scripts) THEN scripts[i] ELSE r[i - Len(scripts)]
  BY ConcatProperties DEF TypeOK
<1>3. DOMAIN scripts' = 1 .. Len(scripts) + Len(r)
  BY <1>2, LenProperties
<1> QED BY <1>1, <1>2, <1>3

LEMMA StartHalfRun ==
    ASSUME TypeOK, OneHalfRun, NEW r \in Seq(QosSh), \A k \in DOMAIN r : r[k].step = 1,
           UNCHANGED nvram, scripts' = scripts \o r
    PROVE  OneHalfRun'
<1>1. Len(scripts) \in Nat /\ DOMAIN scripts = 1 .. Len(scripts)
  BY ScriptsAre
<1>2. \A k \in DOMAIN scripts' :
          \/ k \in 1 .. Len(scripts) /\ scripts'[k] = scripts[k]
          \/ k > Len(scripts) /\ scripts'[k].step = 1
  <2> SUFFICES ASSUME NEW k \in DOMAIN scripts'
               PROVE  \/ k \in 1 .. Len(scripts) /\ scripts'[k] = scripts[k]
                      \/ k > Len(scripts) /\ scripts'[k].step = 1
    OBVIOUS
  <2>1. k \in 1 .. Len(scripts) + Len(r) /\ DOMAIN r = 1 .. Len(r) /\ Len(r) \in Nat
    BY ScriptsAdded
  <2>2. CASE k <= Len(scripts)
    BY <1>1, <2>1, <2>2, ScriptsAdded
  <2>3. CASE k > Len(scripts)
    <3>1. k - Len(scripts) \in 1 .. Len(r)
      BY <1>1, <2>1, <2>3
    <3>2. scripts'[k] = r[k - Len(scripts)]
      <4>1. k \in Len(scripts) + 1 .. Len(scripts) + Len(r)
        BY <1>1, <2>1, <2>3
      <4> QED BY <4>1, ScriptsAdded
    <3> QED BY <2>1, <2>3, <3>1, <3>2
  <2> QED BY <1>1, <2>1, <2>2, <2>3
<1>3. \A k \in DOMAIN scripts' : k > 1 => scripts'[k].step = 1
  BY <1>1, <1>2 DEF OneHalfRun
<1>4. ASSUME scripts' # <<>>, Head(scripts').step = 2 PROVE nvram'.en = Head(scripts').en
  <2>1. Head(scripts') = scripts'[1]
    BY <1>4
  <2>2. 1 \in DOMAIN scripts'
    <3>1. scripts' \in Seq(QosSh)
      BY ConcatProperties DEF TypeOK
    <3> QED BY <1>4, <3>1, EmptySeq, LenProperties
  <2>3. 1 \in 1 .. Len(scripts) /\ scripts'[1] = scripts[1]
    BY <1>1, <1>2, <1>4, <2>1, <2>2
  <2>4. scripts # <<>> /\ Head(scripts) = scripts[1]
    BY <1>1, <2>3, ScriptsAre
  <2> QED BY <1>4, <2>1, <2>3, <2>4 DEF OneHalfRun
<1> QED BY <1>3, <1>4 DEF OneHalfRun

LEMMA RunHalfRun ==
    ASSUME TypeOK, OneHalfRun, "later" \in Waits, NEW k \in 1 .. MaxScripts, RunScript(k)
    PROVE  OneHalfRun'
<1>1. k = 1 /\ Head(scripts) = scripts[1]
  <2>1. k = 1
    BY DEF RunScript
  <2>2. k \in 1 .. Len(scripts) /\ Len(scripts) \in Nat
    BY ScriptRuns
  <2> QED BY <2>1, <2>2, ScriptsAre
<1>2. scripts' # <<>> => Head(scripts') = scripts'[1]
  OBVIOUS
<1>3. \A j \in 2 .. Len(scripts) : scripts[j].step = 1
  BY ScriptsAre DEF OneHalfRun
<1>4. CASE scripts[1].step = 1
  <2>1. /\ nvram'.en = scripts[1].en /\ scripts'[1].en = scripts[1].en
        /\ DOMAIN scripts' = 1 .. Len(scripts)
        /\ \A j \in 1 .. Len(scripts) : j # 1 => scripts'[j] = scripts[j]
    BY <1>1, <1>4, ScriptRuns
  <2> QED BY <1>2, <1>3, <2>1 DEF OneHalfRun
<1>5. CASE scripts[1].step # 1
  <2>1. /\ DOMAIN scripts' = 1 .. Len(scripts) - 1
        /\ \A j \in 1 .. Len(scripts) - 1 : scripts'[j] = scripts[j + 1]
        /\ Len(scripts) \in Nat /\ Len(scripts') = Len(scripts) - 1
    BY <1>1, <1>5, ScriptRuns
  <2>2. \A j \in DOMAIN scripts' : scripts'[j].step = 1
    BY <1>3, <2>1
  <2>3. scripts' # <<>> => 1 \in DOMAIN scripts'
    BY <2>1, EmptySeq
  <2> QED BY <1>2, <2>2, <2>3 DEF OneHalfRun
<1> QED BY <1>4, <1>5

(* Every step but one of a script's leaves the scripts alone, ends them all *)
(* with the power, or starts some.                                          *)
LEMMA ScriptsStart ==
    ASSUME TypeOK, [Next]_vars, \A k \in 1 .. MaxScripts : ~RunScript(k)
    PROVE  /\ UNCHANGED nvram \/ UserChange
           /\ \/ UNCHANGED scripts
              \/ scripts' = <<>>
              \/ /\ UNCHANGED nvram
                 /\ \E r \in Seq(QosSh) : /\ scripts' = scripts \o r
                                         /\ \A j \in DOMAIN r : r[j].step = 1
<1> DEFINE Fresh(r) == r \in Seq(QosSh) /\ \A j \in DOMAIN r : r[j].step = 1
<1>1. ASSUME NEW s \in QosSh, s.step = 1
      PROVE  Append(scripts, s) = scripts \o <<s>> /\ Fresh(<<s>>)
  <2>1. Append(scripts, s) = scripts \o <<s>>
    BY AppendIsConcat DEF TypeOK
  <2>2. <<s>> \in Seq(QosSh) /\ \A j \in DOMAIN <<s>> : <<s>>[j].step = 1
    BY <1>1
  <2> QED BY <2>1, <2>2
<1>2. \A e \in {0, 2}, l \in Lists : Script(e, l) \in QosSh /\ Script(e, l).step = 1
  BY DEF Script, QosSh
<1>3. Fresh(Restores)
  <2>1. Restores \in Seq(QosSh)
    BY RestoresType DEF TypeOK
  <2>2. \A j \in DOMAIN Restores : Restores[j].step = 1
    BY DEF Restores, RestoreScript, Script
  <2> QED BY <2>1, <2>2
<1>4. Fresh(Restores \o Restores) /\ scripts \o Restores \o Restores = scripts \o (Restores \o Restores)
  <2> DEFINE R == Restores
             n == Len(R)
  <2>1. R \in Seq(QosSh) /\ n \in Nat /\ DOMAIN R = 1 .. n
    BY <1>3, LenProperties
  <2>2. \A j \in 1 .. n : R[j].step = 1
    BY <1>3, <2>1
  <2> HIDE DEF R
  <2>3. R \o R \in Seq(QosSh) /\ Len(R \o R) = n + n
        /\ \A i \in 1 .. n + n : (R \o R)[i] = IF i <= n THEN R[i] ELSE R[i - n]
    BY <2>1, ConcatProperties
  <2>4. DOMAIN (R \o R) = 1 .. n + n
    BY <2>3, LenProperties
  <2>5. \A i \in 1 .. n + n : (R \o R)[i].step = 1
    BY <2>1, <2>2, <2>3
  <2>6. (scripts \o R) \o R = scripts \o (R \o R)
    <3>1. scripts \in Seq(QosSh) /\ R \in Seq(QosSh)
      BY <2>1 DEF TypeOK
    <3> QED BY <3>1, ConcatAssociative
  <2>7. Fresh(R \o R)
    BY <2>3, <2>4, <2>5
  <2> QED BY <2>6, <2>7 DEF R
<1> HIDE DEF Fresh
<1>5. CASE UNCHANGED <<nvram, scripts>>
  BY <1>5
<1>6. CASE UserChange
  BY <1>6 DEF UserChange
<1>7. ASSUME UNCHANGED nvram, NEW r, Fresh(r), scripts' = scripts \o r
      PROVE  \E q \in Seq(QosSh) : scripts' = scripts \o q /\ \A j \in DOMAIN q : q[j].step = 1
  BY <1>7 DEF Fresh
<1>8. CASE Requests
  BY <1>5, <1>8 DEF Requests, StartQosReq, StopSpeedReq, envVars
<1>9. CASE Tick \/ JumpTick \/ ExpireReturn \/ LeaseChange \/ UNCHANGED vars
  BY <1>5, <1>9 DEF Tick, JumpTick, ExpireReturn, LeaseChange, vars, envVars
<1>10. CASE StartQos
  <2>1. Script(2, QosList(qos_cli)) \in QosSh /\ Script(2, QosList(qos_cli)).step = 1
    BY <1>2, QosListType
  <2>2. /\ UNCHANGED nvram
        /\ UNCHANGED scripts \/ scripts' = Append(scripts, Script(2, QosList(qos_cli)))
    BY <1>10 DEF StartQos
  <2> HIDE DEF Script, QosList
  <2> QED BY <1>1, <1>7, <2>1, <2>2
<1>11. CASE QosTmHandler
  <2> DEFINE list == QosList(Aged(qos_cli))
  <2>1. Script(2, list) \in QosSh /\ Script(2, list).step = 1
    BY <1>2, QosListType
  <2>2. RestoreScript(saved) \in QosSh /\ RestoreScript(saved).step = 1
    BY RestoreType DEF TypeOK, RestoreScript, Script
  <2>3. /\ UNCHANGED nvram
        /\ \/ UNCHANGED scripts
           \/ scripts' = Append(scripts, Script(2, list))
           \/ scripts' = Append(scripts, RestoreScript(saved))
    BY <1>11 DEF QosTmHandler, LoopListFails, LoopRestores, LoopContinues, Refresh
  <2> HIDE DEF list
  <2> QED BY <1>1, <1>7, <2>1, <2>2, <2>3
<1>12. CASE Failures
  <2>1. /\ UNCHANGED nvram
        /\ \/ UNCHANGED scripts
           \/ scripts' = <<>>
           \/ scripts' = scripts \o Restores
           \/ scripts' = scripts \o Restores \o Restores
    BY <1>12 DEF Failures, Die, DieRecording, SignalInWait, SignalInExpire, SignalWhenStuck, StartUp
  <2> QED BY <1>3, <1>4, <1>7, <2>1
<1> QED BY <1>5, <1>6, <1>8, <1>9, <1>10, <1>11, <1>12 DEF Next, EventLoop

LEMMA HalfRunStep ==
    ASSUME TypeOK, "later" \in Waits, ~UserChanges, OneHalfRun, [Next]_vars
    PROVE  OneHalfRun'
<1>1. CASE \E k \in 1 .. MaxScripts : RunScript(k)
  BY <1>1, RunHalfRun
<1>2. CASE \A k \in 1 .. MaxScripts : ~RunScript(k)
  <2>1. UNCHANGED nvram
    BY <1>2, ScriptsStart DEF UserChange
  <2>2. CASE scripts' = <<>>
    BY <2>2, EmptySeq DEF OneHalfRun
  <2> QED BY <1>2, <2>1, <2>2, ScriptsStart, SameHalfRun, StartHalfRun
<1> QED BY <1>1, <1>2

(* What is in nvram once the scripts in flight have run.                    *)
WillLeave(e, l) ==
    IF scripts = <<>> THEN nvram = [en |-> e, list |-> l]
    ELSE scripts[Len(scripts)].en = e /\ scripts[Len(scripts)].list = l

LEMMA StartLeaves ==
    ASSUME TypeOK, NEW e \in {0, 2}, NEW l \in Lists, scripts' = Append(scripts, Script(e, l))
    PROVE  /\ scripts' # <<>>
           /\ scripts'[Len(scripts')].en = e /\ scripts'[Len(scripts')].list = l
<1>1. Script(e, l) \in QosSh /\ Script(e, l).en = e /\ Script(e, l).list = l
  BY DEF Script, QosSh
<1> HIDE DEF Script
<1> QED BY <1>1, ScriptStarts

LEMMA RunLeaves ==
    ASSUME TypeOK, OneHalfRun, "later" \in Waits, NEW k \in 1 .. MaxScripts, RunScript(k),
           NEW e, NEW l, WillLeave(e, l)
    PROVE  WillLeave(e, l)'
<1> DEFINE n == Len(scripts)
<1>1. k = 1 /\ n \in Nat \ {0} /\ Head(scripts) = scripts[1] /\ scripts # <<>>
  <2>1. k = 1
    BY DEF RunScript
  <2>2. k \in 1 .. n /\ n \in Nat
    BY ScriptRuns
  <2> QED BY <2>1, <2>2, ScriptsAre
<1>2. scripts[n].en = e /\ scripts[n].list = l
  BY <1>1 DEF WillLeave
<1>3. Len(scripts') # 0 => scripts' # <<>>
  BY EmptySeq
<1>4. CASE scripts[1].step = 1
  <2>1. /\ Len(scripts') = n
        /\ scripts'[1].en = scripts[1].en /\ scripts'[1].list = scripts[1].list
        /\ \A j \in 1 .. n : j # 1 => scripts'[j] = scripts[j]
    BY <1>1, <1>4, ScriptRuns
  <2>2. scripts'[n].en = e /\ scripts'[n].list = l
    BY <1>1, <1>2, <2>1
  <2> QED BY <1>1, <1>3, <2>1, <2>2 DEF WillLeave
<1>5. CASE scripts[1].step # 1
  <2>1. /\ scripts[1].step = 2
        /\ nvram'.list = scripts[1].list /\ nvram'.en = nvram.en
        /\ Len(scripts') = n - 1 /\ DOMAIN scripts' = 1 .. n - 1
        /\ \A j \in 1 .. n - 1 : scripts'[j] = scripts[j + 1]
    BY <1>1, <1>5, ScriptRuns
  <2>2. CASE n = 1
    <3>1. scripts' = <<>>
      <4>1. scripts' = [j \in 1 .. Len(scripts) - 1 |-> scripts[IF j < k THEN j ELSE j + 1]]
        BY <1>1, <1>5 DEF RunScript
      <4> QED BY <2>2, <4>1
    <3>2. nvram.en = scripts[1].en
      BY <1>1, <2>1 DEF OneHalfRun
    <3>3. nvram' \in Nvram
      <4>1. scripts[1].list \in Lists
        BY <1>1, ScriptsAre DEF QosSh
      <4> QED BY <1>1, <1>5, <4>1 DEF RunScript, TypeOK, Nvram
    <3>4. nvram' = [en |-> e, list |-> l]
      BY <1>2, <2>1, <2>2, <3>2, <3>3 DEF Nvram
    <3> QED BY <3>1, <3>4 DEF WillLeave
  <2>3. CASE n # 1
    <3>1. scripts'[n - 1] = scripts[n] /\ n - 1 # 0
      BY <1>1, <2>1, <2>3
    <3> QED BY <1>2, <1>3, <2>1, <3>1 DEF WillLeave
  <2> QED BY <2>2, <2>3
<1> QED BY <1>4, <1>5

-----------------------------------------------------------------------------
(* The limits that are applied.                                             *)

(* A loop run that is armed comes after the other timers.                   *)
LEMMA ArmedLast ==
    ASSUME NEW ts \in Seq(Timer), NEW q, q = Arm(ts, "loop", TIME_QOS)
    PROVE  /\ Len(ts) \in Nat
           /\ q \in Seq(Timer)
           /\ DOMAIN q = 1 .. Len(ts) + 1
           /\ \A k \in 1 .. Len(ts) : q[k] = ts[k]
           /\ q[Len(ts) + 1] = [handler |-> "loop", left |-> TIME_QOS]
<1>1. TIME_QOS \in 0 .. TIME_QOS
  BY QosAssumption
<1>2. Arm(ts, "loop", TIME_QOS) \in Seq(Timer)
      /\ Len(Arm(ts, "loop", TIME_QOS)) = Len(ts) + 1
  BY <1>1, ArmShape
<1>3. /\ \A k \in 1 .. Len(ts) : Arm(ts, "loop", TIME_QOS)[k] = ts[k]
      /\ Arm(ts, "loop", TIME_QOS)[Len(ts) + 1] = [handler |-> "loop", left |-> TIME_QOS]
  <2>1. ASSUME NEW s \in 0 .. TIME_QOS, s = TIME_QOS
        PROVE  /\ \A k \in 1 .. Len(ts) : Arm(ts, "loop", s)[k] = ts[k]
               /\ Arm(ts, "loop", s)[Len(ts) + 1] = [handler |-> "loop", left |-> s]
    <3>1. "loop" \in {"start", "loop"}
      OBVIOUS
    <3>2. PICK n \in 0 .. Len(ts) :
              /\ \A k \in 1 .. n : Arm(ts, "loop", s)[k] = ts[k]
              /\ Arm(ts, "loop", s)[n + 1] = [handler |-> "loop", left |-> s]
              /\ \A k \in n + 2 .. Len(ts) + 1 : Arm(ts, "loop", s)[k] = ts[k - 1]
              /\ s = TIME_QOS => n = Len(ts)
      BY <3>1, ArmShape, Zenon
    <3> QED BY <2>1, <3>2
  <2> QED BY <1>1, <2>1
<1>4. Len(ts) \in Nat /\ DOMAIN q = 1 .. Len(ts) + 1
  BY <1>2, LenProperties
<1> QED BY <1>2, <1>3, <1>4

(* What a run of the loop leaves of the timers when it continues.           *)
LEMMA ContinueTimers ==
    ASSUME TypeOK, Due, timers' = Arm(Tail(timers), "loop", TIME_QOS)
    PROVE  /\ Len(timers) \in Nat \ {0}
           /\ DOMAIN timers' = 1 .. Len(timers)
           /\ \A k \in 1 .. Len(timers) - 1 : timers'[k] = timers[k + 1]
           /\ timers'[Len(timers)] = [handler |-> "loop", left |-> TIME_QOS]
<1> DEFINE ts == Tail(timers)
<1>1. /\ ts \in Seq(Timer) /\ Len(timers) \in Nat \ {0} /\ Len(ts) = Len(timers) - 1
      /\ \A k \in 1 .. Len(timers) - 1 : ts[k] = timers[k + 1]
  BY DueShape DEF TypeOK
<1>2. timers' = Arm(ts, "loop", TIME_QOS)
  OBVIOUS
<1> HIDE DEF ts
<1>3. /\ DOMAIN timers' = 1 .. Len(ts) + 1
      /\ \A k \in 1 .. Len(ts) : timers'[k] = ts[k]
      /\ timers'[Len(ts) + 1] = [handler |-> "loop", left |-> TIME_QOS]
  BY <1>1, <1>2, ArmedLast
<1> QED BY <1>1, <1>3

NoStart == \A k \in DOMAIN timers : timers[k].handler # "start"

(* Once start_qos has run, the last script leaves the list of the loop.     *)
SessionApplied == Up /\ enable = 1 /\ NoStart => WillLeave(2, ip_list)

LEMMA SessionAppliedStep ==
    ASSUME TypeOK, ListsFit, "later" \in Waits, ~UserChanges, DownMeansOff,
           OneHalfRun, SessionApplied, [Next]_vars
    PROVE  SessionApplied'
<1>1. SUFFICES ASSUME Up', enable' = 1, NoStart' PROVE WillLeave(2, ip_list)'
  BY DEF SessionApplied
<1>2. ASSUME NEW c \in Cips, NEW t \in ReqTimes, NEW lim \in Limits, StartQosReq(c, t, lim)
      PROVE  WillLeave(2, ip_list)'
  <2>1. CASE enable = 0
    <3> DEFINE ts == Arm(timers, "start", StartDelay)
    <3>1. StartDelay \in 0 .. TIME_QOS /\ TIME_QOS \in 0 .. TIME_QOS
      BY QosAssumption
    <3>2. ts \in Seq(Timer) /\ \E k \in 1 .. Len(ts) : ts[k].handler = "start"
      <4>1. ts \in Seq(Timer) /\ Len(ts) = Len(timers) + 1 /\ Len(timers) \in Nat
        BY <3>1, ArmShape, TimersAre DEF TypeOK
      <4>2. \E n \in 0 .. Len(timers) : ts[n + 1] = [handler |-> "start", left |-> StartDelay]
        BY <3>1, ArmShape DEF TypeOK
      <4> QED BY <4>1, <4>2
    <3>3. timers' = Arm(ts, "loop", TIME_QOS)
      BY <1>2, <2>1 DEF StartQosReq, OpenSession
    <3> HIDE DEF ts
    <3>4. /\ \A k \in 1 .. Len(ts) : timers'[k] = ts[k]
          /\ DOMAIN timers' = 1 .. Len(ts) + 1 /\ Len(ts) \in Nat
      BY <3>2, <3>3, ArmedLast
    <3> QED BY <1>1, <3>2, <3>4 DEF NoStart
  <2>2. CASE enable = 1
    <3>1. UNCHANGED <<timers, ip_list, nvram, scripts>> /\ daemon = "wait"
      BY <1>2, <2>2 DEF StartQosReq, OpenSession, RequestComes, envVars
    <3> QED BY <1>1, <2>2, <3>1 DEF SessionApplied, NoStart, WillLeave, Up
  <2> QED BY <2>1, <2>2 DEF TypeOK
<1>3. ASSUME NEW c \in Cips, StopSpeedReq(c) PROVE WillLeave(2, ip_list)'
  <2>1. UNCHANGED <<timers, ip_list, nvram, scripts>> /\ daemon = "wait"
    BY <1>3 DEF StopSpeedReq, envVars
  <2>2. enable = 1
    <3>1. enable' = IF cli_cnt' = 0 THEN 0 ELSE enable
      BY <1>3 DEF StopSpeedReq
    <3> QED BY <1>1, <3>1
  <2> QED BY <1>1, <2>1, <2>2 DEF SessionApplied, NoStart, WillLeave, Up
<1>4. CASE Tick \/ JumpTick
  <2>1. UNCHANGED <<enable, ip_list, nvram, scripts>> /\ daemon = "wait"
    BY <1>4 DEF Tick, JumpTick, ctlVars, envVars
  <2>2. NoStart
    BY <1>1, <1>4, TickTimers DEF NoStart
  <2> QED BY <1>1, <2>1, <2>2 DEF SessionApplied, WillLeave, Up
<1>5. CASE StartQos
  <2> DEFINE list == QosList(qos_cli)
  <2>1. ~ListFails(list) /\ list \in Lists
    BY ListNeverFails, QosListType DEF TypeOK
  <2>2. ip_list' = list /\ scripts' = Append(scripts, Script(2, list))
    BY <1>5, <2>1 DEF StartQos
  <2> HIDE DEF list
  <2> QED BY <2>1, <2>2, StartLeaves DEF WillLeave
<1>6. CASE QosTmHandler
  <2> DEFINE list == QosList(Aged(qos_cli))
  <2>1. ~ListFails(list) /\ list \in Lists
    BY AgedType, ListNeverFails, QosListType DEF TypeOK
  <2>2. ~LoopRestores
    BY <1>1 DEF LoopRestores
  <2>3. LoopContinues
    BY <1>6, <2>1, <2>2 DEF QosTmHandler, LoopListFails
  <2>4. /\ Due /\ Head(timers).handler = "loop" /\ UNCHANGED <<enable, nvram>>
        /\ ip_list' = list /\ timers' = Arm(Tail(timers), "loop", TIME_QOS)
        /\ \/ list = ip_list /\ UNCHANGED scripts
           \/ scripts' = Append(scripts, Script(2, list))
    BY <1>6, <2>3 DEF QosTmHandler, LoopContinues, Refresh
  <2> HIDE DEF list
  <2>5. NoStart
    <3>1. /\ Len(timers) \in Nat \ {0} /\ DOMAIN timers' = 1 .. Len(timers)
          /\ \A k \in 1 .. Len(timers) - 1 : timers'[k] = timers[k + 1]
      BY <2>4, ContinueTimers
    <3>2. ASSUME NEW k \in 1 .. Len(timers) PROVE timers[k].handler # "start"
      <4>1. CASE k = 1
        BY <2>4, <4>1
      <4>2. CASE k # 1
        <5>1. k - 1 \in 1 .. Len(timers) - 1 /\ timers'[k - 1] = timers[k]
          BY <3>1, <4>2
        <5> QED BY <1>1, <3>1, <5>1 DEF NoStart
      <4> QED BY <4>1, <4>2
    <3> QED BY <3>2, TimersAre DEF NoStart
  <2>6. Up
    BY <1>6 DEF QosTmHandler, Up
  <2>7. CASE UNCHANGED scripts /\ list = ip_list
    BY <1>1, <2>4, <2>5, <2>6, <2>7 DEF SessionApplied, WillLeave
  <2>8. CASE scripts' = Append(scripts, Script(2, list))
    BY <2>1, <2>4, <2>8, StartLeaves DEF WillLeave
  <2> QED BY <2>4, <2>7, <2>8
<1>7. CASE Failures
  <2>1. CASE StartUp
    BY <1>1, <2>1 DEF StartUp, ctlVars, DownMeansOff
  <2>2. daemon' \in {"down", "stuck"} \/ StartUp
    BY <1>7 DEF Failures, Die, DieRecording, SignalInWait, SignalInExpire, SignalWhenStuck, Forget
  <2> QED BY <1>1, <2>1, <2>2 DEF Up
<1>8. ASSUME NEW k \in 1 .. MaxScripts, RunScript(k) PROVE WillLeave(2, ip_list)'
  <2>1. UNCHANGED <<enable, ip_list, timers, daemon>>
    BY <1>8 DEF RunScript, ctlVars
  <2>2. WillLeave(2, ip_list)
    BY <1>1, <2>1 DEF SessionApplied, NoStart, Up
  <2>3. \A l : WillLeave(2, l) => WillLeave(2, l)'
    BY <1>8, RunLeaves
  <2> QED BY <2>1, <2>2, <2>3 DEF WillLeave
<1>9. CASE ExpireReturn \/ LeaseChange \/ UserChange \/ UNCHANGED vars
  <2>1. UNCHANGED <<enable, ip_list, timers, nvram, scripts>>
    BY <1>9 DEF ExpireReturn, LeaseChange, UserChange, vars, ctlVars, envVars
  <2>2. Up
    BY <1>1, <1>9 DEF ExpireReturn, LeaseChange, UserChange, vars, Up
  <2> QED BY <1>1, <2>1, <2>2 DEF SessionApplied, NoStart, WillLeave
<1> QED
  BY <1>2, <1>3, <1>4, <1>5, <1>6, <1>7, <1>8, <1>9 DEF Next, Requests, EventLoop

(* While no qos.sh overtakes another and the lists fit, a session that has  *)
(* started keeps the loop's list in nvram (start_qos, qos_tm_handler); what *)
(* the user changes in between nobody notices.                              *)
THEOREM LimitsStayApplied ==
    ListsFit /\ "later" \in Waits /\ ~UserChanges => (Spec => []AppliedWhileOn)
<1> SUFFICES ASSUME ListsFit, "later" \in Waits, ~UserChanges PROVE Spec => []AppliedWhileOn
  OBVIOUS
<1>1. Init => OneHalfRun /\ SessionApplied
  BY EmptySeq DEF Init, OneHalfRun, SessionApplied
<1>2. TypeOK /\ SessionInv /\ OneHalfRun /\ SessionApplied /\ [Next]_vars
        => (OneHalfRun /\ SessionApplied)'
  BY HalfRunStep, SessionAppliedStep DEF SessionInv
<1>3. SessionApplied => AppliedWhileOn
  BY DEF SessionApplied, NoStart, WillLeave, AppliedWhileOn
<1> QED BY <1>1, <1>2, <1>3, TypeCorrect, SessionInvariant, PTL DEF Spec

-----------------------------------------------------------------------------
(* The timers in expiry order.                                              *)

Ordered(ts) == \A i, j \in DOMAIN ts : i < j => ts[i].left <= ts[j].left

(* A set of positions with no gap below any of them is an initial interval. *)
LEMMA Prefix ==
    ASSUME NEW m \in Nat, NEW S \in SUBSET (1 .. m), \A i \in S : \A j \in 1 .. i : j \in S
    PROVE  S = 1 .. Cardinality(S) /\ Cardinality(S) \in 0 .. m
<1> DEFINE n == Cardinality(S)
<1>1. IsFiniteSet(S) /\ n \in Nat /\ n <= m
  <2>1. IsFiniteSet(1 .. m) /\ Cardinality(1 .. m) = m
    BY IntervalSize
  <2>2. IsFiniteSet(S) /\ Cardinality(S) <= m
    <3>1. PICK T : T = 1 .. m
      OBVIOUS
    <3>2. IsFiniteSet(T) /\ S \in SUBSET T /\ Cardinality(T) = m
      BY <2>1, <3>1
    <3>3. IsFiniteSet(S) /\ Cardinality(S) <= Cardinality(T)
      BY <3>2, FS_Subset
    <3> QED BY <3>2, <3>3
  <2> QED BY <2>2, FS_CardinalityType
<1>2. ASSUME NEW i \in S PROVE i \in 1 .. n
  <2>1. i \in Nat /\ i >= 1 /\ 1 .. i \in SUBSET S
    OBVIOUS
  <2>2. Cardinality(1 .. i) = i
    BY <2>1, IntervalSize
  <2>3. Cardinality(1 .. i) <= Cardinality(S)
    BY <1>1, <2>1, FS_Subset
  <2> QED BY <1>1, <2>1, <2>2, <2>3
<1>3. IsFiniteSet(1 .. n) /\ Cardinality(1 .. n) = n
  BY <1>1, IntervalSize
<1>4. S \in SUBSET (1 .. n)
  BY <1>2
<1>5. S = 1 .. n
  BY <1>3, <1>4, FS_Subset
<1> QED BY <1>1, <1>5

(* tq_timer_new keeps the order: the new timer goes behind those that       *)
(* expire no later, which are the first ones.                               *)
LEMMA ArmOrdered ==
    ASSUME NEW ts \in Seq(Timer), Ordered(ts),
           NEW h \in {"start", "loop"}, NEW s \in 0 .. TIME_QOS
    PROVE  Ordered(Arm(ts, h, s))
<1> DEFINE before == {k \in DOMAIN ts : ts[k].left <= s}
           n == Cardinality(before)
           new == [handler |-> h, left |-> s]
           at(k) == IF k <= n THEN ts[k] ELSE IF k = n + 1 THEN new ELSE ts[k - 1]
           m == Len(ts)
<1>1. m \in Nat /\ DOMAIN ts = 1 .. m /\ \A k \in 1 .. m : ts[k].left \in 0 .. TIME_QOS
  <2>1. m \in Nat /\ DOMAIN ts = 1 .. m /\ \A k \in 1 .. m : ts[k] \in Timer
    BY LenProperties, ElementOfSeq
  <2> QED BY <2>1 DEF Timer
<1>2. TIME_QOS \in Nat /\ s \in Nat
  BY QosAssumption
<1>3. before \in SUBSET (1 .. m) /\ \A i \in before : \A j \in 1 .. i : j \in before
  <2> SUFFICES ASSUME NEW i \in before, NEW j \in 1 .. i PROVE j \in before
    BY <1>1
  <2>1. i \in 1 .. m /\ j \in 1 .. m /\ ts[i].left <= s
    BY <1>1
  <2>2. ts[j].left <= ts[i].left
    BY <1>1, <2>1 DEF Ordered
  <2> QED BY <1>1, <1>2, <2>1, <2>2
<1>4. before = 1 .. n /\ n \in 0 .. m
  BY <1>1, <1>3, Prefix
<1>5. /\ \A k \in 1 .. n : ts[k].left <= s
      /\ \A k \in n + 1 .. m : s < ts[k].left
  <2>1. \A k \in 1 .. m : k \in 1 .. n <=> ts[k].left <= s
    BY <1>1, <1>4
  <2> HIDE DEF before, n
  <2> QED BY <1>1, <1>2, <1>4, <2>1
<1>6. Arm(ts, h, s) = [k \in 1 .. m + 1 |-> at(k)]
  BY DEF Arm
<1> HIDE DEF before, n
<1>7. new.left = s
  OBVIOUS
<1> HIDE DEF new
<1>8. ASSUME NEW i \in 1 .. m + 1, NEW j \in 1 .. m + 1, i < j
      PROVE  at(i).left <= at(j).left
  <2>1. \A a, b \in 1 .. m : a < b => ts[a].left <= ts[b].left
    BY <1>1 DEF Ordered
  <2>2. CASE j <= n
    BY <1>1, <1>4, <1>8, <2>1, <2>2
  <2>3. CASE j = n + 1
    <3>1. i \in 1 .. n /\ at(i) = ts[i] /\ at(j) = new
      BY <1>1, <1>4, <1>8, <2>3
    <3> QED BY <1>5, <1>7, <3>1
  <2>4. CASE j > n + 1
    <3>1. j - 1 \in n + 1 .. m /\ j - 1 \in 1 .. m /\ at(j) = ts[j - 1]
      BY <1>1, <1>4, <2>4
    <3>2. CASE i <= n
      BY <1>1, <1>4, <2>1, <3>1, <3>2
    <3>3. CASE i = n + 1
      <4>1. at(i) = new /\ s < ts[j - 1].left
        BY <1>4, <1>5, <3>1, <3>3
      <4>2. PICK q \in Int : q = ts[j - 1].left /\ s < q
        BY <1>1, <3>1, <4>1
      <4>3. s <= q
        BY <1>2, <4>2
      <4> QED BY Zenon, <1>7, <3>1, <4>1, <4>2, <4>3
    <3>4. CASE i > n + 1
      <4>1. i - 1 \in 1 .. m /\ i - 1 < j - 1 /\ at(i) = ts[i - 1]
        BY <1>1, <1>4, <1>8, <3>4
      <4> QED BY <2>1, <3>1, <4>1
    <3> QED BY <1>1, <1>4, <3>2, <3>3, <3>4
  <2> QED BY <1>1, <1>4, <2>2, <2>3, <2>4
<1> QED BY <1>6, <1>8 DEF Ordered

(* Between two ticks no timer is due.                                       *)
NoneDue == daemon = "wait" => \A k \in DOMAIN timers : timers[k].left > 0

(* A start_qos is pending for its own delay, and a loop run comes later     *)
(* than it by the rest of the loop's period.                                *)
LoopBehind ==
    \A k \in DOMAIN timers : timers[k].handler = "start" =>
        /\ timers[k].left <= StartDelay
        /\ \E j \in DOMAIN timers :
              /\ timers[j].handler = "loop"
              /\ timers[j].left >= timers[k].left + (TIME_QOS - StartDelay)

QueueInv == DownMeansNoTimers /\ Ordered(timers) /\ NoneDue /\ LoopBehind

LEMMA Lefts ==
    ASSUME TypeOK
    PROVE  /\ \A k \in DOMAIN timers : timers[k].left \in 0 .. TIME_QOS
           /\ TIME_QOS \in Nat /\ StartDelay \in Nat
           /\ 0 < StartDelay /\ StartDelay < TIME_QOS
<1>1. \A k \in DOMAIN timers : timers[k] \in Timer
  BY TimersAre
<1> QED BY <1>1, QosAssumption DEF Timer

(* The two timers of a session that opens.                                  *)
LEMMA OpenQueue ==
    ASSUME TypeOK, QueueInv, daemon = "wait",
           timers' = Arm(Arm(timers, "start", StartDelay), "loop", TIME_QOS)
    PROVE  /\ Ordered(timers)' /\ LoopBehind'
           /\ \A k \in DOMAIN timers' : timers'[k].left > 0
           /\ \E k \in DOMAIN timers' : timers'[k].handler = "loop" /\ timers'[k].left > 0
<1> DEFINE ts == Arm(timers, "start", StartDelay)
           m == Len(timers)
<1>1. StartDelay \in 0 .. TIME_QOS /\ TIME_QOS \in 0 .. TIME_QOS
  BY QosAssumption
<1>2. m \in Nat /\ DOMAIN timers = 1 .. m
  BY TimersAre
<1>3. ts \in Seq(Timer) /\ Len(ts) = m + 1
  BY <1>1, ArmShape DEF TypeOK
<1>4. Ordered(ts) /\ Ordered(timers)'
  BY <1>1, <1>3, ArmOrdered DEF TypeOK, QueueInv
<1>5. \A k \in 1 .. m + 1 : \/ ts[k] = [handler |-> "start", left |-> StartDelay]
                            \/ \E j \in 1 .. m : ts[k] = timers[j]
  <2>1. PICK n \in 0 .. m :
            /\ \A k \in 1 .. n : ts[k] = timers[k]
            /\ ts[n + 1] = [handler |-> "start", left |-> StartDelay]
            /\ \A k \in n + 2 .. m + 1 : ts[k] = timers[k - 1]
            /\ StartDelay = TIME_QOS => n = m
    <3>1. timers \in Seq(Timer) /\ "start" \in {"start", "loop"}
      BY DEF TypeOK
    <3> QED BY <1>1, <3>1, ArmShape, Zenon
  <2> HIDE DEF ts, m
  <2>2. \A k \in 1 .. m + 1 : \/ k \in 1 .. n
                              \/ k = n + 1
                              \/ k \in n + 2 .. m + 1 /\ k - 1 \in 1 .. m
    BY <1>2
  <2>3. 1 .. n \subseteq 1 .. m
    BY <1>2
  <2> QED BY <2>1, <2>2, <2>3
<1>6. timers' = Arm(ts, "loop", TIME_QOS)
  OBVIOUS
<1> HIDE DEF ts
<1>7. /\ DOMAIN timers' = 1 .. m + 2
      /\ \A k \in 1 .. m + 1 : timers'[k] = ts[k]
      /\ timers'[m + 2] = [handler |-> "loop", left |-> TIME_QOS]
  BY <1>2, <1>3, <1>6, ArmedLast
<1>8. \A k \in DOMAIN timers' : \/ k = m + 2
                               \/ timers'[k] = [handler |-> "start", left |-> StartDelay]
                               \/ \E j \in DOMAIN timers : timers'[k] = timers[j]
  BY SMTT(30), <1>2, <1>5, <1>7
<1>9. \A k \in DOMAIN timers' : timers'[k].left > 0
  BY <1>7, <1>8, Lefts DEF QueueInv, NoneDue
<1>10. m + 2 \in DOMAIN timers'
  BY <1>2, <1>7
<1>11. LoopBehind'
  <2> SUFFICES ASSUME NEW k \in DOMAIN timers', timers'[k].handler = "start"
               PROVE  /\ timers'[k].left <= StartDelay
                      /\ timers'[m + 2].left >= timers'[k].left + (TIME_QOS - StartDelay)
    BY <1>7, <1>10 DEF LoopBehind
  <2>1. timers'[k].left <= StartDelay /\ timers'[k].left \in Nat
    BY <1>7, <1>8, Lefts DEF QueueInv, LoopBehind
  <2> QED BY <1>7, <2>1, Lefts
<1> QED BY <1>4, <1>7, <1>9, <1>10, <1>11, Lefts

(* A tick that floors nothing.                                              *)
LEMMA TickQueue ==
    ASSUME TypeOK, QueueInv, Tick
    PROVE  /\ DOMAIN timers' = DOMAIN timers
           /\ \A k \in DOMAIN timers : /\ timers'[k].handler = timers[k].handler
                                       /\ timers'[k].left = timers[k].left - 1
                                       /\ timers[k].left > 0
<1>1. \A k \in DOMAIN timers : timers[k] \in Timer /\ timers[k].left > 0
  BY TimersAre DEF Tick, QueueInv, NoneDue
<1>2. timers' = [k \in DOMAIN timers |->
          [timers[k] EXCEPT !.left = IF timers[k].left > 0 THEN timers[k].left - 1 ELSE 0]]
  BY DEF Tick
<1> QED BY <1>1, <1>2 DEF Timer

(* The loop run behind a start_qos is not the timer that is due.            *)
LEMMA PopQueue ==
    ASSUME TypeOK, QueueInv, Due, timers' = Tail(timers)
    PROVE  Ordered(timers)' /\ LoopBehind'
<1>1. /\ DOMAIN timers' = 1 .. Len(timers) - 1
      /\ \A k \in 1 .. Len(timers) - 1 : timers'[k] = timers[k + 1]
      /\ Len(timers) \in Nat \ {0} /\ DOMAIN timers = 1 .. Len(timers)
      /\ timers[1].left = 0
  BY PopTimers DEF Due
<1>2. Ordered(timers)'
  <2> SUFFICES ASSUME NEW i \in DOMAIN timers', NEW j \in DOMAIN timers', i < j
               PROVE  timers'[i].left <= timers'[j].left
    BY DEF Ordered
  <2>1. i + 1 \in DOMAIN timers /\ j + 1 \in DOMAIN timers /\ i + 1 < j + 1
    BY <1>1
  <2>2. timers[i + 1].left <= timers[j + 1].left
    BY <2>1 DEF QueueInv, Ordered
  <2> QED BY <1>1, <2>2
<1>3. LoopBehind'
  <2> SUFFICES ASSUME NEW k \in DOMAIN timers', timers'[k].handler = "start"
               PROVE  /\ timers'[k].left <= StartDelay
                      /\ \E j \in DOMAIN timers' :
                            /\ timers'[j].handler = "loop"
                            /\ timers'[j].left >= timers'[k].left + (TIME_QOS - StartDelay)
    BY DEF LoopBehind
  <2>1. k + 1 \in DOMAIN timers /\ timers'[k] = timers[k + 1]
    BY <1>1
  <2>2. timers[k + 1].left <= StartDelay /\ timers[k + 1].left \in Nat
    BY <2>1, Lefts DEF QueueInv, LoopBehind
  <2>3. PICK j \in DOMAIN timers : /\ timers[j].handler = "loop"
                                   /\ timers[j].left >= timers[k + 1].left + (TIME_QOS - StartDelay)
    BY <2>1 DEF QueueInv, LoopBehind
  <2>4. timers[j].left > 0
    BY <2>2, <2>3, Lefts
  <2>5. j # 1
    BY <1>1, <2>4
  <2>6. j - 1 \in DOMAIN timers' /\ timers'[j - 1] = timers[j]
    BY <1>1, <2>5
  <2> QED BY <2>1, <2>2, <2>3, <2>6
<1> QED BY <1>2, <1>3

LEMMA ContinueQueue ==
    ASSUME TypeOK, QueueInv, Due, timers' = Arm(Tail(timers), "loop", TIME_QOS)
    PROVE  /\ Ordered(timers)' /\ LoopBehind'
           /\ \E k \in DOMAIN timers' : timers'[k].handler = "loop" /\ timers'[k].left > 0
<1>1. /\ Len(timers) \in Nat \ {0}
      /\ DOMAIN timers' = 1 .. Len(timers)
      /\ \A k \in 1 .. Len(timers) - 1 : timers'[k] = timers[k + 1]
      /\ timers'[Len(timers)] = [handler |-> "loop", left |-> TIME_QOS]
  BY ContinueTimers
<1>2. DOMAIN timers = 1 .. Len(timers)
  BY TimersAre
<1>3. Ordered(timers)'
  <2> DEFINE ts == Tail(timers)
  <2>1. /\ ts \in Seq(Timer) /\ Len(ts) = Len(timers) - 1
        /\ \A k \in 1 .. Len(timers) - 1 : ts[k] = timers[k + 1]
    BY DueShape DEF TypeOK
  <2>2. timers' = Arm(ts, "loop", TIME_QOS)
    OBVIOUS
  <2> HIDE DEF ts
  <2>3. DOMAIN ts = 1 .. Len(timers) - 1
    BY <2>1, LenProperties
  <2>4. Ordered(ts)
    <3> SUFFICES ASSUME NEW i \in DOMAIN ts, NEW j \in DOMAIN ts, i < j
                 PROVE  ts[i].left <= ts[j].left
      BY DEF Ordered
    <3>1. i + 1 \in DOMAIN timers /\ j + 1 \in DOMAIN timers /\ i + 1 < j + 1
      BY <1>1, <1>2, <2>3
    <3>2. timers[i + 1].left <= timers[j + 1].left
      BY <3>1 DEF QueueInv, Ordered
    <3> QED BY <2>1, <2>3, <3>2
  <2>5. TIME_QOS \in 0 .. TIME_QOS
    BY QosAssumption
  <2>6. Ordered(Arm(ts, "loop", TIME_QOS))
    BY <2>1, <2>4, <2>5, ArmOrdered
  <2> QED BY <2>2, <2>6
<1>4. LoopBehind'
  <2> SUFFICES ASSUME NEW k \in DOMAIN timers', timers'[k].handler = "start"
               PROVE  /\ timers'[k].left <= StartDelay
                      /\ timers'[Len(timers)].left >= timers'[k].left + (TIME_QOS - StartDelay)
    BY <1>1 DEF LoopBehind
  <2>1. k \in 1 .. Len(timers) - 1 /\ k + 1 \in DOMAIN timers
    BY <1>1, <1>2
  <2>2. timers'[k].left <= StartDelay /\ timers'[k].left \in Nat
    BY <1>1, <2>1, Lefts DEF QueueInv, LoopBehind
  <2> QED BY <1>1, <2>2, Lefts
<1> QED BY <1>1, <1>3, <1>4, Lefts

LEMMA QueueStep ==
    ASSUME TypeOK, QueueInv, ~Jumps, [Next]_vars
    PROVE  QueueInv'
<1>1. DownMeansNoTimers'
  BY DownStep DEF QueueInv
<1>2. ASSUME NEW c \in Cips, NEW t \in ReqTimes, NEW lim \in Limits, StartQosReq(c, t, lim)
      PROVE  QueueInv'
  <2>1. CASE enable = 0
    <3>1. daemon = "wait" /\ timers' = Arm(Arm(timers, "start", StartDelay), "loop", TIME_QOS)
      BY <1>2, <2>1 DEF StartQosReq, RequestComes, OpenSession
    <3>2. Ordered(timers)' /\ LoopBehind' /\ \A k \in DOMAIN timers' : timers'[k].left > 0
      BY <3>1, OpenQueue
    <3> QED BY <1>1, <3>2 DEF QueueInv, NoneDue
  <2>2. CASE enable = 1
    <3>1. UNCHANGED <<timers, daemon>>
      BY <1>2, <2>2 DEF StartQosReq, OpenSession
    <3> QED BY <3>1 DEF QueueInv, NoneDue, LoopBehind, Ordered, DownMeansNoTimers
  <2> QED BY <2>1, <2>2 DEF TypeOK
<1>3. CASE Tick
  <2>1. daemon' = "expire"
    BY <1>3 DEF Tick
  <2>2. Ordered(timers)'
    <3> SUFFICES ASSUME NEW i \in DOMAIN timers', NEW j \in DOMAIN timers', i < j
                 PROVE  timers'[i].left <= timers'[j].left
      BY DEF Ordered
    <3>1. i \in DOMAIN timers /\ j \in DOMAIN timers
      BY <1>3, TickQueue
    <3>2. timers[i].left <= timers[j].left
      BY <3>1 DEF QueueInv, Ordered
    <3> QED BY <1>3, <3>1, <3>2, TickQueue, Lefts
  <2>3. LoopBehind'
    <3> SUFFICES ASSUME NEW k \in DOMAIN timers', timers'[k].handler = "start"
                 PROVE  /\ timers'[k].left <= StartDelay
                        /\ \E j \in DOMAIN timers' :
                              /\ timers'[j].handler = "loop"
                              /\ timers'[j].left >= timers'[k].left + (TIME_QOS - StartDelay)
      BY DEF LoopBehind
    <3>1. k \in DOMAIN timers /\ timers[k].handler = "start" /\ timers'[k].left = timers[k].left - 1
      BY <1>3, TickQueue
    <3>2. PICK j \in DOMAIN timers :
              /\ timers[j].handler = "loop"
              /\ timers[j].left >= timers[k].left + (TIME_QOS - StartDelay)
      BY <3>1 DEF QueueInv, LoopBehind
    <3>3. timers[k].left <= StartDelay
      BY <3>1 DEF QueueInv, LoopBehind
    <3>4. /\ j \in DOMAIN timers' /\ timers'[j].handler = "loop"
          /\ timers'[j].left = timers[j].left - 1
      BY <1>3, <3>2, TickQueue
    <3> QED BY <3>1, <3>2, <3>3, <3>4, Lefts
  <2> QED BY <1>1, <2>1, <2>2, <2>3 DEF QueueInv, NoneDue
<1>4. CASE StartQos \/ QosTmHandler
  <2>1. Due /\ daemon' = "expire"
    BY <1>4 DEF StartQos, QosTmHandler
  <2>2. timers' = Tail(timers) \/ timers' = Arm(Tail(timers), "loop", TIME_QOS)
    BY <1>4 DEF StartQos, QosTmHandler, LoopListFails, LoopRestores, LoopContinues
  <2>3. Ordered(timers)' /\ LoopBehind'
    BY <2>1, <2>2, PopQueue, ContinueQueue
  <2> QED BY <1>1, <2>1, <2>3 DEF QueueInv, NoneDue
<1>5. CASE ExpireReturn
  <2>1. UNCHANGED timers /\ ~Due
    BY <1>5 DEF ExpireReturn
  <2>2. ASSUME NEW k \in DOMAIN timers PROVE timers[k].left > 0
    <3>1. Len(timers) \in Nat /\ DOMAIN timers = 1 .. Len(timers) /\ timers # <<>>
      BY <2>2, TimersAre, EmptySeq
    <3>2. 1 \in DOMAIN timers /\ Head(timers) = timers[1]
      BY <2>2, <3>1
    <3>3. timers[1].left # 0
      BY <2>1, <3>1, <3>2 DEF Due
    <3>4. timers[1].left <= timers[k].left
      BY <2>2, <3>1, <3>2, Lefts DEF QueueInv, Ordered
    <3> QED BY <2>2, <3>2, <3>3, <3>4, Lefts
  <2> QED BY <1>1, <2>1, <2>2 DEF QueueInv, NoneDue, LoopBehind, Ordered
<1>6. CASE Failures
  <2>1. CASE timers' = <<>>
    BY <1>1, <2>1, EmptySeq DEF QueueInv, NoneDue, LoopBehind, Ordered
  <2>2. CASE StartUp
    <3>1. timers' = <<>>
      BY <2>2 DEF StartUp, QueueInv, DownMeansNoTimers
    <3> QED BY <2>1, <3>1
  <2> QED BY <1>6, <2>1, <2>2
          DEF Failures, Die, DieRecording, SignalInWait, SignalInExpire, SignalWhenStuck, Forget
<1>7. CASE \/ \E c \in Cips : StopSpeedReq(c)
           \/ \E k \in 1 .. MaxScripts : RunScript(k)
           \/ LeaseChange \/ UserChange \/ UNCHANGED vars
  <2>1. UNCHANGED <<timers, daemon>>
    BY <1>7 DEF StopSpeedReq, RunScript, LeaseChange, UserChange, vars
  <2> QED BY <2>1 DEF QueueInv, NoneDue, LoopBehind, Ordered, DownMeansNoTimers
<1>8. ~JumpTick
  BY DEF JumpTick
<1> QED
  BY <1>2, <1>3, <1>4, <1>5, <1>6, <1>7, <1>8 DEF Next, Requests, EventLoop

LEMMA QueueInvariant ==
    ASSUME ~Jumps
    PROVE  Spec => []QueueInv
<1>1. Init => QueueInv
  BY EmptySeq DEF Init, QueueInv, DownMeansNoTimers, Ordered, NoneDue, LoopBehind
<1>2. TypeOK /\ QueueInv /\ [Next]_vars => QueueInv'
  BY QueueStep
<1> QED BY <1>1, <1>2, TypeCorrect, PTL DEF Spec

-----------------------------------------------------------------------------
(* How the limits leave nvram.                                              *)

LoopAhead == \E k \in DOMAIN timers : timers[k].handler = "loop" /\ timers[k].left > 0
LoopNow == \E k \in DOMAIN timers : timers[k].handler = "loop" /\ timers[k].left = 0

(* When no loop run is to come after this tick, every script in flight puts *)
(* the user's list back, and there is one while nvram needs it, or else a   *)
(* loop run is about to start one.                                          *)
LimitsGo ==
    Up /\ saved.list \notin OwnLists /\ ~LoopAhead =>
        /\ \A k \in DOMAIN scripts : scripts[k].list \notin OwnLists
        /\ nvram.list \in OwnLists => scripts # <<>> \/ LoopNow

(* Either nothing stops the process, or the next start makes up for it.     *)
AccidentInv == (Crashes = {} /\ Up) \/ (RecordWaits /\ RecordInv)

LEMMA AccidentInvariant ==
    ASSUME ListsAreTold, AccidentsWait
    PROVE  Spec => []AccidentInv
<1>1. CASE RecordWaits
  BY <1>1, RecordInvariant, PTL DEF AccidentInv
<1>2. CASE Crashes = {}
  <2>1. Init => Up
    BY DEF Init, Up
  <2>2. Up /\ [Next]_vars => Up'
    <3> SUFFICES ASSUME Up, [Next]_vars PROVE Up'
      OBVIOUS
    <3>1. ~Failures
      BY <1>2 DEF Failures, Die, DieRecording, SignalInWait, SignalInExpire, SignalWhenStuck,
                  StartUp, Up
    <3>2. daemon' = daemon \/ EventLoop
      BY <3>1 DEF Next, Requests, StartQosReq, StopSpeedReq, RunScript, LeaseChange, UserChange,
                  vars
    <3>3. EventLoop => daemon' \in {"wait", "expire"}
      BY DEF EventLoop, Tick, JumpTick, StartQos, QosTmHandler, ExpireReturn
    <3> QED BY <3>2, <3>3 DEF Up
  <2>3. Spec => []Up
    BY <2>1, <2>2, PTL DEF Spec
  <2> QED BY <1>2, <2>3, PTL DEF AccidentInv
<1> QED BY <1>1, <1>2 DEF AccidentsWait

(* A start after an accident, with no script in flight, leaves nvram to the *)
(* user, or will.                                                           *)
LEMMA StartUpGivesBack ==
    ASSUME TypeOK, AccidentInv, StartUp
    PROVE  /\ \A k \in DOMAIN scripts' : scripts'[k].list \notin OwnLists
           /\ nvram'.list \in OwnLists => scripts' # <<>>
           /\ timers' = <<>>
<1>1. RecordWaits /\ RecordInv
  BY DEF StartUp, AccidentInv, Up
<1>2. timers' = <<>>
  BY <1>1 DEF StartUp, RecordInv, DownMeansNoTimers
<1> QED BY <1>1, <1>2, StartUpOnRecord

LEMMA LimitsGoStep ==
    ASSUME TypeOK, ListsFit, ListsAreTold, "tick" \in Waits, ~Jumps,
           QueueInv, AccidentInv, LimitsGo, [Next]_vars
    PROVE  LimitsGo'
<1>1. ASSUME NEW c \in Cips, NEW t \in ReqTimes, NEW lim \in Limits, StartQosReq(c, t, lim)
      PROVE  LimitsGo'
  <2>1. CASE enable = 0
    <3>1. daemon = "wait" /\ timers' = Arm(Arm(timers, "start", StartDelay), "loop", TIME_QOS)
      BY <1>1, <2>1 DEF StartQosReq, RequestComes, OpenSession
    <3>2. LoopAhead'
      BY <3>1, OpenQueue DEF LoopAhead
    <3> QED BY <3>2 DEF LimitsGo
  <2>2. CASE enable = 1
    <3>1. UNCHANGED <<timers, daemon, saved, nvram, scripts>>
      BY <1>1, <2>2 DEF StartQosReq, OpenSession, envVars
    <3> QED BY <3>1 DEF LimitsGo, LoopAhead, LoopNow, Up
  <2> QED BY <2>1, <2>2 DEF TypeOK
<1>2. CASE Tick
  <2>1. /\ scripts = <<>> /\ UNCHANGED <<saved, nvram, scripts>> /\ daemon = "wait"
    BY <1>2 DEF Tick, ctlVars, envVars
  <2>2. SUFFICES ASSUME saved.list \notin OwnLists, ~LoopAhead', nvram.list \in OwnLists
                 PROVE  LoopNow'
    BY <2>1, EmptySeq DEF LimitsGo
  <2>3. LoopAhead \/ LoopNow
    BY <2>1, <2>2 DEF LimitsGo, Up
  <2>4. PICK k \in DOMAIN timers : timers[k].handler = "loop"
    BY <2>3 DEF LoopAhead, LoopNow
  <2>5. /\ k \in DOMAIN timers' /\ timers'[k].handler = "loop"
        /\ timers'[k].left = timers[k].left - 1 /\ timers[k].left > 0
    BY <1>2, <2>4, TickQueue
  <2>6. timers'[k].left = 0
    BY <2>2, <2>5, Lefts DEF LoopAhead
  <2> QED BY <2>5, <2>6 DEF LoopNow
<1>3. CASE StartQos
  <2>1. /\ Due /\ timers' = Tail(timers) /\ Head(timers).handler = "start"
    BY <1>3 DEF StartQos
  <2>2. /\ DOMAIN timers' = 1 .. Len(timers) - 1
        /\ \A k \in 1 .. Len(timers) - 1 : timers'[k] = timers[k + 1]
        /\ Len(timers) \in Nat \ {0} /\ DOMAIN timers = 1 .. Len(timers)
        /\ timers[1].handler = "start"
    BY <2>1, PopTimers
  <2>3. PICK j \in DOMAIN timers : /\ timers[j].handler = "loop"
                                   /\ timers[j].left >= timers[1].left + (TIME_QOS - StartDelay)
    BY <2>2 DEF QueueInv, LoopBehind
  <2>4. timers[j].left > 0
    BY <2>2, <2>3, Lefts
  <2>5. j - 1 \in DOMAIN timers' /\ timers'[j - 1] = timers[j]
    <3>1. j # 1
      BY <2>2, <2>3
    <3> QED BY <2>2, <3>1
  <2>6. LoopAhead'
    BY <2>3, <2>4, <2>5 DEF LoopAhead
  <2> QED BY <2>6 DEF LimitsGo
<1>4. CASE QosTmHandler
  <2>1. Due /\ UNCHANGED <<saved, daemon, nvram>>
    BY <1>4 DEF QosTmHandler
  <2>2. ~LoopListFails
    BY AgedType, ListNeverFails DEF LoopListFails, TypeOK
  <2>3. CASE LoopContinues
    <3>1. timers' = Arm(Tail(timers), "loop", TIME_QOS)
      BY <2>3 DEF LoopContinues
    <3>2. LoopAhead'
      BY <2>1, <3>1, ContinueQueue DEF LoopAhead
    <3> QED BY <3>2 DEF LimitsGo
  <2>4. CASE LoopRestores
    <3>1. timers' = Tail(timers) /\ scripts' = Append(scripts, RestoreScript(saved))
      BY <2>4 DEF LoopRestores
    <3>2. RestoreScript(saved) \in QosSh /\ RestoreScript(saved).list = saved.list
      BY RestoreType DEF TypeOK, RestoreScript, Script
    <3>3. /\ DOMAIN scripts' = 1 .. Len(scripts) + 1 /\ scripts' # <<>>
          /\ \A k \in 1 .. Len(scripts) : scripts'[k] = scripts[k]
          /\ scripts'[Len(scripts) + 1].list = saved.list
      BY <3>1, <3>2, ScriptStarts
    <3>4. LoopAhead => LoopAhead'
      <4> SUFFICES ASSUME NEW k \in DOMAIN timers, timers[k].handler = "loop", timers[k].left > 0
                   PROVE  LoopAhead'
        BY DEF LoopAhead
      <4>1. /\ DOMAIN timers' = 1 .. Len(timers) - 1
            /\ \A i \in 1 .. Len(timers) - 1 : timers'[i] = timers[i + 1]
            /\ Len(timers) \in Nat \ {0} /\ DOMAIN timers = 1 .. Len(timers)
            /\ timers[1].left = 0
        BY <2>1, <3>1, PopTimers DEF Due
      <4>2. k # 1
        BY <4>1
      <4>3. k - 1 \in DOMAIN timers' /\ timers'[k - 1] = timers[k]
        BY <4>1, <4>2
      <4> QED BY <4>3 DEF LoopAhead
    <3>5. SUFFICES ASSUME Up, saved.list \notin OwnLists, ~LoopAhead
                   PROVE  \A k \in DOMAIN scripts' : scripts'[k].list \notin OwnLists
      BY <2>1, <3>3, <3>4 DEF LimitsGo, Up
    <3>6. \A k \in 1 .. Len(scripts) : scripts[k].list \notin OwnLists
      BY <3>5, ScriptsAre DEF LimitsGo
    <3> QED BY <3>3, <3>5, <3>6, ScriptsAre
  <2> QED BY <1>4, <2>2, <2>3, <2>4 DEF QosTmHandler
<1>5. CASE Failures
  <2>1. CASE StartUp
    BY <2>1, StartUpGivesBack DEF LimitsGo
  <2>2. daemon' \in {"down", "stuck"} \/ StartUp
    BY <1>5 DEF Failures, Die, DieRecording, SignalInWait, SignalInExpire, SignalWhenStuck, Forget
  <2> QED BY <2>1, <2>2 DEF LimitsGo, Up
<1>6. ASSUME NEW k \in 1 .. MaxScripts, RunScript(k) PROVE LimitsGo'
  <2>1. UNCHANGED <<timers, daemon, saved>>
    BY <1>6 DEF RunScript, ctlVars
  <2>2. SUFFICES ASSUME Up, saved.list \notin OwnLists, ~LoopAhead
                 PROVE  /\ \A j \in DOMAIN scripts' : scripts'[j].list \notin OwnLists
                        /\ nvram'.list \in OwnLists => scripts' # <<>>
    BY <2>1 DEF LimitsGo, Up, LoopAhead
  <2>3. \A j \in 1 .. Len(scripts) : scripts[j].list \notin OwnLists
    BY <2>2, ScriptsAre DEF LimitsGo
  <2>4. \A j \in DOMAIN scripts' : scripts'[j].list \notin OwnLists
    BY <1>6, <2>3, ScriptsStayForeign
  <2>5. nvram'.list \notin OwnLists \/ Len(scripts') = Len(scripts)
    BY <1>6, <2>3, ScriptRuns
  <2>6. Len(scripts') = Len(scripts) => scripts' # <<>>
    BY <1>6, ScriptRuns, EmptySeq
  <2> QED BY <2>4, <2>5, <2>6
<1>7. CASE UserChange
  BY <1>7, UserWrites DEF UserChange, ctlVars, LimitsGo, LoopAhead, LoopNow, Up
<1>8. CASE \/ \E c \in Cips : StopSpeedReq(c)
           \/ ExpireReturn \/ LeaseChange \/ UNCHANGED vars
  <2>1. UNCHANGED <<timers, saved, nvram, scripts>>
    BY <1>8 DEF StopSpeedReq, ExpireReturn, LeaseChange, vars, ctlVars, envVars
  <2>2. Up' => Up
    BY <1>8 DEF StopSpeedReq, ExpireReturn, LeaseChange, vars, Up
  <2> QED BY <2>1, <2>2 DEF LimitsGo, LoopAhead, LoopNow
<1>9. ~JumpTick
  BY DEF JumpTick
<1> QED
  BY <1>1, <1>2, <1>3, <1>4, <1>5, <1>6, <1>7, <1>8, <1>9 DEF Next, Requests, EventLoop

LEMMA LimitsGoInvariant ==
    ASSUME ListsFit, ListsAreTold, AccidentsWait, "tick" \in Waits, ~Jumps
    PROVE  Spec => []LimitsGo
<1>1. Init => LimitsGo
  BY EmptySeq DEF Init, LimitsGo, ListsAreTold
<1>2. TypeOK /\ QueueInv /\ AccidentInv /\ LimitsGo /\ [Next]_vars => LimitsGo'
  BY LimitsGoStep
<1> QED BY <1>1, <1>2, TypeCorrect, QueueInvariant, AccidentInvariant, PTL DEF Spec

NoLoop == \A k \in DOMAIN timers : timers[k].handler # "loop"

(* When instead no script overtakes another, and however the clock jumps:   *)
(* with no loop run to come, the last script puts the user's list back.     *)
LastGoes ==
    Up /\ saved.list \notin OwnLists /\ NoLoop =>
        IF scripts = <<>> THEN nvram.list \notin OwnLists
        ELSE scripts[Len(scripts)].list \notin OwnLists

LEMMA LastGoesStep ==
    ASSUME TypeOK, ListsFit, ListsAreTold, "later" \in Waits,
           StartBeforeLoop, AccidentInv, LastGoes, [Next]_vars
    PROVE  LastGoes'
<1>1. ASSUME NEW c \in Cips, NEW t \in ReqTimes, NEW lim \in Limits, StartQosReq(c, t, lim)
      PROVE  LastGoes'
  <2>1. CASE enable = 0
    BY <1>1, <2>1, ReqTimers DEF LastGoes, NoLoop
  <2>2. CASE enable = 1
    <3>1. UNCHANGED <<timers, daemon, saved, nvram, scripts>>
      BY <1>1, <2>2 DEF StartQosReq, OpenSession, envVars
    <3> QED BY <3>1 DEF LastGoes, NoLoop, Up
  <2> QED BY <2>1, <2>2 DEF TypeOK
<1>2. CASE Tick \/ JumpTick
  <2>1. UNCHANGED <<saved, nvram, scripts>> /\ daemon = "wait"
    BY <1>2 DEF Tick, JumpTick, ctlVars, envVars
  <2>2. NoLoop' => NoLoop
    BY <1>2, TickTimers DEF NoLoop
  <2> QED BY <2>1, <2>2 DEF LastGoes, Up
<1>3. CASE StartQos
  <2>1. Due /\ timers' = Tail(timers) /\ Head(timers).handler = "start"
    BY <1>3 DEF StartQos
  <2>2. /\ DOMAIN timers' = 1 .. Len(timers) - 1
        /\ \A k \in 1 .. Len(timers) - 1 : timers'[k] = timers[k + 1]
        /\ Len(timers) \in Nat \ {0} /\ DOMAIN timers = 1 .. Len(timers)
        /\ timers[1].handler = "start"
    BY <2>1, PopTimers
  <2>3. PICK j \in DOMAIN timers : j > 1 /\ timers[j].handler = "loop"
    BY <2>2 DEF StartBeforeLoop
  <2>4. j - 1 \in DOMAIN timers' /\ timers'[j - 1] = timers[j]
    BY <2>2, <2>3
  <2> QED BY <2>3, <2>4 DEF LastGoes, NoLoop
<1>4. CASE QosTmHandler
  <2>1. ~LoopListFails
    BY AgedType, ListNeverFails DEF LoopListFails, TypeOK
  <2>2. CASE LoopContinues
    <3>1. Tail(timers) \in Seq(Timer)
      BY <1>4, DueShape DEF TypeOK, QosTmHandler
    <3>2. timers' = Arm(Tail(timers), "loop", TIME_QOS)
      BY <2>2 DEF LoopContinues
    <3> QED BY <3>1, <3>2, QueueEndsInLoop DEF LastGoes, NoLoop
  <2>3. CASE LoopRestores
    <3>1. scripts' = Append(scripts, RestoreScript(saved)) /\ UNCHANGED saved
      BY <1>4, <2>3 DEF LoopRestores, QosTmHandler
    <3>2. RestoreScript(saved) \in QosSh /\ RestoreScript(saved).list = saved.list
      BY RestoreType DEF TypeOK, RestoreScript, Script
    <3>3. scripts' # <<>> /\ scripts'[Len(scripts')].list = saved.list
      BY <3>1, <3>2, ScriptStarts
    <3> QED BY <3>1, <3>3 DEF LastGoes
  <2> QED BY <1>4, <2>1, <2>2, <2>3 DEF QosTmHandler
<1>5. CASE Failures
  <2>1. CASE StartUp
    <3>1. scripts' # <<>> => Len(scripts') \in DOMAIN scripts'
      <4>1. scripts' \in Seq(QosSh)
        BY <2>1, RestoresType, ConcatProperties DEF StartUp, TypeOK
      <4> QED BY <4>1, EmptySeq, LenProperties
    <3> QED BY <2>1, <3>1, StartUpGivesBack DEF LastGoes
  <2>2. daemon' \in {"down", "stuck"} \/ StartUp
    BY <1>5 DEF Failures, Die, DieRecording, SignalInWait, SignalInExpire, SignalWhenStuck, Forget
  <2> QED BY <2>1, <2>2 DEF LastGoes, Up
<1>6. ASSUME NEW k \in 1 .. MaxScripts, RunScript(k) PROVE LastGoes'
  <2> DEFINE n == Len(scripts)
  <2>1. UNCHANGED <<timers, daemon, saved>>
    BY <1>6 DEF RunScript, ctlVars
  <2>2. SUFFICES ASSUME Up, saved.list \notin OwnLists, NoLoop
                 PROVE  IF scripts' = <<>> THEN nvram'.list \notin OwnLists
                        ELSE scripts'[Len(scripts')].list \notin OwnLists
    BY <2>1 DEF LastGoes, Up, NoLoop
  <2>3. k = 1 /\ n \in Nat \ {0} /\ scripts # <<>>
    <3>1. k \in 1 .. n /\ n \in Nat
      BY <1>6, ScriptRuns
    <3>2. k = 1
      BY <1>6 DEF RunScript
    <3> QED BY <3>1, <3>2, ScriptsAre
  <2>4. scripts[n].list \notin OwnLists
    BY <2>2, <2>3 DEF LastGoes
  <2>5. CASE scripts[1].step = 1
    <3>1. /\ Len(scripts') = n /\ scripts'[1].list = scripts[1].list
          /\ \A j \in 1 .. n : j # 1 => scripts'[j] = scripts[j]
      BY <1>6, <2>3, <2>5, ScriptRuns
    <3>2. scripts'[n].list = scripts[n].list /\ scripts' # <<>>
      BY <2>3, <3>1, EmptySeq
    <3> QED BY <2>4, <3>1, <3>2
  <2>6. CASE scripts[1].step # 1
    <3>1. /\ nvram'.list = scripts[1].list
          /\ Len(scripts') = n - 1
          /\ \A j \in 1 .. n - 1 : scripts'[j] = scripts[j + 1]
      BY <1>6, <2>3, <2>6, ScriptRuns
    <3>2. CASE n = 1
      <4>1. scripts' = [j \in 1 .. Len(scripts) - 1 |-> scripts[IF j < k THEN j ELSE j + 1]]
        BY <1>6, <2>3, <2>6 DEF RunScript
      <4>2. scripts' = <<>>
        BY <3>2, <4>1
      <4> QED BY <2>4, <3>1, <3>2, <4>2
    <3>3. CASE n # 1
      <4>1. scripts'[n - 1] = scripts[n] /\ n - 1 # 0
        BY <2>3, <3>1, <3>3
      <4> QED BY <2>4, <3>1, <4>1, EmptySeq
    <3> QED BY <3>2, <3>3
  <2> QED BY <2>5, <2>6
<1>7. CASE UserChange
  BY <1>7, UserWrites DEF UserChange, ctlVars, LastGoes, NoLoop, Up
<1>8. CASE \/ \E c \in Cips : StopSpeedReq(c)
           \/ ExpireReturn \/ LeaseChange \/ UNCHANGED vars
  <2>1. UNCHANGED <<timers, saved, nvram, scripts>>
    BY <1>8 DEF StopSpeedReq, ExpireReturn, LeaseChange, vars, ctlVars, envVars
  <2>2. Up' => Up
    BY <1>8 DEF StopSpeedReq, ExpireReturn, LeaseChange, vars, Up
  <2> QED BY <2>1, <2>2 DEF LastGoes, NoLoop
<1> QED
  BY <1>1, <1>2, <1>3, <1>4, <1>5, <1>6, <1>7, <1>8 DEF Next, Requests, EventLoop

LEMMA LastGoesInvariant ==
    ASSUME ListsFit, ListsAreTold, AccidentsWait, "later" \in Waits
    PROVE  Spec => []LastGoes
<1>1. Init => LastGoes
  BY DEF Init, LastGoes, ListsAreTold
<1>2. TypeOK /\ StartBeforeLoop /\ AccidentInv /\ LastGoes /\ [Next]_vars => LastGoes'
  BY LastGoesStep
<1> QED BY <1>1, <1>2, TypeCorrect, ApplyCanBeUndone, AccidentInvariant, PTL DEF Spec

(* Scripts that end within a second, by a clock that does not jump, or      *)
(* scripts of which none overtakes another: one of them is needed, for two  *)
(* loop runs of one tick start theirs at once.                              *)
ScriptsKeepUp == ("tick" \in Waits /\ ~Jumps) \/ "later" \in Waits

(* No limits of the daemon's are left behind in nvram when the last session *)
(* is over (qos_tm_handler): for lists that fit, a user who keeps other     *)
(* lists, and accidents whose record is read when the scripts have ended.   *)
THEOREM LimitsAreTakenBack ==
    ListsFit /\ ListsAreTold /\ AccidentsWait /\ ScriptsKeepUp
        => (Spec => []QuiescentRestored)
<1> SUFFICES ASSUME ListsFit, ListsAreTold, AccidentsWait, ScriptsKeepUp
             PROVE  Spec => []QuiescentRestored
  OBVIOUS
<1>1. LimitsGo => QuiescentRestored
  BY EmptySeq DEF LimitsGo, LoopAhead, LoopNow, QuiescentRestored
<1>2. LastGoes => QuiescentRestored
  BY EmptySeq DEF LastGoes, NoLoop, QuiescentRestored
<1>3. CASE "tick" \in Waits /\ ~Jumps
  BY <1>1, <1>3, LimitsGoInvariant, PTL
<1>4. CASE "later" \in Waits
  BY <1>2, <1>4, LastGoesInvariant, PTL
<1> QED BY <1>3, <1>4 DEF ScriptsKeepUp
=============================================================================
