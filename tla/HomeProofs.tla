------------------------------ MODULE HomeProofs ------------------------------
(***************************************************************************)
(* PositionsKnown, RemovalClears, InputShown and GlitchIgnored of Home,    *)
(* and LinksMutual and InterfacesLive of Boot, as theorems of MainSpec,    *)
(* for any configurations, limits of the two queues, thresholds of the key *)
(* and of the inputs, and any order of callbacks, reports, outages and     *)
(* restarts.                                                               *)
(***************************************************************************)
EXTENDS Main, SequenceTheorems, TLAPS

\* What an action leaves alone, as the tuples it is written with
USE DEF mainVars, homeVars, runVars, bootVars, cloudVars, keyVars, diVars, UnchangedButCloud, UnchangedButKey

\* The steps of MainNext, seen from Home
LEMMA MainCases ==
  ASSUME [MainNext]_mainVars
  PROVE  \/ UNCHANGED homeVars
         \/ ParseGroupCfg /\ UNCHANGED runVars
         \/ stage # "parse" /\ HomeNext
  BY DEF MainNext, Parse

\* One function has returned and the next one is called.
LEMMA ReturnCases ==
  ASSUME Return
  PROVE  /\ at' = 1 /\ UNCHANGED <<doc, grp, link, chain, pIf, opened>>
         /\ \/ stage = "associateKnxDev" /\ stage' = "associateModbusDev"
            \/ stage = "associateModbusDev" /\ stage' = "ModbusDevGroup" /\ at > Len(doc.mbus)
            \/ stage = "ModbusDevGroup" /\ stage' = "LoadZ3Plugin"
            \/ stage = "LoadZ3Plugin" /\ stage' = "LoadModbusPlugin" /\ at > Len(doc.z3)
            \/ stage = "LoadModbusPlugin" /\ stage' = "LoadKnxPlugin" /\ at > Len(doc.mbus)
            \/ stage = "LoadKnxPlugin" /\ stage' = "start" /\ at > Len(doc.knx)
<1>1. Len(Calls) = 7
  BY DEF Calls
<1>2. PICK i \in 1..6 : stage = Calls[i] /\ stage' = Calls[i + 1]
  BY <1>1 DEF Return
<1>3. i \in {1, 2, 3, 4, 5, 6}
  BY <1>2
<1>4. \/ stage = "associateKnxDev" /\ stage' = "associateModbusDev"
      \/ stage = "associateModbusDev" /\ stage' = "ModbusDevGroup"
      \/ stage = "ModbusDevGroup" /\ stage' = "LoadZ3Plugin"
      \/ stage = "LoadZ3Plugin" /\ stage' = "LoadModbusPlugin"
      \/ stage = "LoadModbusPlugin" /\ stage' = "LoadKnxPlugin"
      \/ stage = "LoadKnxPlugin" /\ stage' = "start"
  BY <1>2, <1>3 DEF Calls
<1>5. at > Len(Walked(stage))
  BY DEF Return
<1>6. /\ stage \in {"associateModbusDev", "LoadModbusPlugin"} => Walked(stage) = doc.mbus
      /\ stage = "LoadZ3Plugin" => Walked(stage) = doc.z3
      /\ stage = "LoadKnxPlugin" => Walked(stage) = doc.knx
  BY DEF Walked
<1> QED
  BY <1>4, <1>5, <1>6 DEF Return

\* The functions main() calls before its threads run keep the lists.
LEMMA BootFrame ==
  ASSUME BootNext
  PROVE  stage' # "parse" /\ stage # "parse" /\ stage # "run" /\ doc' = doc /\ grp' = grp
<1>1. CASE Return
  BY <1>1, ReturnCases
<1>2. CASE ~Return
  BY <1>2 DEF BootNext, Turn, associateKnxDev, associateModbusDev, ModbusDevGroup, LoadZ3Plugin, LoadModbusPlugin, LoadKnxPlugin
<1> QED
  BY <1>1, <1>2

-----------------------------------------------------------------------------
(* The digital inputs *)

\* retryCnt and the level last read move together.  A level read k times in a
\* row has moved the counter at least k - 1 places from the middle towards its
\* end (Driven), so it has settled after retryNum + 2 readings (Settled); and at
\* most k places (Paced), so a recorded level is not replaced earlier.
InputType ==
  /\ input \in {0, 1} /\ stable \in Nat /\ cnt \in 0..(2 * RetryNum)
  /\ status \in {NoStatus, Low, High}
Driven ==
  stable >= 1 => IF input = Trigger THEN cnt + 1 >= RetryNum + stable \/ cnt = 2 * RetryNum
                                    ELSE cnt + stable <= RetryNum + 1 \/ cnt = 0
Settled == stable >= RetryNum + 2 => status = LevelOf(input)
Paced ==
  /\ input = Trigger => cnt <= RetryNum + stable
  /\ input # Trigger => cnt <= RetryNum
  /\ input # Trigger /\ status = Low => cnt + stable >= RetryNum
Recorded == status # NoStatus => stable >= 1 /\ (shown = status \/ blind)
InputInv == InputType /\ Driven /\ Settled /\ Paced /\ Recorded

\* What one reading does to the counter, and when a level settles
LEMMA ScanEffect ==
  ASSUME NEW v \in {0, 1}, NEW c \in 0..(2 * RetryNum)
  PROVE  /\ Scan(v, c)[1] \in 0..(2 * RetryNum)
         /\ v = Trigger => /\ IF c < RetryNum THEN Scan(v, c)[1] = RetryNum
                              ELSE IF c < 2 * RetryNum THEN Scan(v, c)[1] = c + 1 ELSE Scan(v, c)[1] = c
                           /\ Scan(v, c)[2] = IF c = 2 * RetryNum THEN Low ELSE NoStatus
         /\ v # Trigger => /\ IF c > RetryNum THEN Scan(v, c)[1] = RetryNum
                              ELSE IF c # 0 THEN Scan(v, c)[1] = c - 1 ELSE Scan(v, c)[1] = c
                           /\ Scan(v, c)[2] = IF c = 0 THEN High ELSE NoStatus
<1>1. RetryNum \in Nat /\ RetryNum >= 1
  BY HomeAssumption
<1>2. CASE v = Trigger
  <2>1. CASE c < RetryNum
    BY <1>1, <1>2, <2>1 DEF Scan
  <2>2. CASE RetryNum <= c /\ c < 2 * RetryNum
    BY <1>1, <1>2, <2>2 DEF Scan
  <2>3. CASE c = 2 * RetryNum
    BY <1>1, <1>2, <2>3 DEF Scan
  <2> QED
    BY <1>1, <2>1, <2>2, <2>3
<1>3. CASE v # Trigger
  <2>1. CASE c > RetryNum
    BY <1>1, <1>3, <2>1 DEF Scan
  <2>2. CASE c <= RetryNum /\ c # 0
    BY <1>1, <1>3, <2>2 DEF Scan
  <2>3. CASE c = 0
    BY <1>1, <1>3, <2>3 DEF Scan
  <2> QED
    BY <1>1, <2>1, <2>2, <2>3
<1> QED
  BY <1>2, <1>3

LEMMA InputStep == ASSUME InputInv, NEW v \in {0, 1}, NEW ok \in BOOLEAN, di_scan(v, ok)
                   PROVE  InputInv' /\ (status' # status /\ status # NoStatus => stable' > RetryNum)
<1> DEFINE R == RetryNum
           level == Scan(v, cnt)[2]
<1>0. /\ R \in Nat /\ R >= 1 /\ Trigger \in {0, 1}
      /\ input \in {0, 1} /\ stable \in Nat /\ cnt \in 0..(2 * R)
  BY HomeAssumption DEF InputInv, InputType
<1>1. /\ input' = v /\ cnt' = Scan(v, cnt)[1]
      /\ stable' = IF v # input THEN 1 ELSE IF stable > R + 2 THEN stable ELSE stable + 1
      /\ status' = IF level = NoStatus THEN status ELSE level
      /\ IF level = NoStatus \/ level = status THEN UNCHANGED <<shown, blind>> ELSE shown' = level \/ blind'
  BY DEF di_scan
<1>2. /\ cnt' \in 0..(2 * R)
      /\ v = Trigger => /\ IF cnt < R THEN cnt' = R ELSE IF cnt < 2 * R THEN cnt' = cnt + 1 ELSE cnt' = cnt
                        /\ level = IF cnt = 2 * R THEN Low ELSE NoStatus
      /\ v # Trigger => /\ IF cnt > R THEN cnt' = R ELSE IF cnt # 0 THEN cnt' = cnt - 1 ELSE cnt' = cnt
                        /\ level = IF cnt = 0 THEN High ELSE NoStatus
  BY <1>0, <1>1, ScanEffect
<1>3. NoStatus # Low /\ NoStatus # High /\ Low # High
  BY DEF NoStatus, Low, High
<1> HIDE DEF level, R
<1>4. InputType'
  BY <1>0, <1>1, <1>2, <1>3 DEF InputInv, InputType, R
<1>5. stable' \in Nat /\ stable' >= 1
  BY <1>0, <1>1
<1>6. Driven'
  BY <1>0, <1>1, <1>2 DEF InputInv, Driven, R
<1>7. Settled'
  <2>1. CASE v # input
    BY <1>0, <1>1, <2>1 DEF Settled, R
  <2>2. CASE v = input /\ stable' >= R + 2
    <3>1. stable >= R + 1
      BY <1>0, <1>1, <2>2
    <3>2. IF v = Trigger THEN cnt = 2 * R ELSE cnt = 0
      BY <1>0, <2>2, <3>1 DEF InputInv, Driven, R
    <3>3. level = LevelOf(v) /\ level # NoStatus
      BY <1>0, <1>2, <1>3, <3>2 DEF LevelOf
    <3> QED
      BY <1>1, <3>3 DEF Settled, LevelOf
  <2>3. CASE ~(stable' >= R + 2)
    BY <2>3 DEF Settled, R
  <2> QED
    BY <2>1, <2>2, <2>3
<1>8. Paced'
  <2>1. (v = Trigger => cnt' <= R + stable') /\ (v # Trigger => cnt' <= R)
    BY <1>0, <1>1, <1>2, <1>5 DEF InputInv, Paced, R
  <2>2. ASSUME v # Trigger, status' = Low PROVE cnt' + stable' >= R
    <3>1. status = Low /\ stable >= 1
      BY <1>1, <1>2, <1>3, <2>2 DEF InputInv, Recorded
    <3>2. CASE v = input
      BY <1>0, <1>1, <1>2, <2>2, <3>1, <3>2 DEF InputInv, Paced, R
    <3>3. CASE v # input
      <4>1. input = Trigger /\ cnt >= R
        BY <1>0, <2>2, <3>1, <3>3 DEF InputInv, Driven, R
      <4> QED
        BY <1>0, <1>1, <1>2, <2>2, <3>3, <4>1
    <3> QED
      BY <3>2, <3>3
  <2> QED
    BY <1>1, <2>1, <2>2 DEF Paced, R
<1>9. Recorded'
  BY <1>1, <1>5 DEF InputInv, Recorded
<1>10. ASSUME status' # status, status # NoStatus PROVE stable' > R
  <2>1. level # NoStatus /\ status' = level /\ (status = Low \/ status = High)
    BY <1>1, <1>10 DEF InputInv, InputType
  <2>2. CASE v = Trigger
    <3>1. cnt = 2 * R
      BY <1>2, <2>1, <2>2
    <3>2. v = input /\ stable >= R
      BY <1>0, <2>2, <3>1 DEF InputInv, Paced, R
    <3> QED
      BY <1>0, <1>1, <3>2
  <2>3. CASE v # Trigger
    <3>1. cnt = 0 /\ status = Low
      BY <1>2, <1>3, <1>10, <2>1, <2>3
    <3>2. v = input
      BY <1>0, <2>1, <2>3, <3>1, <1>10 DEF InputInv, Recorded, Driven, R
    <3>3. stable >= R
      BY <1>0, <2>3, <3>1, <3>2 DEF InputInv, Paced, R
    <3> QED
      BY <1>0, <1>1, <3>2, <3>3
  <2> QED
    BY <2>2, <2>3
<1> QED
  BY <1>4, <1>6, <1>7, <1>8, <1>9, <1>10 DEF InputInv, R

\* Every step is a reading, a restart, or leaves the inputs alone.
LEMMA InputCases ==
  ASSUME [MainNext]_mainVars
  PROVE  \/ \E v \in {0, 1}, ok \in BOOLEAN : di_scan(v, ok)
         \/ Restart
         \/ UNCHANGED diVars
<1>1. ASSUME HomeNext
      PROVE  (\E v \in {0, 1}, ok \in BOOLEAN : di_scan(v, ok)) \/ Restart \/ UNCHANGED diVars
  BY <1>1
     DEF HomeNext, Start, _gw_online_status_changed_cb, _misc_dev_add_cb, BindFails, _misc_dev_bind_ifm_cb,
         _misc_dev_del_cb, GatewayRegistered, GatewayGone, UnbindNext, UnbindEnds, ReportPosThread, ReportPosNext,
         ReportPosEnd, ReportBindPosThread, KeyHeld, KeyReleasedLong, KeyReleased
<1> QED
  BY <1>1, MainCases

LEMMA InputInit == HomeInit => InputInv
<1> SUFFICES ASSUME HomeInit PROVE InputInv
  OBVIOUS
<1>1. /\ input = 1 - Trigger /\ stable = 0 /\ cnt = 0 /\ status = NoStatus
      /\ Trigger \in {0, 1} /\ RetryNum \in Nat /\ RetryNum >= 1
  BY HomeAssumption DEF HomeInit
<1> QED
  BY <1>1 DEF InputInv, InputType, Driven, Settled, Paced, Recorded, NoStatus, Low

LEMMA InputKept == InputInv /\ [MainNext]_mainVars
                     => InputInv' /\ (status' # status /\ status # NoStatus /\ stage' = stage => stable' > RetryNum)
<1> SUFFICES ASSUME InputInv, [MainNext]_mainVars
             PROVE  InputInv' /\ (status' # status /\ status # NoStatus /\ stage' = stage => stable' > RetryNum)
  OBVIOUS
<1>1. ASSUME NEW v \in {0, 1}, NEW ok \in BOOLEAN, di_scan(v, ok)
      PROVE  InputInv' /\ (status' # status /\ status # NoStatus => stable' > RetryNum)
  BY <1>1, InputStep
<1>2. CASE Restart
  <2>1. input' = input /\ stable' = 0 /\ cnt' = 0 /\ status' = NoStatus /\ stage' # stage
    BY <1>2 DEF Restart
  <2>2. input \in {0, 1} /\ RetryNum \in Nat /\ RetryNum >= 1
    BY HomeAssumption DEF InputInv, InputType
  <2> QED
    BY <2>1, <2>2 DEF InputInv, InputType, Driven, Settled, Paced, Recorded, NoStatus, Low
<1>3. CASE UNCHANGED diVars
  BY <1>3 DEF InputInv, InputType, Driven, Settled, Paced, Recorded, LevelOf
<1> QED
  BY <1>1, <1>2, <1>3, InputCases

\* An input that kept its level for retryNum + 2 scans is recorded with it and
\* shown, unless its report was lost: di_scan, whatever glitches, outages and
\* restarts came before.
THEOREM InputIsShown == MainSpec => []InputShown
<1>1. MainInit => InputInv
  BY InputInit DEF MainInit
<1>2. InputInv /\ [MainNext]_mainVars => InputInv'
  BY InputKept
<1>3. InputInv => InputShown
  <2> SUFFICES ASSUME InputInv, stable >= RetryNum + 2 PROVE status = LevelOf(input) /\ (shown = status \/ blind)
    BY DEF InputShown
  <2> QED
    BY DEF InputInv, Settled, Recorded, LevelOf, NoStatus, Low, High
<1> QED
  BY <1>1, <1>2, <1>3, PTL DEF MainSpec

\* di_scan replaces a recorded level only after more than retryNum equal readings
\* in a row.
THEOREM GlitchIsIgnored == MainSpec => GlitchIgnored
<1> DEFINE A == (status' # status /\ status # NoStatus /\ stage' = stage) => stable' > RetryNum
<1>1. MainInit => InputInv
  BY InputInit DEF MainInit
<1>2. InputInv /\ [MainNext]_mainVars => InputInv' /\ [A]_homeVars
  BY InputKept
<1>3. GlitchIgnored <=> [][A]_homeVars
  BY DEF GlitchIgnored
<1> QED
  BY <1>1, <1>2, <1>3, PTL DEF MainSpec

-----------------------------------------------------------------------------
(* The positions *)

\* Only devices of the lists are bound, and none before the lists are read.
PosType ==
  /\ posq \in Nat /\ walk \in [on : BOOLEAN, seen : SUBSET Bindable]
  /\ bound \subseteq Bindable /\ pending \subseteq Bindable /\ bindq \in Seq(Bindable)
  /\ stage = "parse" => bound = {} /\ pending = {} /\ bindq = << >> /\ walk = NoWalk
\* The gateway goes online only after its threads have started.
OnlineRuns == online => stage = "run"
\* Some thread has still to report d: a note makes ReportPosThread visit every
\* device, its walk has not come to d, or ReportBindPosThread has d to report.
Owed(d) == posq > 0 \/ (walk.on /\ d \notin walk.seen) \/ \E i \in DOMAIN bindq : bindq[i] = d
Reported == online => \A d \in bound : d \in known \/ d \in refused \/ Owed(d)
PosInv == PosType /\ OnlineRuns /\ Reported

LEMMA PosInit == HomeInit => PosInv
  BY DEF HomeInit, PosInv, PosType, OnlineRuns, Reported, NoWalk

\* A report succeeds, or the device counts as refused, or the gateway is offline.
LEMMA ReportEffect ==
  ASSUME NEW d, NEW ok \in BOOLEAN, Report(d, ok)
  PROVE  /\ \A e : e \in known \/ e \in refused => e \in known' \/ e \in refused'
         /\ online /\ d \in bound => d \in known' \/ d \in refused'
  BY DEF Report

\* A step that leaves the positions alone.
PosSame ==
  /\ UNCHANGED <<doc, online, posq, bound, pending, bindq, walk, known, refused>>
  /\ stage' # "parse" /\ (stage = "run" => stage' = "run")

\* The steps of Home that matter for the positions
LEMMA PosCases ==
  ASSUME stage # "parse", HomeNext
  PROVE  \/ PosSame
         \/ \E on \in BOOLEAN : _gw_online_status_changed_cb(on)
         \/ \E fail \in SUBSET Bindable : _misc_dev_add_cb(fail)
         \/ \E d \in pending : BindFails(d) \/ _misc_dev_bind_ifm_cb(d)
         \/ \E d \in bound : \E fail \in SUBSET bound : _misc_dev_del_cb(d, fail)
         \/ GatewayRegistered \/ (\E ok \in BOOLEAN : UnbindNext(ok)) \/ ReportPosThread
         \/ \E d \in bound, ok \in BOOLEAN : ReportPosNext(d, ok)
         \/ ReportPosEnd
         \/ \E ok \in BOOLEAN : ReportBindPosThread(ok)
         \/ Restart
<1>1. ASSUME BootNext /\ UNCHANGED runVars PROVE PosSame
  BY <1>1, BootFrame DEF PosSame
<1>2. ASSUME NEW a \in {"cloud", "inputs"}, Start(a) PROVE PosSame
  BY <1>2 DEF PosSame, Start
<1>3. ASSUME NEW how \in {"removing", "resetting"}, GatewayGone(how) PROVE PosSame
  BY <1>3 DEF PosSame, GatewayGone
<1>4. ASSUME UnbindEnds PROVE PosSame
  BY <1>4 DEF PosSame, UnbindEnds
<1>5. ASSUME KeyHeld \/ KeyReleasedLong \/ KeyReleased PROVE PosSame
  BY <1>5 DEF PosSame, KeyHeld, KeyReleasedLong, KeyReleased
<1>6. ASSUME NEW v \in {0, 1}, NEW ok \in BOOLEAN, di_scan(v, ok) PROVE PosSame
  BY <1>6 DEF PosSame, di_scan
<1> QED
  BY <1>1, <1>2, <1>3, <1>4, <1>5, <1>6 DEF HomeNext

\* A step while main runs that keeps the lists keeps PosInv when it keeps the
\* types and owes a report to whom it should.
LEMMA PosKeep ==
  ASSUME doc' = doc, stage' # "parse", online' => stage' = "run",
         posq' \in Nat, walk' \in [on : BOOLEAN, seen : SUBSET Bindable],
         bound' \subseteq Bindable, pending' \subseteq Bindable, bindq' \in Seq(Bindable),
         Reported'
  PROVE  PosInv'
<1>1. Bindable' = Bindable
  BY DEF Bindable, KnxOf, MbusOf
<1> QED
  BY <1>1 DEF PosInv, PosType, OnlineRuns

LEMMA PosStep == PosInv /\ [MainNext]_mainVars => PosInv'
<1> SUFFICES ASSUME PosInv, [MainNext]_mainVars PROVE PosInv'
  OBVIOUS
<1>0. /\ posq \in Nat /\ walk \in [on : BOOLEAN, seen : SUBSET Bindable]
      /\ bound \subseteq Bindable /\ pending \subseteq Bindable /\ bindq \in Seq(Bindable)
      /\ stage = "parse" => bound = {} /\ pending = {} /\ bindq = << >> /\ walk = NoWalk
      /\ online => stage = "run"
      /\ Reported
  BY DEF PosInv, PosType, OnlineRuns
<1>1. CASE UNCHANGED homeVars
  BY <1>1 DEF PosInv, PosType, OnlineRuns, Reported, Owed, Bindable, KnxOf, MbusOf
<1>2. CASE ParseGroupCfg /\ UNCHANGED runVars
  <2>1. /\ bound' = {} /\ pending' = {} /\ bindq' = << >> /\ walk' = NoWalk /\ posq' \in Nat /\ stage' # "parse"
        /\ ~online'
    BY <1>0, <1>2 DEF ParseGroupCfg
  <2> QED
    BY <2>1 DEF PosInv, PosType, OnlineRuns, Reported, NoWalk
<1>3. CASE stage # "parse" /\ HomeNext
  <2> USE <1>0 DEF Reported, Owed
  <2>1. CASE PosSame
    BY <2>1, PosKeep DEF PosSame
  <2>2. ASSUME NEW on \in BOOLEAN, _gw_online_status_changed_cb(on) PROVE PosInv'
    <3>1. posq' \in Nat /\ (on => posq' > 0)
      BY <2>2, HomeAssumption DEF _gw_online_status_changed_cb, PutPos
    <3>2. Reported'
      BY <2>2, <3>1 DEF _gw_online_status_changed_cb
    <3> QED
      BY <2>2, <3>1, <3>2, PosKeep DEF _gw_online_status_changed_cb
  <2>3. ASSUME NEW fail \in SUBSET Bindable, _misc_dev_add_cb(fail) PROVE PosInv'
    BY <2>3, PosKeep DEF _misc_dev_add_cb, Callback
  <2>4. ASSUME NEW d \in pending, BindFails(d) PROVE PosInv'
    BY <2>4, PosKeep DEF BindFails, Callback
  <2>5. ASSUME NEW d \in pending, _misc_dev_bind_ifm_cb(d) PROVE PosInv'
    <3>1. /\ bindq' \in Seq(Bindable)
          /\ \A e \in bound : (\E i \in DOMAIN bindq : bindq[i] = e) => \E i \in DOMAIN bindq' : bindq'[i] = e
          /\ refused \subseteq refused' /\ (d \in refused' \/ \E i \in DOMAIN bindq' : bindq'[i] = d)
      <4>1. CASE bindq' = bindq /\ refused' = refused \cup {d}
        BY <4>1
      <4>2. CASE bindq' = Append(bindq, d) /\ refused' = refused
        <5>1. /\ bindq' \in Seq(Bindable) /\ DOMAIN bindq' = 1..(Len(bindq) + 1)
              /\ bindq'[Len(bindq) + 1] = d /\ \A i \in DOMAIN bindq : i \in DOMAIN bindq' /\ bindq'[i] = bindq[i]
          BY <4>2
        <5> QED
          BY <4>2, <5>1
      <4> QED
        BY <2>5, <4>1, <4>2 DEF _misc_dev_bind_ifm_cb
    <3>2. /\ bound' = bound \cup {d} /\ pending' = pending \ {d} /\ known' = known
          /\ UNCHANGED <<doc, stage, online, posq, walk>>
      BY <2>5 DEF _misc_dev_bind_ifm_cb
    <3>3. Reported'
      BY <3>1, <3>2
    <3> QED
      BY <1>3, <3>1, <3>2, <3>3, PosKeep
  <2>6. ASSUME NEW gone, Forget(gone), UNCHANGED <<doc, stage, online, posq, pending, bindq, walk>> PROVE PosInv'
    BY <1>3, <2>6, PosKeep DEF Forget
  <2>7. ASSUME NEW d \in bound, NEW fail \in SUBSET bound, _misc_dev_del_cb(d, fail) PROVE PosInv'
    BY <2>6, <2>7 DEF _misc_dev_del_cb
  <2>8. CASE GatewayRegistered
    <3>1. posq' \in Nat /\ posq' > 0
      BY <2>8, HomeAssumption DEF GatewayRegistered, PutPos
    <3> QED
      BY <2>8, <3>1, PosKeep DEF GatewayRegistered, Callback
  <2>9. ASSUME NEW ok \in BOOLEAN, UnbindNext(ok) PROVE PosInv'
    <3>1. CASE ok
      BY <2>6, <2>9, <3>1 DEF UnbindNext
    <3>2. CASE ~ok
      <4>1. PosSame
        BY <1>3, <2>9, <3>2 DEF UnbindNext, PosSame
      <4> QED
        BY <2>1, <4>1
    <3> QED
      BY <3>1, <3>2
  <2>10. CASE ReportPosThread
    <3>1. posq' \in Nat /\ walk' \in [on : BOOLEAN, seen : SUBSET Bindable] /\ walk'.on /\ walk'.seen = {}
      BY <2>10 DEF ReportPosThread
    <3> QED
      BY <2>10, <3>1, PosKeep DEF ReportPosThread
  <2>11. ASSUME NEW d \in bound, NEW ok \in BOOLEAN, ReportPosNext(d, ok) PROVE PosInv'
    <3>1. /\ walk' \in [on : BOOLEAN, seen : SUBSET Bindable] /\ walk'.on = walk.on
          /\ walk'.seen = walk.seen \cup {d}
      BY <2>11 DEF ReportPosNext
    <3>2. /\ Report(d, ok) /\ stage = "run"
          /\ UNCHANGED <<doc, stage, online, posq, bound, pending, bindq>>
      BY <2>11 DEF ReportPosNext
    <3>3. Reported'
      BY <3>1, <3>2, ReportEffect
    <3> QED
      BY <3>1, <3>2, <3>3, PosKeep
  <2>12. CASE ReportPosEnd
    <3>1. walk' \in [on : BOOLEAN, seen : SUBSET Bindable] /\ bound \subseteq walk.seen
      BY <2>12 DEF ReportPosEnd, NoWalk
    <3> QED
      BY <2>12, <3>1, PosKeep DEF ReportPosEnd
  <2>13. ASSUME NEW ok \in BOOLEAN, ReportBindPosThread(ok) PROVE PosInv'
    <3>1. /\ bindq' \in Seq(Bindable) /\ DOMAIN bindq = 1..Len(bindq)
          /\ \A i \in DOMAIN bindq : i # 1 => i - 1 \in DOMAIN bindq' /\ bindq'[i - 1] = bindq[i]
          /\ Head(bindq) = bindq[1]
      BY <2>13 DEF ReportBindPosThread
    <3>2. /\ Report(Head(bindq), ok) /\ stage = "run"
          /\ UNCHANGED <<doc, stage, online, posq, bound, pending, walk>>
      BY <2>13 DEF ReportBindPosThread
    <3>3. Reported'
      <4> SUFFICES ASSUME online, NEW d \in bound
                   PROVE  d \in known' \/ d \in refused' \/ Owed(d)'
        BY <3>2
      <4>1. CASE d = Head(bindq)
        BY <3>2, <4>1, ReportEffect
      <4>2. CASE d # Head(bindq)
        BY <3>1, <3>2, <4>2, ReportEffect
      <4> QED
        BY <4>1, <4>2
    <3> QED
      BY <3>1, <3>2, <3>3, PosKeep
  <2>14. CASE Restart
    <3>1. NoWalk \in [on : BOOLEAN, seen : SUBSET Bindable]
      BY DEF NoWalk
    <3> QED
      BY <2>14, <3>1, PosKeep DEF Restart
  <2> QED
    BY <1>3, <2>1, <2>2, <2>3, <2>4, <2>5, <2>7, <2>8, <2>9, <2>10, <2>11, <2>12, <2>13, <2>14, PosCases
<1> QED
  BY <1>1, <1>2, <1>3, MainCases

\* Once ReportPosThread and ReportBindPosThread have nothing left to do, the cloud
\* has the position of every bound device, but for those refused while online:
\* binds, removals, outages and restarts in any order.
THEOREM PositionsAreKnown == MainSpec => []PositionsKnown
<1>1. MainInit => PosInv
  BY PosInit DEF MainInit
<1>2. PosInv /\ [MainNext]_mainVars => PosInv'
  BY PosStep
<1>3. PosInv => PositionsKnown
  BY DEF PosInv, Reported, Owed, PositionsKnown
<1> QED
  BY <1>1, <1>2, <1>3, PTL DEF MainSpec

-----------------------------------------------------------------------------
(* The association of the devices and their plugins *)

\* The places of main() after each of the walks that load plugins
AfterKnx == {"start", "run"}
AfterMbus == AfterKnx \cup {"LoadKnxPlugin"}
AfterZ3 == AfterMbus \cup {"LoadModbusPlugin"}
\* The first node of its list that the walk f has not passed
Ahead(f, after, nodes) == IF stage = f THEN at ELSE IF stage \in after THEN Len(nodes) + 1 ELSE 1
AheadZ3 == Ahead("LoadZ3Plugin", AfterZ3, doc.z3)
AheadMbus == Ahead("LoadModbusPlugin", AfterMbus, doc.mbus)
AheadKnx == Ahead("LoadKnxPlugin", AfterKnx, doc.knx)

BootType ==
  /\ at \in Nat \ {0}
  /\ stage \in {"parse", "associateKnxDev", "associateModbusDev", "ModbusDevGroup", "LoadZ3Plugin"} \cup AfterZ3
  /\ opened \in [Libraries -> Nat]
  /\ stage # "parse" => doc \in Documents /\ DOMAIN link = AllKeys(doc) /\ DOMAIN pIf = AllKeys(doc)

\* What LinksMutual says of one master
Alone(e) == \A o \in Masters : o.fk = e.fk => o = e
Linked(e) ==
  e.master /\ e.fk # NoKey /\ FindKnx(e.fk) # NoKey =>
    /\ link[e.key] = FindKnx(e.fk)
    /\ Alone(e) => link[FindKnx(e.fk)] = e.key
\* The walk of associateModbusDev leaves behind masters that are linked, and no
\* later turn undoes a link, but for a second master of the same KNX device.
LinkInv ==
  stage # "parse" =>
    \A j \in DOMAIN doc.mbus : Associated \/ (stage = "associateModbusDev" /\ j < at) => Linked(doc.mbus[j])

\* What InterfacesLive says of one device, but for who holds an incomplete library
\* open
LiveIn(ifs, libs, e) ==
  /\ e.plugin \notin Unusable \cup {"incomplete"} => ifs[e.key] = e.plugin /\ libs[e.plugin] > 0
  /\ e.plugin \in Unusable => ifs[e.key] = NoKey
  /\ e.plugin = "incomplete" => ifs[e.key] = e.plugin
\* The devices before the nodes z, m and k of the three lists are as InterfacesLive
\* wants them; the others have no interface yet.
LoadedBefore(z, m, k, ifs, libs) ==
  /\ \A j \in DOMAIN doc.z3 : IF j < z THEN LiveIn(ifs, libs, doc.z3[j]) ELSE ifs[doc.z3[j].key] = NoKey
  /\ \A j \in DOMAIN doc.mbus : IF j < m THEN LiveIn(ifs, libs, doc.mbus[j]) ELSE ifs[doc.mbus[j].key] = NoKey
  /\ \A j \in DOMAIN doc.knx : IF j < k THEN LiveIn(ifs, libs, doc.knx[j]) ELSE ifs[doc.knx[j].key] = NoKey
LoadInv == stage # "parse" => LoadedBefore(AheadZ3, AheadMbus, AheadKnx, pIf, opened)

\* No Modbus device is ever chained to another.
Unchained == \A k \in DOMAIN chain : chain[k] = NoKey

BootInv == BootType /\ LinkInv /\ LoadInv /\ Unchained

LEMMA BootStarts == HomeInit => BootInv
<1> SUFFICES ASSUME HomeInit PROVE BootInv
  OBVIOUS
<1>1. stage = "parse" /\ at = 1 /\ opened = [p \in Libraries |-> 0] /\ chain = << >>
  BY DEF HomeInit, BootInit
<1> QED
  BY <1>1 DEF BootInv, BootType, LinkInv, LoadInv, Unchained

\* The facts about a document that the walks rely on
LEMMA ListFacts ==
  ASSUME NEW d \in Documents
  PROVE  /\ Len(d.knx) \in Nat /\ DOMAIN d.knx = 1..Len(d.knx)
         /\ Len(d.mbus) \in Nat /\ DOMAIN d.mbus = 1..Len(d.mbus)
         /\ Len(d.z3) \in Nat /\ DOMAIN d.z3 = 1..Len(d.z3)
         /\ KeysDiffer(d.knx, "knx") /\ KeysDiffer(d.mbus, "mbus") /\ KeysDiffer(d.z3, "z3")
  BY DocumentsAssumption

LEMMA EntryFacts ==
  ASSUME NEW d \in Documents
  PROVE  /\ \A i \in DOMAIN d.knx : d.knx[i] \in Entries(d)
         /\ \A i \in DOMAIN d.mbus : d.mbus[i] \in Entries(d)
         /\ \A i \in DOMAIN d.z3 : d.z3[i] \in Entries(d)
         /\ \A e \in Entries(d) : e.key \in AllKeys(d) /\ e.plugin \in Libraries
         /\ \A e \in Entries(d) : \/ \E i \in DOMAIN d.knx : e = d.knx[i]
                                  \/ \E i \in DOMAIN d.mbus : e = d.mbus[i]
                                  \/ \E i \in DOMAIN d.z3 : e = d.z3[i]
<1>1. \A e \in Entries(d) : e.key \in AllKeys(d) /\ e.plugin \in Libraries
  BY DEF AllKeys, Libraries
<1>2. Entries(d) = Range(d.knx) \cup Range(d.mbus) \cup Range(d.z3)
  BY DEF Entries
<1> QED
  BY <1>1, <1>2 DEF Range

\* A search of the KNX list finds the device with the key, or nothing.
LEMMA FoundKnx ==
  ASSUME doc \in Documents, NEW key, FindKnx(key) # NoKey
  PROVE  FindKnx(key) = key /\ \E i \in DOMAIN doc.knx : doc.knx[i].key = key
<1> DEFINE hits == {i \in DOMAIN doc.knx : Matches("KnxDevIdMatch", doc.knx[i], key)}
<1>1. FindKnx(key) = IF hits = {} THEN NoKey ELSE doc.knx[Min(hits)].key
  BY DEF FindKnx, listSearchKey
<1>2. \A i \in DOMAIN doc.knx : Matches("KnxDevIdMatch", doc.knx[i], key) <=> doc.knx[i].key = key
  BY DEF Matches, KnxDevIdMatch
<1>3. PICK i \in hits : TRUE
  BY <1>1
<1>4. i \in DOMAIN doc.knx /\ i \in Nat /\ doc.knx[i].key = key
  BY <1>2, <1>3, ListFacts
<1>5. hits = {i}
  BY <1>2, <1>4, ListFacts DEF KeysDiffer
<1>6. Min(hits) = i
  BY <1>4, <1>5 DEF Min
<1> QED
  BY <1>1, <1>3, <1>4, <1>6

\* A search of the Modbus list by the text of a key finds nothing: ModbusDevIdMatch
\* compares numbers of devices with characters of a MAC.
LEMMA FoundNoMbus ==
  ASSUME doc \in Documents, NEW key
  PROVE  FindMbus(key) = NoKey
<1> DEFINE hits == {i \in DOMAIN doc.mbus : Matches("ModbusDevIdMatch", doc.mbus[i], FirstWord(key))}
<1>1. FindMbus(key) = IF hits = {} THEN NoKey ELSE doc.mbus[Min(hits)].key
  BY DEF FindMbus, listSearchKey
<1>2. \A i \in DOMAIN doc.mbus : Matches("ModbusDevIdMatch", doc.mbus[i], FirstWord(key)) <=> DevId(doc.mbus[i].key) = MacWord
  BY DEF Matches, ModbusDevIdMatch, FirstWord
<1>3. \A i \in DOMAIN doc.mbus : doc.mbus[i].key \in AllKeys(doc)
  BY EntryFacts
<1>4. hits = {}
  BY <1>2, <1>3, DocumentsAssumption
<1> QED
  BY <1>1, <1>4

\* A turn of associateModbusDev links its master and no other link of a single
\* master is lost.
LEMMA LinkTurn ==
  ASSUME doc \in Documents, DOMAIN link = AllKeys(doc), at \in Nat \ {0},
         stage = "associateModbusDev", LinkInv, associateModbusDev
  PROVE  LinkInv'
<1> DEFINE e == doc.mbus[at]
           k == FindKnx(e.fk)
<1>1. /\ stage' = "associateModbusDev" /\ at' = at + 1 /\ doc' = doc /\ at <= Len(doc.mbus)
      /\ IF e.master /\ e.fk # NoKey /\ k # NoKey THEN link' = [link EXCEPT ![e.key] = k, ![k] = e.key] ELSE link' = link
  BY DEF associateModbusDev, Turn, Walked, LinkPair
<1>2. /\ DOMAIN doc.mbus = 1..Len(doc.mbus) /\ Len(doc.mbus) \in Nat
      /\ KeysDiffer(doc.mbus, "mbus") /\ KeysDiffer(doc.knx, "knx")
  BY ListFacts
<1>3. at \in DOMAIN doc.mbus
  BY <1>1, <1>2
<1>4. /\ \A x : (FindKnx(x))' = FindKnx(x)
      /\ Masters' = Masters
  BY <1>1 DEF FindKnx, listSearchKey, Matches, KnxDevIdMatch, ModbusDevIdMatch, Masters
<1>5. \A j \in DOMAIN doc.mbus : doc.mbus[j].key \in DOMAIN link /\ doc.mbus[j].key.type = "mbus"
  BY <1>2, EntryFacts DEF KeysDiffer
<1>6. \A x : FindKnx(x) # NoKey => FindKnx(x) = x /\ x \in DOMAIN link /\ x.type = "knx"
  BY <1>2, FoundKnx, EntryFacts DEF KeysDiffer
<1>7. \A j \in DOMAIN doc.mbus : doc.mbus[j].master => doc.mbus[j] \in Masters
  BY DEF Masters, Range
<1> SUFFICES ASSUME NEW j \in DOMAIN doc.mbus, j < at + 1,
                    doc.mbus[j].master, doc.mbus[j].fk # NoKey, FindKnx(doc.mbus[j].fk) # NoKey
             PROVE  /\ link'[doc.mbus[j].key] = FindKnx(doc.mbus[j].fk)
                    /\ Alone(doc.mbus[j]) => link'[FindKnx(doc.mbus[j].fk)] = doc.mbus[j].key
  BY <1>1, <1>4 DEF LinkInv, Linked, Associated, Alone
<1> HIDE DEF e, k
<1>8. CASE j = at
  <2>1. link' = [link EXCEPT ![e.key] = k, ![k] = e.key]
    BY <1>1, <1>8 DEF e, k
  <2>2. e.key \in DOMAIN link /\ k \in DOMAIN link /\ e.key # k
    BY <1>3, <1>5, <1>6, <1>8 DEF e, k
  <2>3. link'[e.key] = k /\ link'[k] = e.key
    BY <2>1, <2>2
  <2> QED
    BY <1>8, <2>3 DEF e, k
<1>9. CASE j # at
  <2> DEFINE f == doc.mbus[j]
             m == FindKnx(f.fk)
  <2>1. link[f.key] = m /\ (Alone(f) => link[m] = f.key)
    <3>1. j < at
      BY <1>1, <1>2, <1>9
    <3>2. Linked(f)
      BY <3>1 DEF LinkInv
    <3> QED
      BY <3>2 DEF Linked
  <2>2. CASE link' = link
    BY <2>1, <2>2
  <2>3. CASE e.master /\ e.fk # NoKey /\ k # NoKey /\ link' = [link EXCEPT ![e.key] = k, ![k] = e.key]
    <3>1. f.key # e.key /\ f.key # k /\ m # e.key
      BY <1>2, <1>3, <1>5, <1>6, <1>9, <2>3 DEF e, k, KeysDiffer
    <3>2. link'[f.key] = m
      BY <1>5, <2>1, <2>3, <3>1
    <3>3. ASSUME Alone(f) PROVE m # k
      <4>1. m = f.fk /\ k = e.fk /\ m # NoKey
        BY <1>6, <2>3 DEF e, k
      <4>2. e \in Masters
        BY <1>3, <1>7, <2>3 DEF e
      <4>3. f # e
        BY <3>1
      <4> QED
        BY <3>3, <4>1, <4>2, <4>3 DEF Alone
    <3>4. ASSUME Alone(f) PROVE link'[m] = f.key
      BY <1>6, <2>1, <2>3, <3>1, <3>3, <3>4
    <3> QED
      BY <3>2, <3>4
  <2> QED
    BY <1>1, <2>2, <2>3
<1> QED
  BY <1>8, <1>9

\* Nothing LinkInv speaks of changes.
LEMMA LinkKept ==
  ASSUME doc' = doc, link' = link, LinkInv, stage # "parse",
         \A j \in DOMAIN doc.mbus : (Associated \/ (stage = "associateModbusDev" /\ j < at))' =>
                                    Associated \/ (stage = "associateModbusDev" /\ j < at)
  PROVE  LinkInv'
<1>1. /\ \A x : (FindKnx(x))' = FindKnx(x)
      /\ Masters' = Masters
  BY DEF FindKnx, listSearchKey, Matches, KnxDevIdMatch, ModbusDevIdMatch, Masters
<1>2. \A x : Linked(x)' <=> Linked(x)
  BY <1>1 DEF Linked, Alone
<1> QED
  BY <1>2 DEF LinkInv

\* What loading one plugin does: the device is as InterfacesLive wants it, no
\* other device loses its interface and no library is closed under another.
LEMMA LoadEffect ==
  ASSUME NEW e, opened \in [Libraries -> Nat], e.plugin \in Libraries, e.key \in DOMAIN pIf,
         pIf[e.key] = NoKey, Dlopen(e) \/ DlopenChecked(e)
  PROVE  /\ opened' \in [Libraries -> Nat] /\ DOMAIN pIf' = DOMAIN pIf
         /\ LiveIn(pIf', opened', e)
         /\ \A k \in DOMAIN pIf : k # e.key => pIf'[k] = pIf[k]
         /\ \A p \in Libraries : opened'[p] >= opened[p]
<1>1. opened' = opened \/ opened' = [opened EXCEPT ![e.plugin] = @ + 1]
  BY DEF Dlopen, DlopenChecked, Opened
<1>2. pIf' = pIf \/ pIf' = [pIf EXCEPT ![e.key] = e.plugin]
  BY DEF Dlopen, DlopenChecked, Pointed
<1>3. /\ opened' \in [Libraries -> Nat]
      /\ \A p \in Libraries : opened'[p] >= opened[p]
  BY <1>1
<1>4. /\ DOMAIN pIf' = DOMAIN pIf
      /\ \A k \in DOMAIN pIf : k # e.key => pIf'[k] = pIf[k]
  BY <1>2
<1>5. CASE e.plugin \in Unusable
  <2>1. pIf' = pIf
    BY <1>5 DEF Dlopen, DlopenChecked, Unusable
  <2> QED
    BY <1>3, <1>4, <1>5, <2>1 DEF LiveIn, Unusable
<1>6. CASE e.plugin \notin Unusable \cup {"incomplete"}
  <2>1. pIf' = [pIf EXCEPT ![e.key] = e.plugin] /\ opened' = [opened EXCEPT ![e.plugin] = @ + 1]
    BY <1>6 DEF Dlopen, DlopenChecked, Unusable, Opened, Pointed
  <2>2. pIf'[e.key] = e.plugin /\ opened'[e.plugin] > 0
    BY <2>1
  <2> QED
    BY <1>3, <1>4, <1>6, <2>2 DEF LiveIn, Unusable
<1>7. CASE e.plugin = "incomplete"
  <2>1. pIf' = [pIf EXCEPT ![e.key] = e.plugin]
    BY <1>7 DEF Dlopen, DlopenChecked, Pointed
  <2> QED
    BY <1>3, <1>4, <1>7, <2>1 DEF LiveIn, Unusable
<1> QED
  BY <1>3, <1>4, <1>5, <1>6, <1>7

\* An interface that a device has stays while other devices get theirs.
LEMMA LiveKept ==
  ASSUME NEW e, NEW f, opened \in [Libraries -> Nat], opened' \in [Libraries -> Nat], f.plugin \in Libraries,
         f.key # e.key, f.key \in DOMAIN pIf,
         \A k \in DOMAIN pIf : k # e.key => pIf'[k] = pIf[k],
         \A p \in Libraries : opened'[p] >= opened[p]
  PROVE  pIf'[f.key] = pIf[f.key] /\ (LiveIn(pIf, opened, f) => LiveIn(pIf', opened', f))
<1>1. pIf'[f.key] = pIf[f.key]
  OBVIOUS
<1>2. opened[f.plugin] > 0 => opened'[f.plugin] > 0
  <2>1. opened[f.plugin] \in Nat /\ opened'[f.plugin] \in Nat /\ opened'[f.plugin] >= opened[f.plugin]
    OBVIOUS
  <2> QED
    BY <2>1
<1> QED
  BY <1>1, <1>2 DEF LiveIn

\* The keys of two nodes of a document differ.
LEMMA KeysApart ==
  ASSUME NEW d \in Documents
  PROVE  /\ \A i \in DOMAIN d.z3 : \A j \in DOMAIN d.z3 : i # j => d.z3[i].key # d.z3[j].key
         /\ \A i \in DOMAIN d.mbus : \A j \in DOMAIN d.mbus : i # j => d.mbus[i].key # d.mbus[j].key
         /\ \A i \in DOMAIN d.knx : \A j \in DOMAIN d.knx : i # j => d.knx[i].key # d.knx[j].key
         /\ \A i \in DOMAIN d.z3 : \A j \in DOMAIN d.mbus : d.z3[i].key # d.mbus[j].key
         /\ \A i \in DOMAIN d.z3 : \A j \in DOMAIN d.knx : d.z3[i].key # d.knx[j].key
         /\ \A i \in DOMAIN d.mbus : \A j \in DOMAIN d.knx : d.mbus[i].key # d.knx[j].key
<1>1. KeysDiffer(d.knx, "knx") /\ KeysDiffer(d.mbus, "mbus") /\ KeysDiffer(d.z3, "z3")
  BY ListFacts
<1>2. /\ \A i \in DOMAIN d.z3 : d.z3[i].key.type = "z3"
      /\ \A i \in DOMAIN d.mbus : d.mbus[i].key.type = "mbus"
      /\ \A i \in DOMAIN d.knx : d.knx[i].key.type = "knx"
  BY <1>1 DEF KeysDiffer
<1>3. /\ \A i \in DOMAIN d.z3 : \A j \in DOMAIN d.z3 : i # j => d.z3[i].key # d.z3[j].key
      /\ \A i \in DOMAIN d.mbus : \A j \in DOMAIN d.mbus : i # j => d.mbus[i].key # d.mbus[j].key
      /\ \A i \in DOMAIN d.knx : \A j \in DOMAIN d.knx : i # j => d.knx[i].key # d.knx[j].key
  BY <1>1 DEF KeysDiffer
<1> QED
  BY <1>2, <1>3

\* One turn of a walk that loads plugins
LEMMA LoadTurn ==
  ASSUME doc \in Documents, opened \in [Libraries -> Nat], DOMAIN pIf = AllKeys(doc),
         NEW z \in Nat, NEW m \in Nat, NEW k \in Nat, LoadedBefore(z, m, k, pIf, opened),
         NEW e \in Entries(doc), Dlopen(e) \/ DlopenChecked(e),
         \/ z \in DOMAIN doc.z3 /\ e = doc.z3[z]
         \/ m \in DOMAIN doc.mbus /\ e = doc.mbus[m]
         \/ k \in DOMAIN doc.knx /\ e = doc.knx[k]
  PROVE  /\ opened' \in [Libraries -> Nat] /\ DOMAIN pIf' = AllKeys(doc)
         /\ z \in DOMAIN doc.z3 /\ e = doc.z3[z] => LoadedBefore(z + 1, m, k, pIf', opened')
         /\ m \in DOMAIN doc.mbus /\ e = doc.mbus[m] => LoadedBefore(z, m + 1, k, pIf', opened')
         /\ k \in DOMAIN doc.knx /\ e = doc.knx[k] => LoadedBefore(z, m, k + 1, pIf', opened')
<1>1. \A f \in Entries(doc) : f.key \in DOMAIN pIf /\ f.plugin \in Libraries
  BY EntryFacts
<1>2. pIf[e.key] = NoKey
  BY ListFacts DEF LoadedBefore
<1>3. /\ opened' \in [Libraries -> Nat] /\ DOMAIN pIf' = DOMAIN pIf
      /\ LiveIn(pIf', opened', e)
      /\ \A x \in DOMAIN pIf : x # e.key => pIf'[x] = pIf[x]
      /\ \A p \in Libraries : opened'[p] >= opened[p]
  BY <1>1, <1>2, LoadEffect
<1>4. ASSUME NEW f \in Entries(doc), f.key # e.key
      PROVE  pIf'[f.key] = pIf[f.key] /\ (LiveIn(pIf, opened, f) => LiveIn(pIf', opened', f))
  BY <1>1, <1>3, <1>4, LiveKept
<1>5. /\ \A j \in DOMAIN doc.z3 : j \in Nat /\ doc.z3[j] \in Entries(doc)
      /\ \A j \in DOMAIN doc.mbus : j \in Nat /\ doc.mbus[j] \in Entries(doc)
      /\ \A j \in DOMAIN doc.knx : j \in Nat /\ doc.knx[j] \in Entries(doc)
  BY ListFacts, EntryFacts
<1>6. ASSUME NEW nodes, NEW n \in Nat, \A j \in DOMAIN nodes : j \in Nat /\ nodes[j] \in Entries(doc),
             \A j \in DOMAIN nodes : IF j < n THEN LiveIn(pIf, opened, nodes[j]) ELSE pIf[nodes[j].key] = NoKey
      PROVE  /\ (\A j \in DOMAIN nodes : nodes[j].key # e.key)
                  => \A j \in DOMAIN nodes : IF j < n THEN LiveIn(pIf', opened', nodes[j]) ELSE pIf'[nodes[j].key] = NoKey
             /\ (n \in DOMAIN nodes /\ e = nodes[n] /\ \A j \in DOMAIN nodes : j # n => nodes[j].key # e.key)
                  => \A j \in DOMAIN nodes : IF j < n + 1 THEN LiveIn(pIf', opened', nodes[j]) ELSE pIf'[nodes[j].key] = NoKey
  <2>1. \A j \in DOMAIN nodes : nodes[j].key # e.key =>
          IF j < n THEN LiveIn(pIf', opened', nodes[j]) ELSE pIf'[nodes[j].key] = NoKey
    BY <1>4, <1>6
  <2>2. \A j \in DOMAIN nodes : j # n => (j < n + 1 <=> j < n)
    BY <1>6
  <2>3. n < n + 1
    OBVIOUS
  <2> QED
    BY <1>3, <2>1, <2>2, <2>3
<1>7. ASSUME z \in DOMAIN doc.z3, e = doc.z3[z] PROVE LoadedBefore(z + 1, m, k, pIf', opened')
  <2>1. \A j \in DOMAIN doc.z3 : j # z => doc.z3[j].key # e.key
    BY <1>7, KeysApart
  <2>2. \A j \in DOMAIN doc.z3 : IF j < z + 1 THEN LiveIn(pIf', opened', doc.z3[j]) ELSE pIf'[doc.z3[j].key] = NoKey
    BY <1>5, <1>6, <1>7, <2>1 DEF LoadedBefore
  <2>3. \A j \in DOMAIN doc.mbus : doc.mbus[j].key # e.key
    BY <1>7, KeysApart
  <2>4. \A j \in DOMAIN doc.mbus : IF j < m THEN LiveIn(pIf', opened', doc.mbus[j]) ELSE pIf'[doc.mbus[j].key] = NoKey
    BY <1>5, <1>6, <2>3 DEF LoadedBefore
  <2>5. \A j \in DOMAIN doc.knx : doc.knx[j].key # e.key
    BY <1>7, KeysApart
  <2>6. \A j \in DOMAIN doc.knx : IF j < k THEN LiveIn(pIf', opened', doc.knx[j]) ELSE pIf'[doc.knx[j].key] = NoKey
    BY <1>5, <1>6, <2>5 DEF LoadedBefore
  <2> QED
    BY <2>2, <2>4, <2>6 DEF LoadedBefore
<1>8. ASSUME m \in DOMAIN doc.mbus, e = doc.mbus[m] PROVE LoadedBefore(z, m + 1, k, pIf', opened')
  <2>1. \A j \in DOMAIN doc.mbus : j # m => doc.mbus[j].key # e.key
    BY <1>8, KeysApart
  <2>2. \A j \in DOMAIN doc.mbus : IF j < m + 1 THEN LiveIn(pIf', opened', doc.mbus[j]) ELSE pIf'[doc.mbus[j].key] = NoKey
    BY <1>5, <1>6, <1>8, <2>1 DEF LoadedBefore
  <2>3. \A j \in DOMAIN doc.z3 : doc.z3[j].key # e.key
    BY <1>8, KeysApart
  <2>4. \A j \in DOMAIN doc.z3 : IF j < z THEN LiveIn(pIf', opened', doc.z3[j]) ELSE pIf'[doc.z3[j].key] = NoKey
    BY <1>5, <1>6, <2>3 DEF LoadedBefore
  <2>5. \A j \in DOMAIN doc.knx : doc.knx[j].key # e.key
    BY <1>8, KeysApart
  <2>6. \A j \in DOMAIN doc.knx : IF j < k THEN LiveIn(pIf', opened', doc.knx[j]) ELSE pIf'[doc.knx[j].key] = NoKey
    BY <1>5, <1>6, <2>5 DEF LoadedBefore
  <2> QED
    BY <2>2, <2>4, <2>6 DEF LoadedBefore
<1>9. ASSUME k \in DOMAIN doc.knx, e = doc.knx[k] PROVE LoadedBefore(z, m, k + 1, pIf', opened')
  <2>1. \A j \in DOMAIN doc.knx : j # k => doc.knx[j].key # e.key
    BY <1>9, KeysApart
  <2>2. \A j \in DOMAIN doc.knx : IF j < k + 1 THEN LiveIn(pIf', opened', doc.knx[j]) ELSE pIf'[doc.knx[j].key] = NoKey
    BY <1>5, <1>6, <1>9, <2>1 DEF LoadedBefore
  <2>3. \A j \in DOMAIN doc.z3 : doc.z3[j].key # e.key
    BY <1>9, KeysApart
  <2>4. \A j \in DOMAIN doc.z3 : IF j < z THEN LiveIn(pIf', opened', doc.z3[j]) ELSE pIf'[doc.z3[j].key] = NoKey
    BY <1>5, <1>6, <2>3 DEF LoadedBefore
  <2>5. \A j \in DOMAIN doc.mbus : doc.mbus[j].key # e.key
    BY <1>9, KeysApart
  <2>6. \A j \in DOMAIN doc.mbus : IF j < m THEN LiveIn(pIf', opened', doc.mbus[j]) ELSE pIf'[doc.mbus[j].key] = NoKey
    BY <1>5, <1>6, <2>5 DEF LoadedBefore
  <2> QED
    BY <2>2, <2>4, <2>6 DEF LoadedBefore
<1> QED
  BY <1>3, <1>7, <1>8, <1>9

\* Nothing LoadInv speaks of changes.
LEMMA LoadKept ==
  ASSUME stage # "parse", doc' = doc, pIf' = pIf, opened' = opened, LoadInv,
         \A j \in DOMAIN doc.z3 : (j < AheadZ3)' <=> j < AheadZ3,
         \A j \in DOMAIN doc.mbus : (j < AheadMbus)' <=> j < AheadMbus,
         \A j \in DOMAIN doc.knx : (j < AheadKnx)' <=> j < AheadKnx
  PROVE  LoadInv'
  BY DEF LoadInv, LoadedBefore, LiveIn

\* The threads and callbacks of the running gateway
BootRest ==
  /\ UNCHANGED <<at, doc, grp, link, chain, pIf, opened>>
  /\ stage' = stage \/ (stage \in {"start", "run"} /\ stage' \in {"start", "run"})

LEMMA BootCases ==
  ASSUME HomeNext
  PROVE  BootNext \/ BootRest
<1>1. ASSUME NEW a \in {"cloud", "inputs"}, Start(a) PROVE BootRest
  BY <1>1 DEF BootRest, Start
<1>2. ASSUME Restart PROVE BootRest
  BY <1>2 DEF BootRest, Restart
<1>3. ASSUME UNCHANGED bootVars PROVE BootRest
  BY <1>3 DEF BootRest
<1>4. ASSUME HomeNext, ~BootNext, ~(\E a \in {"cloud", "inputs"} : Start(a)), ~Restart PROVE UNCHANGED bootVars
  BY <1>4
     DEF HomeNext, _gw_online_status_changed_cb, _misc_dev_add_cb, BindFails, _misc_dev_bind_ifm_cb,
         _misc_dev_del_cb, GatewayRegistered, GatewayGone, UnbindNext, UnbindEnds, ReportPosThread, ReportPosNext,
         ReportPosEnd, ReportBindPosThread, KeyHeld, KeyReleasedLong, KeyReleased, di_scan
<1> QED
  BY <1>1, <1>2, <1>3, <1>4

LEMMA BootStep == BootInv /\ [MainNext]_mainVars => BootInv'
<1> SUFFICES ASSUME BootInv, [MainNext]_mainVars PROVE BootInv'
  OBVIOUS
<1>0. BootType /\ LinkInv /\ LoadInv /\ Unchained
  BY DEF BootInv
<1>1. CASE UNCHANGED bootVars /\ stage = "parse"
  <2>1. BootType' /\ Unchained'
    BY <1>0, <1>1 DEF BootType, Unchained
  <2> QED
    BY <1>1, <2>1 DEF BootInv, LinkInv, LoadInv
<1>2. CASE ParseGroupCfg
  <2>1. /\ stage' = "associateKnxDev" /\ at' = at /\ doc' \in Documents /\ opened' = opened
        /\ link' = [k \in AllKeys(doc') |-> NoKey] /\ chain' = link' /\ pIf' = link'
    BY <1>2 DEF ParseGroupCfg
  <2>2. BootType' /\ Unchained'
    BY <1>0, <2>1 DEF BootType, Unchained
  <2>3. LinkInv'
    BY <2>1 DEF LinkInv, Associated
  <2>4. LoadInv'
    <3>1. (AheadZ3 = 1 /\ AheadMbus = 1 /\ AheadKnx = 1)'
      BY <2>1 DEF AheadZ3, AheadMbus, AheadKnx, Ahead, AfterZ3, AfterMbus, AfterKnx
    <3>2. /\ \A j \in DOMAIN doc'.z3 : ~(j < 1) /\ pIf'[doc'.z3[j].key] = NoKey
          /\ \A j \in DOMAIN doc'.mbus : ~(j < 1) /\ pIf'[doc'.mbus[j].key] = NoKey
          /\ \A j \in DOMAIN doc'.knx : ~(j < 1) /\ pIf'[doc'.knx[j].key] = NoKey
      BY <2>1, ListFacts, EntryFacts
    <3> QED
      BY <3>1, <3>2 DEF LoadInv, LoadedBefore
  <2> QED
    BY <2>2, <2>3, <2>4 DEF BootInv
<1>3. ASSUME stage # "parse", BootRest PROVE BootInv'
  <2>1. BootType' /\ Unchained'
    BY <1>0, <1>3 DEF BootRest, BootType, Unchained, AfterZ3, AfterMbus, AfterKnx
  <2>2. LinkInv'
    BY <1>0, <1>3, LinkKept DEF BootRest, Associated
  <2>3. LoadInv'
    <3>1. (AheadZ3)' = AheadZ3 /\ (AheadMbus)' = AheadMbus /\ (AheadKnx)' = AheadKnx
      BY <1>3 DEF BootRest, AheadZ3, AheadMbus, AheadKnx, Ahead, AfterZ3, AfterMbus, AfterKnx
    <3> QED
      BY <1>0, <1>3, <3>1, LoadKept DEF BootRest
  <2> QED
    BY <2>1, <2>2, <2>3 DEF BootInv
<1>4. ASSUME stage # "parse", BootNext PROVE BootInv'
  <2>0. /\ doc \in Documents /\ DOMAIN link = AllKeys(doc) /\ DOMAIN pIf = AllKeys(doc)
        /\ at \in Nat \ {0} /\ opened \in [Libraries -> Nat]
        /\ Len(doc.knx) \in Nat /\ DOMAIN doc.knx = 1..Len(doc.knx)
        /\ Len(doc.mbus) \in Nat /\ DOMAIN doc.mbus = 1..Len(doc.mbus)
        /\ Len(doc.z3) \in Nat /\ DOMAIN doc.z3 = 1..Len(doc.z3)
    BY <1>0, <1>4, ListFacts DEF BootType
  <2>1. ASSUME stage' = stage, at' \in Nat \ {0}, doc' = doc, UNCHANGED <<chain, pIf, opened>>,
               stage \in {"associateKnxDev", "associateModbusDev", "ModbusDevGroup"},
               DOMAIN link' = DOMAIN link, LinkInv'
        PROVE  BootInv'
    <3>1. BootType' /\ Unchained'
      BY <1>0, <2>0, <2>1 DEF BootType, Unchained
    <3>2. (AheadZ3)' = AheadZ3 /\ (AheadMbus)' = AheadMbus /\ (AheadKnx)' = AheadKnx
      BY <2>1 DEF AheadZ3, AheadMbus, AheadKnx, Ahead, AfterZ3, AfterMbus, AfterKnx
    <3>3. LoadInv'
      BY <1>0, <1>4, <2>1, <3>2, LoadKept
    <3> QED
      BY <2>1, <3>1, <3>3 DEF BootInv
  <2>2. CASE associateKnxDev
    <3>1. /\ stage = "associateKnxDev" /\ stage' = stage /\ at' = at + 1 /\ doc' = doc /\ UNCHANGED <<chain, pIf, opened>>
          /\ DOMAIN link' = DOMAIN link
      BY <2>2 DEF associateKnxDev, Turn, LinkPair
    <3>2. LinkInv'
      BY <3>1 DEF LinkInv, Associated
    <3> QED
      BY <2>0, <2>1, <3>1, <3>2
  <2>3. CASE associateModbusDev
    <3>1. /\ stage = "associateModbusDev" /\ stage' = stage /\ at' = at + 1 /\ doc' = doc /\ UNCHANGED <<chain, pIf, opened>>
          /\ DOMAIN link' = DOMAIN link
      BY <2>3 DEF associateModbusDev, Turn, LinkPair
    <3>2. LinkInv'
      BY <1>0, <2>0, <2>3, <3>1, LinkTurn
    <3> QED
      BY <2>0, <2>1, <3>1, <3>2
  <2>4. CASE ModbusDevGroup
    <3>1. /\ stage = "ModbusDevGroup" /\ stage' = stage /\ doc' = doc /\ UNCHANGED <<link, pIf, opened>>
      BY <2>4 DEF ModbusDevGroup, Turn
    <3>2. at' = Len(grp) + 1 /\ chain' = chain
      BY <2>0, <2>4, FoundNoMbus DEF ModbusDevGroup
    <3>3. LinkInv'
      BY <1>0, <3>1, LinkKept DEF Associated
    <3>4. at' \in Nat \ {0}
      BY <2>0, <2>4, <3>2 DEF ModbusDevGroup, Turn
    <3> QED
      BY <2>1, <3>1, <3>2, <3>3, <3>4
  <2>5. ASSUME stage' = stage, at' = at + 1, doc' = doc, UNCHANGED <<link, chain>>,
               stage \in {"LoadZ3Plugin", "LoadModbusPlugin", "LoadKnxPlugin"},
               opened' \in [Libraries -> Nat], DOMAIN pIf' = AllKeys(doc), LoadInv'
        PROVE  BootInv'
    <3>1. BootType' /\ Unchained'
      BY <1>0, <2>0, <2>5 DEF BootType, Unchained
    <3>2. LinkInv'
      BY <1>0, <1>4, <2>5, LinkKept DEF Associated
    <3> QED
      BY <2>5, <3>1, <3>2 DEF BootInv
  <2>6. LoadedBefore(AheadZ3, AheadMbus, AheadKnx, pIf, opened)
    BY <1>0, <1>4 DEF LoadInv
  <2>7. /\ doc \in Documents /\ opened \in [Libraries -> Nat] /\ DOMAIN pIf = AllKeys(doc)
         /\ 1 \in Nat /\ at \in Nat /\ Len(doc.z3) + 1 \in Nat /\ Len(doc.mbus) + 1 \in Nat
    BY <2>0
  <2>8. ASSUME doc' = doc, stage' # "parse", LoadedBefore((AheadZ3)', (AheadMbus)', (AheadKnx)', pIf', opened') PROVE LoadInv'
    BY <2>8 DEF LoadInv, LoadedBefore, LiveIn
  <2>9. CASE LoadZ3Plugin
    <3>1. /\ stage = "LoadZ3Plugin" /\ stage' = stage /\ at' = at + 1 /\ doc' = doc /\ UNCHANGED <<link, chain>>
          /\ at \in DOMAIN doc.z3 /\ Dlopen(doc.z3[at])
      BY <2>0, <2>9 DEF LoadZ3Plugin, Turn, Walked
    <3>2. /\ AheadZ3 = at /\ AheadMbus = 1 /\ AheadKnx = 1
          /\ (AheadZ3)' = at + 1 /\ (AheadMbus)' = 1 /\ (AheadKnx)' = 1
      BY <3>1 DEF AheadZ3, AheadMbus, AheadKnx, Ahead, AfterZ3, AfterMbus, AfterKnx
    <3>3. doc.z3[at] \in Entries(doc) /\ at \in DOMAIN doc.z3 /\ (Dlopen(doc.z3[at]) \/ DlopenChecked(doc.z3[at]))
      BY <2>0, <3>1, EntryFacts
    <3>4. LoadedBefore(at, 1, 1, pIf, opened)
      BY <2>6, <3>2
    <3>5. /\ opened' \in [Libraries -> Nat] /\ DOMAIN pIf' = AllKeys(doc)
          /\ LoadedBefore(at + 1, 1, 1, pIf', opened')
      BY <2>7, <3>3, <3>4, LoadTurn
    <3> QED
      BY <2>5, <2>8, <3>1, <3>2, <3>5
  <2>10. CASE LoadModbusPlugin
    <3>1. /\ stage = "LoadModbusPlugin" /\ stage' = stage /\ at' = at + 1 /\ doc' = doc /\ UNCHANGED <<link, chain>>
          /\ at \in DOMAIN doc.mbus /\ DlopenChecked(doc.mbus[at])
      BY <2>0, <2>10 DEF LoadModbusPlugin, Turn, Walked
    <3>2. /\ AheadZ3 = Len(doc.z3) + 1 /\ AheadMbus = at /\ AheadKnx = 1
          /\ (AheadZ3)' = Len(doc.z3) + 1 /\ (AheadMbus)' = at + 1 /\ (AheadKnx)' = 1
      BY <3>1 DEF AheadZ3, AheadMbus, AheadKnx, Ahead, AfterZ3, AfterMbus, AfterKnx
    <3>3. doc.mbus[at] \in Entries(doc) /\ at \in DOMAIN doc.mbus /\ (Dlopen(doc.mbus[at]) \/ DlopenChecked(doc.mbus[at]))
      BY <2>0, <3>1, EntryFacts
    <3>4. LoadedBefore(Len(doc.z3) + 1, at, 1, pIf, opened)
      BY <2>6, <3>2
    <3>5. /\ opened' \in [Libraries -> Nat] /\ DOMAIN pIf' = AllKeys(doc)
          /\ LoadedBefore(Len(doc.z3) + 1, at + 1, 1, pIf', opened')
      BY <2>7, <3>3, <3>4, LoadTurn
    <3> QED
      BY <2>5, <2>8, <3>1, <3>2, <3>5
  <2>11. CASE LoadKnxPlugin
    <3>1. /\ stage = "LoadKnxPlugin" /\ stage' = stage /\ at' = at + 1 /\ doc' = doc /\ UNCHANGED <<link, chain>>
          /\ at \in DOMAIN doc.knx /\ DlopenChecked(doc.knx[at])
      BY <2>0, <2>11 DEF LoadKnxPlugin, Turn, Walked
    <3>2. /\ AheadZ3 = Len(doc.z3) + 1 /\ AheadMbus = Len(doc.mbus) + 1 /\ AheadKnx = at
          /\ (AheadZ3)' = Len(doc.z3) + 1 /\ (AheadMbus)' = Len(doc.mbus) + 1 /\ (AheadKnx)' = at + 1
      BY <3>1 DEF AheadZ3, AheadMbus, AheadKnx, Ahead, AfterZ3, AfterMbus, AfterKnx
    <3>3. doc.knx[at] \in Entries(doc) /\ at \in DOMAIN doc.knx /\ (Dlopen(doc.knx[at]) \/ DlopenChecked(doc.knx[at]))
      BY <2>0, <3>1, EntryFacts
    <3>4. LoadedBefore(Len(doc.z3) + 1, Len(doc.mbus) + 1, at, pIf, opened)
      BY <2>6, <3>2
    <3>5. /\ opened' \in [Libraries -> Nat] /\ DOMAIN pIf' = AllKeys(doc)
          /\ LoadedBefore(Len(doc.z3) + 1, Len(doc.mbus) + 1, at + 1, pIf', opened')
      BY <2>7, <3>3, <3>4, LoadTurn
    <3> QED
      BY <2>5, <2>8, <3>1, <3>2, <3>5
  <2>12. CASE Return
    <3> USE <2>12, ReturnCases
    <3>1. BootType' /\ Unchained'
      BY <1>0, <2>0 DEF BootType, Unchained, AfterZ3, AfterMbus, AfterKnx
    <3>2. LinkInv'
      <4>1. \A j \in DOMAIN doc.mbus : (Associated \/ (stage = "associateModbusDev" /\ j < at))' =>
                                         Associated \/ (stage = "associateModbusDev" /\ j < at)
        BY <2>0 DEF Associated
      <4> QED
        BY <1>0, <1>4, <4>1, LinkKept
    <3>3. LoadInv'
      <4>1. /\ \A j \in DOMAIN doc.z3 : (j < AheadZ3)' <=> j < AheadZ3
            /\ \A j \in DOMAIN doc.mbus : (j < AheadMbus)' <=> j < AheadMbus
            /\ \A j \in DOMAIN doc.knx : (j < AheadKnx)' <=> j < AheadKnx
        BY <2>0 DEF AheadZ3, AheadMbus, AheadKnx, Ahead, AfterZ3, AfterMbus, AfterKnx
      <4> QED
        BY <1>0, <1>4, <4>1, LoadKept
    <3> QED
      BY <3>1, <3>2, <3>3 DEF BootInv
  <2> QED
    BY <1>4, <2>2, <2>3, <2>4, <2>9, <2>10, <2>11, <2>12 DEF BootNext
<1>5. ASSUME UNCHANGED bootVars PROVE BootRest
  BY <1>5 DEF BootRest
<1> QED
  BY <1>1, <1>2, <1>3, <1>4, <1>5, MainCases, BootCases

\* A Modbus master and the KNX device it names point to each other after
\* associateModbusDev, for every configuration: no link of one master is undone
\* by the turn of another, unless both name the same device.
THEOREM LinksAreMutual == MainSpec => []LinksMutual
<1>1. MainInit => BootInv
  BY BootStarts DEF MainInit
<1>2. BootInv /\ [MainNext]_mainVars => BootInv'
  BY BootStep
<1>3. BootInv => LinksMutual
  <2> SUFFICES ASSUME BootInv, Associated, NEW e \in Masters, e.fk # NoKey, FindKnx(e.fk) # NoKey
               PROVE  link[e.key] = FindKnx(e.fk) /\ (Alone(e) => link[FindKnx(e.fk)] = e.key)
    BY DEF LinksMutual, Alone
  <2>1. PICK j \in DOMAIN doc.mbus : e = doc.mbus[j]
    BY DEF Masters, Range
  <2>2. Linked(e) /\ e.master
    BY <2>1 DEF BootInv, LinkInv, Associated, Masters
  <2> QED
    BY <2>2 DEF Linked
<1> QED
  BY <1>1, <1>2, <1>3, PTL DEF MainSpec

\* Only Zigbee devices that have had their turn hold an incomplete library open.
HeldOpen ==
  "incomplete" \in Libraries =>
    IF stage = "parse" THEN opened["incomplete"] = 0
    ELSE opened["incomplete"] > 0 <=> \E j \in DOMAIN doc.z3 : j < AheadZ3 /\ doc.z3[j].plugin = "incomplete"

\* Nothing HeldOpen speaks of changes.
LEMMA HeldKept ==
  ASSUME HeldOpen, stage # "parse", stage' # "parse", doc' = doc,
         "incomplete" \in Libraries => opened'["incomplete"] = opened["incomplete"],
         \A j \in DOMAIN doc.z3 : (j < AheadZ3)' <=> j < AheadZ3
  PROVE  HeldOpen'
  BY DEF HeldOpen

\* LoadModbusPlugin and LoadKnxPlugin close what lacks a function.
LEMMA CheckedIsClosed ==
  ASSUME NEW e, opened \in [Libraries -> Nat], e.plugin \in Libraries, DlopenChecked(e), "incomplete" \in Libraries
  PROVE  opened'["incomplete"] = opened["incomplete"]
<1>1. opened' = opened \/ (opened' = [opened EXCEPT ![e.plugin] = @ + 1] /\ e.plugin # "incomplete")
  BY DEF DlopenChecked, Dlopen, Opened
<1> QED
  BY <1>1

LEMMA HeldStep == BootInv /\ HeldOpen /\ [MainNext]_mainVars => HeldOpen'
<1> SUFFICES ASSUME BootInv, HeldOpen, [MainNext]_mainVars PROVE HeldOpen'
  OBVIOUS
<1>0. opened \in [Libraries -> Nat] /\ (stage # "parse" => doc \in Documents)
  BY DEF BootInv, BootType
<1>1. CASE UNCHANGED homeVars
  BY <1>1 DEF HeldOpen, AheadZ3, Ahead, AfterZ3, AfterMbus, AfterKnx
<1>2. CASE ParseGroupCfg
  <2>1. stage = "parse" /\ stage' = "associateKnxDev" /\ doc' \in Documents /\ opened' = opened
    BY <1>2 DEF ParseGroupCfg
  <2>2. (AheadZ3)' = 1
    BY <2>1 DEF AheadZ3, Ahead, AfterZ3, AfterMbus, AfterKnx
  <2>3. \A j \in DOMAIN doc'.z3 : ~(j < 1)
    BY <2>1, ListFacts
  <2> QED
    BY <2>1, <2>2, <2>3 DEF HeldOpen
<1>3. ASSUME stage # "parse", BootRest PROVE HeldOpen'
  <2>1. (AheadZ3)' = AheadZ3 /\ stage' # "parse"
    BY <1>3 DEF BootRest, AheadZ3, Ahead, AfterZ3, AfterMbus, AfterKnx
  <2> QED
    BY <1>3, <2>1, HeldKept DEF BootRest
<1>4. ASSUME stage # "parse", BootNext PROVE HeldOpen'
  <2>0. /\ doc' = doc /\ stage' # "parse" /\ doc \in Documents
        /\ Len(doc.z3) \in Nat /\ DOMAIN doc.z3 = 1..Len(doc.z3)
    BY <1>0, <1>4, BootFrame, ListFacts
  <2>1. CASE associateKnxDev \/ associateModbusDev \/ ModbusDevGroup
    <3>1. /\ stage \in {"associateKnxDev", "associateModbusDev", "ModbusDevGroup"} /\ stage' = stage
          /\ opened' = opened
      BY <2>1 DEF associateKnxDev, associateModbusDev, ModbusDevGroup, Turn
    <3>2. (AheadZ3)' = AheadZ3
      BY <2>0, <3>1 DEF AheadZ3, Ahead, AfterZ3, AfterMbus, AfterKnx
    <3> QED
      BY <1>4, <2>0, <3>1, <3>2, HeldKept
  <2>2. CASE LoadZ3Plugin
    <3>1. /\ stage = "LoadZ3Plugin" /\ stage' = stage /\ at' = at + 1
          /\ at \in DOMAIN doc.z3 /\ Dlopen(doc.z3[at]) /\ doc.z3[at].plugin \in Libraries
      BY <2>0, <2>2, EntryFacts DEF LoadZ3Plugin, Turn, Walked, BootInv, BootType
    <3>2. AheadZ3 = at /\ (AheadZ3)' = at + 1
      BY <3>1 DEF AheadZ3, Ahead, AfterZ3, AfterMbus, AfterKnx
    <3>3. \A j \in DOMAIN doc.z3 : j < at + 1 <=> (j < at \/ j = at)
      BY <2>0, <3>1
    <3>4. \/ opened' = opened /\ doc.z3[at].plugin # "incomplete"
          \/ opened' = [opened EXCEPT ![doc.z3[at].plugin] = @ + 1]
      BY <3>1 DEF Dlopen, Opened
    <3>5. ASSUME "incomplete" \in Libraries
          PROVE  opened'["incomplete"] > 0 <=> opened["incomplete"] > 0 \/ doc.z3[at].plugin = "incomplete"
      BY <1>0, <3>1, <3>4, <3>5
    <3> QED
      BY <1>4, <2>0, <3>1, <3>2, <3>3, <3>5 DEF HeldOpen
  <2>3. ASSUME stage' = stage, stage \in {"LoadModbusPlugin", "LoadKnxPlugin"}, NEW e, e.plugin \in Libraries, DlopenChecked(e)
        PROVE  HeldOpen'
    <3>1. (AheadZ3)' = AheadZ3
      BY <2>0, <2>3 DEF AheadZ3, Ahead, AfterZ3, AfterMbus, AfterKnx
    <3> QED
      BY <1>0, <1>4, <2>0, <2>3, <3>1, CheckedIsClosed, HeldKept
  <2>4. CASE LoadModbusPlugin
    <3>1. /\ stage = "LoadModbusPlugin" /\ stage' = stage /\ at \in DOMAIN doc.mbus /\ DlopenChecked(doc.mbus[at])
      BY <2>0, <2>4, ListFacts DEF LoadModbusPlugin, Turn, Walked, BootInv, BootType
    <3> QED
      BY <2>0, <2>3, <3>1, EntryFacts
  <2>5. CASE LoadKnxPlugin
    <3>1. /\ stage = "LoadKnxPlugin" /\ stage' = stage /\ at \in DOMAIN doc.knx /\ DlopenChecked(doc.knx[at])
      BY <2>0, <2>5, ListFacts DEF LoadKnxPlugin, Turn, Walked, BootInv, BootType
    <3> QED
      BY <2>0, <2>3, <3>1, EntryFacts
  <2>6. CASE Return
    <3>1. opened' = opened
      BY <2>6 DEF Return
    <3>2. \A j \in DOMAIN doc.z3 : (j < AheadZ3)' <=> j < AheadZ3
      BY <2>0, <2>6, ReturnCases DEF AheadZ3, Ahead, AfterZ3, AfterMbus, AfterKnx, BootInv, BootType
    <3> QED
      BY <1>4, <2>0, <3>1, <3>2, HeldKept
  <2> QED
    BY <1>4, <2>1, <2>2, <2>4, <2>5, <2>6 DEF BootNext
<1> QED
  BY <1>1, <1>2, <1>3, <1>4, MainCases, BootCases

\* When main() starts its threads, every device with a good plugin has an interface
\* in an open library, and one whose plugin cannot be used has none, whatever the
\* plugins of the devices around it, shared ones included.  A plugin that lacks a
\* function is the exception for every configuration: its Modbus and KNX devices
\* keep the pointer, and the library is closed unless a Zigbee device uses it too.
THEOREM InterfacesAreLive == MainSpec => []InterfacesLive
<1>1. MainInit => BootInv /\ HeldOpen
  <2>1. HomeInit => HeldOpen
    BY DEF HomeInit, BootInit, HeldOpen
  <2> QED
    BY <2>1, BootStarts DEF MainInit
<1>2. BootInv /\ HeldOpen /\ [MainNext]_mainVars => (BootInv /\ HeldOpen)'
  BY BootStep, HeldStep
<1>3. BootInv /\ HeldOpen => InterfacesLive
  <2> SUFFICES ASSUME BootInv, HeldOpen, stage \in {"start", "run"}, NEW e \in Entries(doc)
               PROVE  /\ LiveIn(pIf, opened, e)
                      /\ e.plugin = "incomplete" =>
                           (opened[e.plugin] > 0 <=> \E z \in Range(doc.z3) : z.plugin = e.plugin)
    BY DEF InterfacesLive, LiveIn
  <2>1. doc \in Documents
    BY DEF BootInv, BootType
  <2>2. LoadedBefore(Len(doc.z3) + 1, Len(doc.mbus) + 1, Len(doc.knx) + 1, pIf, opened)
    BY DEF BootInv, LoadInv, AheadZ3, AheadMbus, AheadKnx, Ahead, AfterZ3, AfterMbus, AfterKnx
  <2>3. LiveIn(pIf, opened, e)
    BY <2>1, <2>2, ListFacts, EntryFacts DEF LoadedBefore
  <2>4. ASSUME e.plugin = "incomplete"
        PROVE  opened[e.plugin] > 0 <=> \E z \in Range(doc.z3) : z.plugin = e.plugin
    <3>1. AheadZ3 = Len(doc.z3) + 1 /\ \A j \in DOMAIN doc.z3 : j < Len(doc.z3) + 1
      BY <2>1, ListFacts DEF AheadZ3, Ahead, AfterZ3, AfterMbus, AfterKnx
    <3>2. "incomplete" \in Libraries
      BY <2>1, <2>4, EntryFacts
    <3> QED
      BY <2>4, <3>1, <3>2 DEF HeldOpen, Range
  <2> QED
    BY <2>3, <2>4
<1> QED
  BY <1>1, <1>2, <1>3, PTL DEF MainSpec

\* ModbusDevGroup chains no device to another, whatever groups the configuration
\* has: ModbusDevIdMatch reads characters of a MAC where it expects a devId.
THEOREM NoGroupForms == MainSpec => []Unchained
<1>1. MainInit => BootInv
  BY BootStarts DEF MainInit
<1>2. BootInv /\ [MainNext]_mainVars => BootInv'
  BY BootStep
<1>3. BootInv => Unchained
  BY DEF BootInv
<1> QED
  BY <1>1, <1>2, <1>3, PTL DEF MainSpec

-----------------------------------------------------------------------------
(* Removal *)

\* While a callback walks, every bound device is in its hand or still to come.
Walking ==
  /\ NoKey \notin iter
  /\ dev_if = NoKey => iter = {}
  /\ cb # "idle" => bound \subseteq iter \cup ({dev_if} \ {NoKey})

\* No step but those of the walk touches the device in hand, and none but those
\* binds or unbinds while a callback runs.
LEMMA WalkCases ==
  ASSUME HomeNext
  PROVE  \/ UNCHANGED <<cb, dev_if, iter>> /\ (bound' = bound \/ cb = "idle")
         \/ \E how \in {"removing", "resetting"} : GatewayGone(how)
         \/ \E ok \in BOOLEAN : UnbindNext(ok)
         \/ UnbindEnds \/ Restart
<1> DEFINE Same == UNCHANGED <<cb, dev_if, iter>> /\ (bound' = bound \/ cb = "idle")
<1>1. ASSUME BootNext /\ UNCHANGED runVars PROVE Same
  BY <1>1
<1>2. ASSUME NEW a \in {"cloud", "inputs"}, Start(a) PROVE Same
  BY <1>2 DEF Start
<1>3. ASSUME NEW on \in BOOLEAN, _gw_online_status_changed_cb(on) PROVE Same
  BY <1>3 DEF _gw_online_status_changed_cb
<1>4. ASSUME NEW fail \in SUBSET Bindable, _misc_dev_add_cb(fail) PROVE Same
  BY <1>4 DEF _misc_dev_add_cb
<1>5. ASSUME NEW d \in pending, BindFails(d) \/ _misc_dev_bind_ifm_cb(d) PROVE Same
  BY <1>5 DEF BindFails, _misc_dev_bind_ifm_cb, Callback
<1>6. ASSUME NEW d \in bound, NEW fail \in SUBSET bound, _misc_dev_del_cb(d, fail) PROVE Same
  BY <1>6 DEF _misc_dev_del_cb, Callback
<1>7. ASSUME GatewayRegistered \/ ReportPosThread \/ ReportPosEnd PROVE Same
  BY <1>7 DEF GatewayRegistered, ReportPosThread, ReportPosEnd
<1>8. ASSUME NEW d \in bound, NEW ok \in BOOLEAN, ReportPosNext(d, ok) PROVE Same
  BY <1>8 DEF ReportPosNext
<1>9. ASSUME NEW ok \in BOOLEAN, ReportBindPosThread(ok) PROVE Same
  BY <1>9 DEF ReportBindPosThread
<1>10. ASSUME KeyHeld \/ KeyReleasedLong \/ KeyReleased PROVE Same
  BY <1>10 DEF KeyHeld, KeyReleasedLong, KeyReleased
<1>11. ASSUME NEW v \in {0, 1}, NEW ok \in BOOLEAN, di_scan(v, ok) PROVE Same
  BY <1>11 DEF di_scan
<1> HIDE DEF Same
<1>12. \/ Same
       \/ \E how \in {"removing", "resetting"} : GatewayGone(how)
       \/ \E ok \in BOOLEAN : UnbindNext(ok)
       \/ UnbindEnds \/ Restart
  BY <1>1, <1>2, <1>3, <1>4, <1>5, <1>6, <1>7, <1>8, <1>9, <1>10, <1>11 DEF HomeNext
<1> QED
  BY <1>12 DEF Same

\* No device of a document is NULL.
LEMMA KeysAreKeys == ASSUME doc \in Documents PROVE NoKey \notin Bindable
<1>1. NoKey \notin AllKeys(doc) /\ NoKey \notin Range(doc.di)
  BY DocumentsAssumption
<1>2. KnxOf(doc) \subseteq AllKeys(doc) /\ MbusOf(doc) \subseteq AllKeys(doc)
  BY DEF KnxOf, MbusOf, AllKeys, Entries
<1> QED
  BY <1>1, <1>2 DEF Bindable

LEMMA WalkStep ==
  Walking /\ PosInv /\ BootInv /\ [MainNext]_mainVars
    => Walking' /\ ((cb # "idle" /\ cb' = "idle" /\ stage' = "run") => bound' = {})
<1> DEFINE Clear == (cb # "idle" /\ cb' = "idle" /\ stage' = "run") => bound' = {}
<1> SUFFICES ASSUME Walking, PosInv, BootInv, [MainNext]_mainVars PROVE Walking' /\ Clear
  OBVIOUS
<1> USE DEF Walking
<1>1. NoKey \notin bound
  <2>1. CASE stage = "parse"
    BY <2>1 DEF PosInv, PosType
  <2>2. CASE stage # "parse"
    BY <2>2, KeysAreKeys DEF PosInv, PosType, BootInv, BootType
  <2> QED
    BY <2>1, <2>2
<1>2. ASSUME UNCHANGED <<cb, dev_if, iter>>, bound' = bound \/ cb = "idle" PROVE Walking' /\ Clear
  BY <1>2
<1>3. ASSUME NEW how \in {"removing", "resetting"}, GatewayGone(how) PROVE Walking' /\ Clear
  <2>1. bound' = bound /\ cb' # "idle" /\ Traverse(bound)
    BY <1>3 DEF GatewayGone
  <2>2. CASE bound = {}
    BY <2>1, <2>2 DEF Traverse
  <2>3. CASE bound # {}
    <3>1. PICK d \in bound : dev_if' = d /\ iter' = bound \ {d}
      BY <2>1, <2>3 DEF Traverse
    <3> QED
      BY <1>1, <2>1, <3>1
  <2> QED
    BY <2>2, <2>3
<1>4. ASSUME NEW ok \in BOOLEAN, UnbindNext(ok) PROVE Walking' /\ Clear
  <2>1. CASE ~ok
    BY <1>4, <2>1 DEF UnbindNext
  <2>2. CASE ok
    <3>1. cb' = cb /\ cb # "idle" /\ bound' = bound \ {dev_if} /\ Traverse(iter)
      BY <1>4, <2>2 DEF UnbindNext, Forget
    <3>2. bound' \subseteq iter
      BY <3>1
    <3>3. CASE iter = {}
      BY <3>1, <3>2, <3>3 DEF Traverse
    <3>4. CASE iter # {}
      <4>1. PICK d \in iter : dev_if' = d /\ iter' = iter \ {d}
        BY <3>1, <3>4 DEF Traverse
      <4> QED
        BY <3>1, <3>2, <4>1
    <3> QED
      BY <3>3, <3>4
  <2> QED
    BY <2>1, <2>2
<1>5. ASSUME UnbindEnds PROVE Walking' /\ Clear
  BY <1>5 DEF UnbindEnds
<1>6. ASSUME Restart PROVE Walking' /\ Clear
  BY <1>6 DEF Restart
<1>7. ASSUME UNCHANGED homeVars \/ UNCHANGED runVars PROVE Walking' /\ Clear
  BY <1>7, <1>2
<1> HIDE DEF Walking, Clear
<1> QED
  BY <1>2, <1>3, <1>4, <1>5, <1>6, <1>7, MainCases, WalkCases

\* When _gw_active_status_changed_cb or _gw_reset_cb has walked to its end, no
\* device is bound any more, for any number of devices and any refusals of the
\* library: a refused device stays in hand.
THEOREM RemovalIsComplete == MainSpec => RemovalClears
<1> DEFINE A == (cb # "idle" /\ cb' = "idle" /\ stage' = "run") => bound' = {}
<1>1. MainInit => Walking /\ PosInv /\ BootInv
  BY PosInit, BootStarts DEF MainInit, HomeInit, Walking
<1>2. Walking /\ PosInv /\ BootInv /\ [MainNext]_mainVars => (Walking /\ PosInv /\ BootInv)' /\ [A]_homeVars
  BY WalkStep, PosStep, BootStep
<1>3. RemovalClears <=> [][A]_homeVars
  BY DEF RemovalClears
<1> QED
  BY <1>1, <1>2, <1>3, PTL DEF MainSpec

\* The protocol of a device, by which _misc_dev_del_cb chooses the function that
\* unbinds it, leads to the list it is on.
LEMMA UnbindsEveryKind ==
  ASSUME doc \in Documents, NEW d \in Bindable
  PROVE  d \in UnbindsOf(d.type)
<1>1. CASE d \in KnxOf(doc)
  <2>1. PICK i \in DOMAIN doc.knx : d = doc.knx[i].key
    BY <1>1 DEF KnxOf, Range
  <2>2. d.type = "knx"
    BY <2>1, DocumentsAssumption DEF KeysDiffer
  <2> QED
    BY <2>1, <2>2 DEF UnbindsOf, Range
<1>2. CASE d \in MbusOf(doc)
  <2>1. PICK i \in DOMAIN doc.mbus : d = doc.mbus[i].key /\ doc.mbus[i].master
    BY <1>2 DEF MbusOf, Range
  <2>2. d.type = "mbus"
    BY <2>1, DocumentsAssumption DEF KeysDiffer
  <2>3. doc.mbus[i] \in {x \in Range(doc.mbus) : x.master}
    BY <2>1 DEF Range
  <2> QED
    BY <2>1, <2>2, <2>3 DEF UnbindsOf
<1>3. CASE d \in Range(doc.di)
  <2>1. d.type = "dio"
    BY <1>3, DocumentsAssumption DEF Range
  <2> QED
    BY <1>3, <2>1 DEF UnbindsOf
<1> QED
  BY <1>1, <1>2, <1>3 DEF Bindable

\* What the app deletes is gone: when _misc_dev_del_cb returns, the device is
\* unbound, unless the library refused.
DeletedIsGone(d, fail) ==
  _misc_dev_del_cb(d, fail) /\ d \notin fail => d \notin bound'

\* No device is bound that the callback for a deletion would not find in one of the
\* lists: Modbus devices of a group, KNX slaves and inputs included.
THEOREM DeletionUnbinds ==
  MainSpec => [][\A d \in bound : \A fail \in SUBSET bound : DeletedIsGone(d, fail)]_mainVars
<1>1. MainInit => PosInv /\ BootInv
  BY PosInit, BootStarts DEF MainInit
<1>2. PosInv /\ BootInv /\ [MainNext]_mainVars => (PosInv /\ BootInv)'
  BY PosStep, BootStep
<1>3. PosInv /\ BootInv => \A d \in bound : \A fail \in SUBSET bound : DeletedIsGone(d, fail)
  <2> SUFFICES ASSUME PosInv, BootInv, NEW d \in bound, NEW fail \in SUBSET bound,
                      _misc_dev_del_cb(d, fail), d \notin fail
               PROVE  d \notin bound'
    BY DEF DeletedIsGone
  <2>1. doc \in Documents /\ d \in Bindable
    BY DEF _misc_dev_del_cb, Callback, BootInv, BootType, PosInv, PosType
  <2>2. d \in UnbindsOf(d.type)
    BY <2>1, UnbindsEveryKind
  <2> QED
    BY <2>2 DEF _misc_dev_del_cb, Forget
<1> QED
  BY <1>1, <1>2, <1>3, PTL DEF MainSpec
=============================================================================
