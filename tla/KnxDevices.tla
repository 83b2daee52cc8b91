----------------------------- MODULE KnxDevices -----------------------------
(***************************************************************************)
(* The list of KNX devices between the cloud, the bus and the Modbus side: *)
(* the report functions that KNX_DevMonitorEntry calls for a telegram, the *)
(* control functions that KNX_DevWriteEntry calls for a command, the reads *)
(* by which the gateway asks for the state (KNX_DevStateSync,              *)
(* Knx_RequestHB, KNX_DevHealth), all of source/knxHandle.c, and the       *)
(* binding of the devices and the command callback of source/main.c.       *)
(*                                                                         *)
(*   bus --monitorQ--> Knx_*Report --> cloud (masters), Modbus (others)    *)
(*   cloud --callback, writeQ--> Knx_*Ctrl --> bus                         *)
(*   heartbeat --hbQ--> KNX_DevHealth --read--> bus                        *)
(*                                                                         *)
(* A telegram of a group reaches monitorQ in the order of the bus (module  *)
(* KnxMonitor); what ModbusDevWrite does with a value is module VentSync's.*)
(* A master is an actuator and the others are controllers.  The values a   *)
(* plugin converts stay abstract, and left out are the stop of a curtain,  *)
(* the brightness of dimmers, scenes, write-only points, the points of a   *)
(* controller that are only shown (room temperature, error code) and the   *)
(* heartbeat timers of the cloud library.                                  *)
(***************************************************************************)
EXTENDS Naturals, Sequences

CONSTANTS
  DevList,    \* pKnxDevList
  Kind,       \* the kind of each device
  Master,     \* the devices with element.bMaster
  Points,     \* the status points of each device; a point is a group address
  OnlineCheck,\* the devices with bOnlineCheck
  HB_IGNORE,  \* 5: heartbeats Knx_RequestHB lets pass
  SYNC_FIRST, \* 2: heartbeats that ask for the state of all devices
  QueueMax,   \* 200: the limit of the queues of telegrams and commands
  HbQueueMax, \* 200: the limit of the queue of reads
  MaxCommands,\* bound: commands of the cloud
  MaxInputs,  \* bound: presses, bindings, restarts and losses of the network
  None        \* no value, no command

Devices == {DevList[i] : i \in DOMAIN DevList}
PointsOf(d) == {Points[d][i] : i \in DOMAIN Points[d]}
AllPoints == UNION {PointsOf(d) : d \in Devices}
Owner(p) == CHOOSE d \in Devices : p \in PointsOf(d)
First(d) == Points[d][1]
Values == {0, 1}
Kinds == {"acd", "vent", "heat", "panel", "smart", "dimmer", "curtain"}
Smart == {d \in Devices : Kind[d] = "smart"}
Telegrams == [pt : AllPoints, val : Values]
Commands == [dev : Devices, pt : AllPoints \cup {"mode"}, val : Values]

ASSUME DevicesAssumption ==
  /\ Kind \in [Devices -> Kinds] /\ Master \subseteq Devices /\ OnlineCheck \subseteq Devices
  /\ \A i, j \in DOMAIN DevList : DevList[i] = DevList[j] => i = j
  /\ DevList \in Seq(Devices) /\ \A d \in Devices : Points[d] \in Seq(PointsOf(d)) /\ Points[d] # <<>>
  /\ \A d, e \in Devices : PointsOf(d) \cap PointsOf(e) # {} => d = e
  /\ "mode" \notin AllPoints /\ None \notin Commands
  /\ HB_IGNORE \in Nat /\ SYNC_FIRST \in Nat /\ QueueMax \in Nat \ {0} /\ HbQueueMax \in Nat
  /\ MaxCommands \in Nat /\ MaxInputs \in Nat

VARIABLES
  bActive,   \* g_bActive: the cloud is connected
  bound,     \* the devices the cloud library knows
  bus,       \* the state of each point on the bus
  cloud,     \* what the cloud shows of the points of a master
  mbus,      \* what a controller last had the Modbus device do
  mode,      \* chl[i].mode of a smart panel: 0 switch, 1 scene
  saved,     \* the mode in the configuration file
  monitorQ, writeQ, hbQ,
  writing,   \* the command KNX_DevWriteEntry is about to send
  hbCount,   \* cnt of _misc_dev_hb_cb
  hbIgnore,  \* pKnx->hbIgnore
  sync,      \* where the jobs KNX_DevStateSync are in the list, 0 for nowhere
  inputs,    \* how many commands and other inputs there were
  dropped,   \* the points whose newest telegram did not enter monitorQ, or was lost in it
  excused,   \* the points whose last telegram the cloud did not take, because
             \* gateway or device was not connected or the report failed, and
             \* those whose command was not carried out
  shadowed   \* the points whose last telegram an unbound device kept away

vars == <<bActive, bound, bus, cloud, mbus, mode, saved, monitorQ, writeQ, hbQ, writing,
          hbCount, hbIgnore, sync, inputs, dropped, excused, shadowed>>
heartbeat == <<hbCount, hbIgnore, sync>>
shown == <<cloud, mbus>>
panels == <<mode, saved>>
reasons == <<excused, shadowed>>

\* The gateway starts with the bindings the cloud library has stored, which
\* need not be those of the present configuration.
Init ==
  /\ bActive = FALSE /\ bound \in SUBSET Master
  /\ bus = [p \in AllPoints |-> 0]
  /\ cloud = [p \in AllPoints |-> None] /\ mbus = [p \in AllPoints |-> None]
  /\ saved \in [Smart -> Values] /\ mode = saved
  /\ monitorQ = <<>> /\ writeQ = <<>> /\ hbQ = <<>> /\ writing = None
  /\ hbCount = 0 /\ hbIgnore = [d \in Devices |-> 0] /\ sync = [j \in 1..SYNC_FIRST |-> 0]
  /\ inputs = [commands |-> 0, others |-> 0]
  /\ dropped = {} /\ excused = AllPoints /\ shadowed = {}

Input == inputs.others < MaxInputs /\ inputs' = [inputs EXCEPT !.others = @ + 1]
CommandInput == inputs.commands < MaxCommands /\ inputs' = [inputs EXCEPT !.commands = @ + 1]
Put(q, x) == IF Len(q) < QueueMax THEN Append(q, x) ELSE q

\* A telegram appears on the bus.  Either the bus monitor puts it into the
\* queue, which may refuse it, or eibd is not reachable.
Telegram(p, v) ==
  \/ /\ monitorQ' = Put(monitorQ, [pt |-> p, val |-> v])
     /\ dropped' = IF Len(monitorQ) < QueueMax THEN dropped \ {p} ELSE dropped \cup {p}
  \/ monitorQ' = monitorQ /\ dropped' = dropped \cup {p}

\* tuya_user_iot_report_obj_dp: the cloud takes the value, or does not.
ReportObjDp(p, v) ==
  \/ Owner(p) \in bound /\ cloud' = [cloud EXCEPT ![p] = v]
  \/ UNCHANGED cloud

\* Up and down of the bus as open (0) and close (2) of the cloud
OpenClose(v) == IF v = 0 THEN 2 ELSE 0
CloudValue(d, v) == IF Kind[d] = "curtain" THEN OpenClose(v) ELSE v
\* Knx_PanelReport makes the same of off and on, for a Modbus curtain.
ForModbus(d, v) == IF Kind[d] \in {"panel", "curtain"} THEN OpenClose(v) ELSE v

-----------------------------------------------------------------------------
(* The cloud *)

\* _gw_online_status_changed_cb: the connection comes and, MaxInputs times, goes.
OnlineStatusChanged ==
  /\ IF bActive THEN Input ELSE UNCHANGED inputs
  /\ bActive' = ~bActive
  /\ UNCHANGED <<bound, bus, shown, panels, monitorQ, writeQ, hbQ, writing, heartbeat, dropped, reasons>>

\* Knx_DevBind: every master that is not bound, and each may fail
Knx_DevBind ==
  /\ Input
  /\ \E new \in SUBSET (Master \ bound) : bound' = bound \cup new
  /\ UNCHANGED <<bActive, bus, shown, panels, monitorQ, writeQ, hbQ, writing, heartbeat, dropped, reasons>>

\* Knx_DevUnbind: all devices, whichever one the cloud names; each may fail.
\* The cloud forgets what it showed.
Knx_DevUnbind ==
  /\ Input
  /\ \E gone \in SUBSET bound \ {{}} :
       LET points == UNION {PointsOf(d) : d \in gone} IN
       /\ bound' = bound \ gone
       /\ cloud' = [p \in AllPoints |-> IF p \in points THEN None ELSE cloud[p]]
       /\ excused' = excused \cup points
  /\ UNCHANGED <<bActive, bus, mbus, panels, monitorQ, writeQ, hbQ, writing, heartbeat, dropped, shadowed>>

\* _dev_obj_cmd_cb: the value goes back to the cloud at once and into the
\* queue; KnxGroupWrite refuses it when the queue is full.
Command(d, p, v) ==
  /\ CommandInput /\ d \in bound
  /\ ReportObjDp(p, CloudValue(d, v))
  /\ writeQ' = Put(writeQ, [dev |-> d, pt |-> p, val |-> v])
  /\ excused' = IF Len(writeQ) < QueueMax THEN excused ELSE excused \cup {p}
  /\ UNCHANGED <<bActive, bound, bus, mbus, panels, monitorQ, hbQ, writing, heartbeat, dropped, shadowed>>

\* ... and the same for the point that chooses what a key of a smart panel does
ModeCommand(d, v) ==
  /\ CommandInput /\ d \in bound \cap Smart
  /\ writeQ' = Put(writeQ, [dev |-> d, pt |-> "mode", val |-> v])
  /\ UNCHANGED <<bActive, bound, bus, shown, panels, monitorQ, hbQ, writing, heartbeat, dropped, reasons>>

-----------------------------------------------------------------------------
(* KNX_DevWriteEntry and the control functions *)

\* Only the function of the device's kind finds it in the list.  Those of
\* the first three kinds report the value before they send it.
ReportThenSend(c) ==
  /\ IF bActive /\ c.dev \in Master THEN ReportObjDp(c.pt, c.val) ELSE UNCHANGED cloud
  /\ writing' = c /\ UNCHANGED <<panels, excused>>
JustSend(c) == writing' = c /\ UNCHANGED <<cloud, panels, excused>>

Knx_AirconditionCtrl(c) == Kind[c.dev] = "acd" /\ ReportThenSend(c)
Knx_VentilationCtrl(c) == Kind[c.dev] = "vent" /\ ReportThenSend(c)
Knx_FloorHeatingCtrl(c) == Kind[c.dev] = "heat" /\ ReportThenSend(c)
Knx_PanelCtrl(c) == Kind[c.dev] = "panel" /\ JustSend(c)
Knx_DimmerCtrl(c) == Kind[c.dev] = "dimmer" /\ JustSend(c)

\* The mode is written to the file, if that can be read, changed and saved:
\* nobody looks at the result.
UpdateKnxSmartPanelMode(d, v) == saved' = [saved EXCEPT ![d] = v] \/ UNCHANGED saved

\* The key of a smart panel that is set to call a scene is not sent, although
\* _dev_obj_cmd_cb has told the cloud.
Knx_SmartPanelCtrl(c) ==
  /\ Kind[c.dev] = "smart"
  /\ \/ /\ c.pt = "mode" /\ mode' = [mode EXCEPT ![c.dev] = c.val]
        /\ UpdateKnxSmartPanelMode(c.dev, c.val)
        /\ UNCHANGED <<cloud, writing, excused>>
     \/ /\ c.pt # "mode" /\ mode[c.dev] = 1
        /\ excused' = excused \cup {c.pt} /\ UNCHANGED <<cloud, writing, panels>>
     \/ c.pt # "mode" /\ mode[c.dev] = 0 /\ JustSend(c)

\* pCtrl shares its memory with pGroup (KnxPoints_t), so the telegram goes to
\* the curtain's own group; but open is sent as 0 and close as 1, and the
\* configuration and Knx_CurtainReport take 1 for open.
Knx_CurtainCtrl(c) == Kind[c.dev] = "curtain" /\ JustSend([c EXCEPT !.val = 1 - @])

KNX_DevWriteEntry ==
  /\ writing = None /\ writeQ # <<>> /\ writeQ' = Tail(writeQ)
  /\ LET c == Head(writeQ) IN
       \/ Knx_AirconditionCtrl(c) \/ Knx_VentilationCtrl(c) \/ Knx_FloorHeatingCtrl(c)
       \/ Knx_PanelCtrl(c) \/ Knx_SmartPanelCtrl(c) \/ Knx_DimmerCtrl(c)
       \/ Knx_CurtainCtrl(c)
  /\ UNCHANGED <<bActive, bound, bus, mbus, monitorQ, hbQ, heartbeat, inputs, dropped, shadowed>>

\* EIBSendAPDU: the actuator obeys and shows its new state on the bus; or
\* one of the calls to eibd fails, and nothing tries again.
Send ==
  /\ writing # None /\ writing' = None
  /\ \/ /\ bus' = [bus EXCEPT ![writing.pt] = writing.val]
        /\ Telegram(writing.pt, writing.val)
        /\ UNCHANGED excused
     \/ excused' = excused \cup {writing.pt} /\ UNCHANGED <<bus, monitorQ, dropped>>
  /\ UNCHANGED <<bActive, bound, shown, panels, writeQ, hbQ, heartbeat, inputs, shadowed>>

-----------------------------------------------------------------------------
(* KNX_DevMonitorEntry and the report functions *)

Unbound(d) == d \in Master /\ d \notin bound
Index(d) == CHOOSE i \in DOMAIN DevList : DevList[i] = d

\* What becomes of a telegram for device d in a function that leaves its loop
\* at an unbound master among `tested', and does `other' for a controller
Fate(d, tested, other) ==
  IF \E e \in tested : Unbound(e) /\ Index(e) < Index(d) THEN "shadowed"
  ELSE IF d \notin Master THEN other
  ELSE IF d \in bound /\ bActive THEN "cloud" ELSE "excused"

OfKind(kind) == {d \in Devices : Kind[d] = kind}

\* Two functions test the kind first, three the binding first, Knx_VentReport
\* goes on to the next device and Knx_CurtainReport does not test the binding.  (Knx_SmartPanelReport also
\* reports a controller, which the cloud does not know.)
Knx_AcdReport(d) == Fate(d, OfKind("acd"), "mbus")
Knx_VentReport(d) == Fate(d, {}, "mbus")
Knx_HeatReport(d) == Fate(d, OfKind("heat"), "ignored")
Knx_PanelReport(d) == Fate(d, Devices, "mbus")
Knx_SmartPanelReport(d) == Fate(d, Devices, "ignored")
Knx_DimmerReport(d) == Fate(d, Devices, "ignored")
Knx_CurtainReport(d) == Fate(d, {}, "mbus")

FateOf(d) ==
  CASE Kind[d] = "acd" -> Knx_AcdReport(d)
    [] Kind[d] = "vent" -> Knx_VentReport(d)
    [] Kind[d] = "heat" -> Knx_HeatReport(d)
    [] Kind[d] = "panel" -> Knx_PanelReport(d)
    [] Kind[d] = "smart" -> Knx_SmartPanelReport(d)
    [] Kind[d] = "dimmer" -> Knx_DimmerReport(d)
    [] Kind[d] = "curtain" -> Knx_CurtainReport(d)

Restored(p) == excused' = excused \ {p} /\ shadowed' = shadowed \ {p}

\* The value is handed on ...
HandsOn(p, v) ==
  /\ Restored(p)
  /\ \/ /\ FateOf(Owner(p)) = "cloud" /\ cloud' = [cloud EXCEPT ![p] = CloudValue(Owner(p), v)] /\ UNCHANGED mbus
     \/ /\ FateOf(Owner(p)) = "mbus" /\ mbus' = [mbus EXCEPT ![p] = ForModbus(Owner(p), v)]
        /\ UNCHANGED cloud

\* ... or not: the cloud may also refuse the report.
Withholds(p) ==
  /\ UNCHANGED shown
  /\ \/ FateOf(Owner(p)) \in {"cloud", "excused"} /\ excused' = excused \cup {p} /\ shadowed' = shadowed \ {p}
     \/ FateOf(Owner(p)) = "shadowed" /\ shadowed' = shadowed \cup {p} /\ excused' = excused \ {p}
     \/ FateOf(Owner(p)) = "ignored" /\ UNCHANGED reasons

\* (fault) the monitor is given the newest telegram first
ReportedNewest(p) ==
  /\ monitorQ # <<>> /\ monitorQ[Len(monitorQ)].pt = p
  /\ monitorQ' = SubSeq(monitorQ, 1, Len(monitorQ) - 1)
  /\ HandsOn(p, monitorQ[Len(monitorQ)].val)
  /\ UNCHANGED <<bActive, bound, bus, panels, writeQ, hbQ, writing, heartbeat, inputs, dropped>>

Reported(p) ==
  /\ monitorQ # <<>> /\ Head(monitorQ).pt = p /\ monitorQ' = Tail(monitorQ)
  /\ HandsOn(p, Head(monitorQ).val)
  /\ UNCHANGED <<bActive, bound, bus, panels, writeQ, hbQ, writing, heartbeat, inputs, dropped>>

NotReported(p) ==
  /\ monitorQ # <<>> /\ Head(monitorQ).pt = p /\ monitorQ' = Tail(monitorQ)
  /\ Withholds(p)
  /\ UNCHANGED <<bActive, bound, bus, panels, writeQ, hbQ, writing, heartbeat, inputs, dropped>>

\* Somebody operates a device on the bus.
Press(p, v) ==
  /\ Input /\ bus' = [bus EXCEPT ![p] = v] /\ Telegram(p, v)
  /\ UNCHANGED <<bActive, bound, shown, panels, writeQ, hbQ, writing, heartbeat, reasons>>

-----------------------------------------------------------------------------
(* Asking for the state *)

\* The point Knx_RequestHB reads: the switch or the first key; of a dimmer it
\* is the brightness.
Asked(d) == IF Kind[d] = "dimmer" THEN <<>> ELSE <<First(d)>>
Room == HbQueueMax - Len(hbQ)
PutAll(s) == hbQ \o SubSeq(s, 1, IF Len(s) < Room THEN Len(s) ELSE Room)

\* _misc_dev_hb_cb: the first heartbeats start a job that asks for everything.
SyncDevStatus(d) ==
  /\ d \in bound /\ hbCount < SYNC_FIRST
  /\ hbCount' = hbCount + 1 /\ sync' = [sync EXCEPT ![hbCount + 1] = 1]
  /\ UNCHANGED <<bActive, bound, bus, shown, panels, monitorQ, writeQ, hbQ, writing, hbIgnore,
                 inputs, dropped, reasons>>

\* One device of KNX_DevStateSync; a full queue refuses what does not fit.
KNX_DevStateSync(j) ==
  /\ sync[j] # 0
  /\ LET d == DevList[sync[j]] IN
       hbQ' = IF d \in Master THEN PutAll(Points[d]) ELSE hbQ
  /\ sync' = [sync EXCEPT ![j] = IF @ = Len(DevList) THEN 0 ELSE @ + 1]
  /\ UNCHANGED <<bActive, bound, bus, shown, panels, monitorQ, writeQ, writing, hbCount, hbIgnore,
                 inputs, dropped, reasons>>

\* (fault) the counter is reset on the way out of every call
RequestHBReset(d) ==
  /\ d \in bound \cap OnlineCheck /\ hbCount = SYNC_FIRST
  /\ hbIgnore' = [hbIgnore EXCEPT ![d] = 0]
  /\ hbQ' = IF hbIgnore[d] < HB_IGNORE THEN hbQ ELSE PutAll(Asked(d))
  /\ UNCHANGED <<bActive, bound, bus, shown, panels, monitorQ, writeQ, writing, hbCount, sync,
                 inputs, dropped, reasons>>

\* Later ones are for one device, and most are ignored.  (Without
\* bOnlineCheck the heartbeat is only acknowledged.)
Knx_RequestHB(d) ==
  /\ d \in bound \cap OnlineCheck /\ hbCount = SYNC_FIRST
  /\ hbIgnore' = [hbIgnore EXCEPT ![d] = IF @ < HB_IGNORE THEN @ + 1 ELSE 0]
  /\ hbQ' = IF hbIgnore[d] < HB_IGNORE THEN hbQ ELSE PutAll(Asked(d))
  /\ UNCHANGED <<bActive, bound, bus, shown, panels, monitorQ, writeQ, writing, hbCount, sync,
                 inputs, dropped, reasons>>

\* KNX_DevHealth: KnxGroupRead, and the device answers with its state ...
HealthAnswered(p) ==
  /\ hbQ # <<>> /\ Head(hbQ) = p /\ hbQ' = Tail(hbQ)
  /\ Len(monitorQ) < QueueMax /\ monitorQ' = Append(monitorQ, [pt |-> p, val |-> bus[p]])
  /\ dropped' = dropped \ {p}
  /\ UNCHANGED <<bActive, bound, bus, shown, panels, writeQ, writing, heartbeat, inputs, reasons>>

\* ... or the read, the answer or the queue fails.
HealthFails ==
  /\ hbQ # <<>> /\ hbQ' = Tail(hbQ)
  /\ UNCHANGED <<bActive, bound, bus, shown, panels, monitorQ, writeQ, writing, heartbeat,
                 inputs, dropped, reasons>>

\* The gateway stops at any point (_gw_reboot_cb, a signal, a loss of power) and
\* starts again: the queues and what was in hand are gone, the modes come from
\* the file, and the cloud library has kept the bindings.
Restart ==
  /\ Input /\ bActive' = FALSE /\ mode' = saved
  /\ monitorQ' = <<>> /\ writeQ' = <<>> /\ hbQ' = <<>> /\ writing' = None
  /\ hbCount' = 0 /\ hbIgnore' = [d \in Devices |-> 0] /\ sync' = [j \in 1..SYNC_FIRST |-> 0]
  /\ dropped' = dropped \cup {monitorQ[i].pt : i \in DOMAIN monitorQ}
  /\ excused' = excused \cup ({writeQ[i].pt : i \in DOMAIN writeQ} \cap AllPoints)
                       \cup (IF writing = None THEN {} ELSE {writing.pt})
  /\ UNCHANGED <<bound, bus, shown, saved, shadowed>>

-----------------------------------------------------------------------------
DevWriteStep == KNX_DevWriteEntry \/ Send
MonitorStep == \E p \in AllPoints : Reported(p) \/ NotReported(p)
HealthStep == HealthFails \/ \E p \in AllPoints : HealthAnswered(p)
Heartbeat(d) == SyncDevStatus(d) \/ Knx_RequestHB(d)

Next ==
  \/ OnlineStatusChanged \/ Knx_DevBind \/ Knx_DevUnbind \/ Restart
  \/ \E d \in Devices, v \in Values : ModeCommand(d, v) \/ \E p \in PointsOf(d) : Command(d, p, v)
  \/ \E p \in AllPoints, v \in Values : Press(p, v)
  \/ DevWriteStep \/ MonitorStep \/ HealthStep
  \/ \E d \in Devices : Heartbeat(d)
  \/ \E j \in 1..SYNC_FIRST : KNX_DevStateSync(j)

Spec == Init /\ [][Next]_vars

\* The devices whose state the heartbeats ask for
Watched == (OnlineCheck \cap Master) \ OfKind("dimmer")

\* The threads and the job run, and the cloud library asks for the heartbeat
\* of a bound device again and again.  Of the requests, the reads and the
\* reports of a watched device, repeated for ever, not all fail.
Fairness ==
  /\ WF_vars(DevWriteStep) /\ WF_vars(MonitorStep) /\ WF_vars(HealthStep)
  /\ WF_vars(\E j \in 1..SYNC_FIRST : KNX_DevStateSync(j))
  /\ \A d \in Watched : /\ WF_vars(Heartbeat(d)) /\ SF_vars(Knx_RequestHB(d) /\ hbQ' # hbQ)
                        /\ SF_vars(HealthAnswered(First(d))) /\ SF_vars(Reported(First(d)))
FairSpec == Spec /\ Fairness

-----------------------------------------------------------------------------
(* Properties *)

TypeOK ==
  /\ bActive \in BOOLEAN /\ bound \subseteq Master
  /\ bus \in [AllPoints -> Values] /\ cloud \in [AllPoints -> {0, 1, 2, None}]
  /\ mbus \in [AllPoints -> {0, 1, 2, None}] /\ panels \in [Smart -> Values] \X [Smart -> Values]
  /\ monitorQ \in Seq(Telegrams) /\ writeQ \in Seq(Commands) /\ hbQ \in Seq(AllPoints)
  /\ Len(monitorQ) <= QueueMax /\ Len(writeQ) <= QueueMax /\ Len(hbQ) <= HbQueueMax
  /\ writing \in Commands \cup {None}
  /\ hbCount \in 0..SYNC_FIRST /\ hbIgnore \in [Devices -> 0..HB_IGNORE]
  /\ sync \in [1..SYNC_FIRST -> 0..Len(DevList)]
  /\ inputs \in [commands : 0..MaxCommands, others : 0..MaxInputs]
  /\ dropped \subseteq AllPoints /\ excused \subseteq AllPoints /\ shadowed \subseteq AllPoints

AtRest == monitorQ = <<>> /\ writeQ = <<>> /\ writing = None

\* The cloud shows the state of a master's point; a controller's point was
\* obeyed by the Modbus device.
Synced(p) ==
  LET d == Owner(p) IN
  IF d \in Master THEN cloud[p] = CloudValue(d, bus[p])
  ELSE FateOf(d) # "ignored" => mbus[p] = ForModbus(d, bus[p])

\* Whenever no telegram and no command is under way, every point whose last
\* report or command did not fail for a reason, and was not kept away by an
\* unbound device earlier in the list, is in step with the bus: although the
\* callback tells the cloud of a command before it is carried out, and
\* although commands, presses and answers to reads overlap.
AtRestSynced == AtRest => \A p \in AllPoints \ (dropped \cup excused \cup shadowed) : Synced(p)

\* Whatever was lost, the heartbeats bring the first point of a bound device
\* with online check back into step with the bus once the presses and the
\* commands end, if no unbound device keeps its reports away.
HeartbeatRepairs ==
  \A d \in Watched :
    <>[](FateOf(d) = "cloud") => <>[](cloud[First(d)] = CloudValue(d, bus[First(d)]))
=============================================================================
