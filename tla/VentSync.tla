------------------------------ MODULE VentSync ------------------------------
(***************************************************************************)
(* One point (the switch, say) of a Modbus device that is the master of a  *)
(* KNX panel: ventilation, air conditioner or floor heating.  Three places *)
(* show its state, the device itself, the panel and the cloud, and two of  *)
(* them command it.  The code is spread over source/modbusHandle.c         *)
(* (ModbusDevWrite, the polls, ModbusDevMonitor) and source/knxHandle.c    *)
(* (Knx_VentReport, KnxGroupWrite, KNX_DevWriteEntry).                     *)
(*                                                                         *)
(*   cloud ---callback---> ModbusDevWrite --frame--> device                *)
(*   panel --kq--> Knx_VentReport --> ModbusDevWrite                       *)
(*   device --reply--> rq --> ModbusDevMonitor --> cloud, and --wq--> panel*)
(*                                                                         *)
(* A session on the serial port is one step: SerialBus shows that sessions *)
(* exclude each other, and a reply is in rq before the port is released.   *)
(* Every transmission may fail.  Telegrams the gateway sends itself are    *)
(* dropped by KNX_ParsePacket and do not come back.                        *)
(***************************************************************************)
EXTENDS Naturals, Sequences

CONSTANTS
  Values,              \* what the point may be
  Zero,                \* the value of memory that calloc cleared
  MBUS_FORCE_SYNC_NUM, \* 3 in the code
  QueueMax,            \* the limit of the three queues (100 and 200)
  MaxCommands,         \* bound: commands of the cloud
  MaxPresses,          \* bound: operations at the panel
  None                 \* the cloud has no value yet

ASSUME SyncAssumption ==
  /\ Zero \in Values /\ None \notin Values
  /\ MBUS_FORCE_SYNC_NUM \in Nat /\ QueueMax \in Nat \ {0}
  /\ MaxCommands \in Nat /\ MaxPresses \in Nat

VARIABLES
  bFeedback, \* the device answers
  device, panel, cloud, \* the value at each place
  valueOld,  \* the value ModbusDevMonitor forwarded last
  forceSync, \* how many equal values it withheld since
  rq,        \* pMonitorQueue of modbusHandle.c: values of the device
  wq,        \* pWriteQueue: values for the panel
  kq,        \* pMonitorQueue of knxHandle.c: telegrams of the panel
  pc, arg,   \* the two threads that call ModbusDevWrite
  commands, presses, \* how many there were
  lost       \* something was lost, or not yet known after the start

vars == <<bFeedback, device, panel, cloud, valueOld, forceSync, rq, wq, kq,
          pc, arg, commands, presses, lost>>
filter == <<valueOld, forceSync>>
inputs == <<commands, presses>>

Writers == {"callback", "KNX_DevMonitorEntry"}

\* The gateway starts with cleared points; device and panel have a past.
Init ==
  /\ bFeedback \in BOOLEAN
  /\ device \in Values /\ panel \in Values /\ cloud \in Values \cup {None}
  /\ valueOld = Zero /\ forceSync = 0
  /\ rq = <<>> /\ wq = <<>> /\ kq = <<>>
  /\ pc = [w \in Writers |-> "idle"] /\ arg = [w \in Writers |-> Zero]
  /\ commands = 0 /\ presses = 0
  /\ lost = ~(panel = device /\ cloud = device /\ valueOld = device)

Put(q, v) == IF Len(q) < QueueMax THEN Append(q, v) ELSE q
Refuses(q) == Len(q) >= QueueMax

-----------------------------------------------------------------------------
(* Commands *)

\* The cloud library calls back with a command for the device: _dev_obj_cmd_cb
\* tells the cloud the value, if the cloud takes the report, and calls
\* ModbusDevWrite.
Command(v) ==
  /\ pc["callback"] = "idle" /\ commands < MaxCommands
  /\ commands' = commands + 1 /\ cloud' \in {cloud, v}
  /\ pc' = [pc EXCEPT !["callback"] = "session"] /\ arg' = [arg EXCEPT !["callback"] = v]
  /\ UNCHANGED <<bFeedback, device, panel, filter, rq, wq, kq, presses, lost>>

\* Somebody operates the panel; its telegram reaches the gateway, or eibd is down.
Press(v) ==
  /\ presses < MaxPresses /\ presses' = presses + 1
  /\ panel' = v
  /\ \/ kq' = Put(kq, v) /\ lost' = (lost \/ Refuses(kq))
     \/ kq' = kq /\ lost' = TRUE
  /\ UNCHANGED <<bFeedback, device, cloud, filter, rq, wq, pc, arg, commands>>

\* KNX_DevMonitorEntry: the panel is no master, so its status goes to the device.
Knx_VentReport ==
  /\ pc["KNX_DevMonitorEntry"] = "idle" /\ kq # <<>>
  /\ kq' = Tail(kq)
  /\ pc' = [pc EXCEPT !["KNX_DevMonitorEntry"] = "session"]
  /\ arg' = [arg EXCEPT !["KNX_DevMonitorEntry"] = Head(kq)]
  /\ UNCHANGED <<bFeedback, device, panel, cloud, filter, rq, wq, inputs, lost>>

\* ModbusDevWrite: the session.  The port does not open or the frame is lost;
\* or it arrives, and the reply of a device that answers is lost, or is
\* handed to ModbusDevMonitor.
ModbusDevWrite(w) ==
  /\ pc[w] = "session"
  /\ pc' = [pc EXCEPT ![w] = IF bFeedback THEN "idle" ELSE "KnxGroupWrite"]
  /\ \/ device' = device /\ rq' = rq /\ lost' = TRUE
     \/ device' = arg[w] /\ rq' = rq /\ lost' = (lost \/ bFeedback)
     \/ /\ bFeedback /\ device' = arg[w]
        /\ rq' = Put(rq, arg[w]) /\ lost' = (lost \/ Refuses(rq))
  /\ UNCHANGED <<bFeedback, panel, cloud, filter, wq, kq, arg, inputs>>

\* ModbusDevWrite for a device that does not answer: the value is taken as
\* the device's, although the session may have failed.
AssumeWritten(w) ==
  \/ /\ pc[w] = "KnxGroupWrite" /\ pc' = [pc EXCEPT ![w] = "report"]
     /\ wq' = Put(wq, arg[w]) /\ lost' = (lost \/ Refuses(wq))
     /\ UNCHANGED cloud
  \/ /\ pc[w] = "report" /\ pc' = [pc EXCEPT ![w] = "idle"]
     /\ \/ cloud' = arg[w] /\ lost' = lost
        \/ cloud' = cloud /\ lost' = TRUE
     /\ UNCHANGED wq

AssumeWrittenStep(w) ==
  /\ AssumeWritten(w)
  /\ UNCHANGED <<bFeedback, device, panel, filter, rq, kq, arg, inputs>>

-----------------------------------------------------------------------------
(* Reports *)

\* Mbus_SyncAllDevStatus and Modbus_DevHealth ask for the state.
PollAnswered ==
  /\ bFeedback /\ rq' = Put(rq, device) /\ lost' = (lost \/ Refuses(rq))
  /\ UNCHANGED <<bFeedback, device, panel, cloud, filter, wq, kq, pc, arg, inputs>>

\* ModbusDevMonitor: an equal value is withheld from the panel a few times.
Withheld(v) == valueOld = v /\ forceSync < MBUS_FORCE_SYNC_NUM

\* (fault) the line valueOld = value is missing
SyncPanelKeepOld(v) ==
  IF Withheld(v)
  THEN forceSync' = forceSync + 1 /\ UNCHANGED <<valueOld, wq>>
  ELSE forceSync' = 0 /\ wq' = Put(wq, v) /\ UNCHANGED valueOld

\* (fault) an equal value is never sent again
SyncPanelOnce(v) ==
  IF valueOld = v
  THEN UNCHANGED <<valueOld, forceSync, wq>>
  ELSE forceSync' = 0 /\ valueOld' = v /\ wq' = Put(wq, v)

SyncPanel(v) ==
  IF Withheld(v)
  THEN forceSync' = forceSync + 1 /\ UNCHANGED <<valueOld, wq>>
  ELSE forceSync' = 0 /\ valueOld' = v /\ wq' = Put(wq, v)

\* One turn of ModbusDevMonitor, with the report to the cloud that ends it
MonitorReports ==
  /\ rq # <<>> /\ rq' = Tail(rq)
  /\ SyncPanel(Head(rq)) /\ cloud' = Head(rq)
  /\ lost' = (lost \/ (~Withheld(Head(rq)) /\ Refuses(wq)))
  /\ UNCHANGED <<bFeedback, device, panel, kq, pc, arg, inputs>>

\* ... and one in which the cloud does not take the report
MonitorUnreported ==
  /\ rq # <<>> /\ rq' = Tail(rq)
  /\ SyncPanel(Head(rq)) /\ cloud' = cloud /\ lost' = TRUE
  /\ UNCHANGED <<bFeedback, device, panel, kq, pc, arg, inputs>>

\* KNX_DevWriteEntry and Knx_VentilationCtrl: EIBSendAPDU succeeds ...
Knx_VentilationCtrl ==
  /\ wq # <<>> /\ wq' = Tail(wq) /\ panel' = Head(wq)
  /\ UNCHANGED <<bFeedback, device, cloud, filter, rq, kq, pc, arg, inputs, lost>>

\* ... or one of the calls to eibd fails; nothing tries again.
SendFails ==
  /\ wq # <<>> /\ wq' = Tail(wq) /\ lost' = TRUE
  /\ UNCHANGED <<bFeedback, device, panel, cloud, filter, rq, kq, pc, arg, inputs>>

-----------------------------------------------------------------------------
WriterStep(w) == ModbusDevWrite(w) \/ AssumeWrittenStep(w)
MonitorStep == MonitorReports \/ MonitorUnreported
SendStep == Knx_VentilationCtrl \/ SendFails

Next ==
  \/ \E v \in Values : Command(v) \/ Press(v)
  \/ \E w \in Writers : WriterStep(w)
  \/ Knx_VentReport \/ PollAnswered \/ MonitorStep \/ SendStep

Spec == Init /\ [][Next]_vars

\* The threads run.  Of the polls, the reports to the cloud and the writes to
\* eibd, all repeated for ever, not all fail.
Fairness ==
  /\ \A w \in Writers : WF_vars(WriterStep(w))
  /\ WF_vars(Knx_VentReport) /\ WF_vars(MonitorStep) /\ WF_vars(SendStep)
  /\ SF_vars(PollAnswered) /\ SF_vars(MonitorReports) /\ SF_vars(Knx_VentilationCtrl)

FairSpec == Spec /\ Fairness

-----------------------------------------------------------------------------
(* Properties *)

QueueOK(q) == q \in Seq(Values) /\ Len(q) <= QueueMax

TypeOK ==
  /\ bFeedback \in BOOLEAN /\ lost \in BOOLEAN
  /\ device \in Values /\ panel \in Values /\ cloud \in Values \cup {None}
  /\ valueOld \in Values /\ forceSync \in 0..MBUS_FORCE_SYNC_NUM
  /\ QueueOK(rq) /\ QueueOK(wq) /\ QueueOK(kq)
  /\ pc \in [Writers -> {"idle", "session", "KnxGroupWrite", "report"}]
  /\ arg \in [Writers -> Values]
  /\ commands \in 0..MaxCommands /\ presses \in 0..MaxPresses

AtRest == rq = <<>> /\ wq = <<>> /\ kq = <<>> /\ \A w \in Writers : pc[w] = "idle"
Agree == panel = device /\ cloud = device

\* If nothing was lost, then whenever no command or report is under way the
\* panel and the cloud show the state of a device that answers, in whatever
\* order cloud and panel commanded it, although the callback tells the cloud
\* the value before the device has it and although ModbusDevMonitor withholds
\* values it takes for repetitions.
AtRestAgree == bFeedback /\ ~lost /\ AtRest => Agree

\* Whatever was lost, once the commands end the panel and the cloud come to
\* show the state of a device that answers, and stay so: forceSync repeats
\* the value to the panel.
Converges == bFeedback => <>[]Agree
=============================================================================
