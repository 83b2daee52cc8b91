--------------------------- MODULE VentSyncProofs ---------------------------
(***************************************************************************)
(* For any set of values, any queue limits, any number of commands and any *)
(* MBUS_FORCE_SYNC_NUM: without a loss, device, panel and cloud agree at   *)
(* rest.                                                                   *)
(*                                                                         *)
(* AtRestAgree says nothing of the states in which something is under way, *)
(* so it is not inductive.  SyncInv follows the newest value along the way *)
(* of the reports: the end of rq is the state of the device, the end of wq *)
(* is what was forwarded last, and a panel that shows anything else has    *)
(* its telegram still on the way to the device.                            *)
(***************************************************************************)
EXTENDS VentSync, TLAPS

LastOf(q) == q[Len(q)]
Holds(q, v) == \E i \in 1..Len(q) : q[i] = v

\* The newest report of the device is its state.  The cloud may be ahead of it
\* only while the command it was told of is on its way to the device.
DeviceKnown ==
  IF rq = <<>> THEN valueOld = device /\ (cloud = device \/ pc["callback"] = "session")
  ELSE LastOf(rq) = device

\* The last value on its way to the panel is the one forwarded last.
PanelDriven == wq # <<>> => LastOf(wq) = valueOld

\* With nothing on its way to the panel, the panel shows the value forwarded
\* last, or its own command is on its way to the device and back.
PanelChased ==
  wq = <<>> =>
    \/ panel = valueOld
    \/ Holds(rq, panel) \/ Holds(kq, panel)
    \/ pc["KNX_DevMonitorEntry"] = "session" /\ arg["KNX_DevMonitorEntry"] = panel

\* For a device that answers, ModbusDevWrite ends with the session.
NoTail == \A w \in Writers : pc[w] \in {"idle", "session"}

SyncInv ==
  /\ TypeOK
  /\ bFeedback => NoTail
  /\ bFeedback /\ ~lost => DeviceKnown /\ PanelDriven /\ PanelChased

-----------------------------------------------------------------------------
(* The queues *)

\* A queue that does not refuse takes the value at its end.
LEMMA PutProperties ==
  ASSUME NEW q, QueueOK(q), NEW v \in Values
  PROVE  /\ QueueOK(Put(q, v))
         /\ ~Refuses(q) => /\ Put(q, v) # <<>> /\ LastOf(Put(q, v)) = v
                           /\ \A u : Holds(Put(q, v), u) <=> Holds(q, u) \/ u = v
<1>1. CASE Refuses(q)
  BY <1>1, SyncAssumption DEF Put, Refuses, QueueOK
<1>2. CASE ~Refuses(q)
  <2>1. Len(q) \in Nat /\ Len(q) < QueueMax
    BY <1>2, SyncAssumption DEF Refuses, QueueOK
  <2>2. Put(q, v) = Append(q, v)
    BY <2>1 DEF Put
  <2>3. /\ Append(q, v) \in Seq(Values) /\ Len(Append(q, v)) = Len(q) + 1
        /\ Append(q, v)[Len(q) + 1] = v
        /\ \A i \in 1..Len(q) : Append(q, v)[i] = q[i]
    BY DEF QueueOK
  <2>4. QueueOK(Put(q, v))
    BY <2>1, <2>2, <2>3, SyncAssumption DEF QueueOK
  <2>5. Put(q, v) # <<>> /\ LastOf(Put(q, v)) = v
    BY <2>1, <2>2, <2>3 DEF LastOf
  <2>6. ASSUME NEW u PROVE Holds(Put(q, v), u) <=> Holds(q, u) \/ u = v
    BY <2>1, <2>2, <2>3 DEF Holds
  <2> QED
    BY <2>4, <2>5, <2>6
<1> QED
  BY <1>1, <1>2

\* Taking the head leaves the end and the other values.
LEMMA TailProperties ==
  ASSUME NEW q, QueueOK(q), q # <<>>
  PROVE  /\ Head(q) \in Values /\ QueueOK(Tail(q))
         /\ Tail(q) # <<>> => LastOf(Tail(q)) = LastOf(q)
         /\ Tail(q) = <<>> => Head(q) = LastOf(q)
         /\ \A u : Holds(q, u) <=> Holds(Tail(q), u) \/ u = Head(q)
<1>1. Len(q) \in Nat /\ Len(q) > 0 /\ Head(q) = q[1] /\ Head(q) \in Values
  BY DEF QueueOK
<1>2. /\ Tail(q) \in Seq(Values) /\ Len(Tail(q)) = Len(q) - 1
      /\ \A i \in 1..(Len(q) - 1) : Tail(q)[i] = q[i + 1]
  BY DEF QueueOK
<1>3. QueueOK(Tail(q))
  BY <1>1, <1>2, SyncAssumption DEF QueueOK
<1>4. Tail(q) # <<>> => Len(q) > 1
  BY <1>1, <1>2
<1>5. Tail(q) # <<>> => LastOf(Tail(q)) = LastOf(q)
  BY <1>1, <1>2, <1>4 DEF LastOf
<1>6. Tail(q) = <<>> => Head(q) = LastOf(q)
  BY <1>1, <1>2 DEF LastOf
<1>7. ASSUME NEW u PROVE Holds(q, u) <=> Holds(Tail(q), u) \/ u = Head(q)
  <2>1. Holds(q, u) => Holds(Tail(q), u) \/ u = Head(q)
    <3> SUFFICES ASSUME NEW i \in 1..Len(q), q[i] = u, i # 1
                 PROVE  Holds(Tail(q), u)
      BY <1>1 DEF Holds
    <3>1. i - 1 \in 1..(Len(q) - 1) /\ (i - 1) + 1 = i
      BY <1>1
    <3> QED
      BY <1>2, <3>1 DEF Holds
  <2>2. Holds(Tail(q), u) => Holds(q, u)
    <3> SUFFICES ASSUME NEW i \in 1..Len(Tail(q)), Tail(q)[i] = u
                 PROVE  Holds(q, u)
      BY DEF Holds
    <3>1. i + 1 \in 1..Len(q) /\ q[i + 1] = u
      BY <1>1, <1>2
    <3> QED
      BY <3>1 DEF Holds
  <2>3. u = Head(q) => Holds(q, u)
    BY <1>1 DEF Holds
  <2> QED
    BY <2>1, <2>2, <2>3
<1> QED
  BY <1>1, <1>3, <1>5, <1>6, <1>7

-----------------------------------------------------------------------------
(* Types *)

\* ModbusDevMonitor counts to MBUS_FORCE_SYNC_NUM and starts over.
LEMMA SyncPanelType ==
  ASSUME TypeOK, NEW v \in Values, SyncPanel(v)
  PROVE  valueOld' \in Values /\ forceSync' \in 0..MBUS_FORCE_SYNC_NUM /\ QueueOK(wq')
<1>1. QueueOK(Put(wq, v))
  BY PutProperties DEF TypeOK
<1> QED
  BY <1>1, SyncAssumption DEF TypeOK, SyncPanel, Withheld

LEMMA TypeStep ==
  ASSUME TypeOK, [Next]_vars
  PROVE  TypeOK'
<1> USE SyncAssumption
<1>1. ASSUME NEW v \in Values, Command(v) PROVE TypeOK'
  BY <1>1 DEF TypeOK, Command, filter, QueueOK, Writers
<1>2. ASSUME NEW v \in Values, Press(v) PROVE TypeOK'
  <2>1. QueueOK(kq') /\ lost' \in BOOLEAN
    BY <1>2, PutProperties DEF TypeOK, Press
  <2> QED
    BY <1>2, <2>1 DEF TypeOK, Press, filter, QueueOK
<1>3. CASE Knx_VentReport
  <2>1. Head(kq) \in Values /\ QueueOK(kq')
    BY <1>3, TailProperties DEF TypeOK, Knx_VentReport
  <2> QED
    BY <1>3, <2>1 DEF TypeOK, Knx_VentReport, filter, inputs, QueueOK, Writers
<1>4. ASSUME NEW w \in Writers, ModbusDevWrite(w) PROVE TypeOK'
  <2>1. arg[w] \in Values
    BY DEF TypeOK
  <2>2. QueueOK(rq') /\ device' \in Values
    BY <1>4, <2>1, PutProperties DEF TypeOK, ModbusDevWrite
  <2>3. lost' \in BOOLEAN
    BY <1>4 DEF ModbusDevWrite
  <2>4. pc' \in [Writers -> {"idle", "session", "KnxGroupWrite", "report"}]
    BY <1>4 DEF TypeOK, ModbusDevWrite
  <2>5. UNCHANGED <<bFeedback, panel, cloud, filter, wq, kq, arg, inputs>>
    BY <1>4 DEF ModbusDevWrite
  <2> QED
    BY <2>2, <2>3, <2>4, <2>5 DEF TypeOK, filter, inputs, QueueOK
<1>5. ASSUME NEW w \in Writers, AssumeWrittenStep(w) PROVE TypeOK'
  <2>1. arg[w] \in Values
    BY DEF TypeOK
  <2>2. QueueOK(wq') /\ cloud' \in Values \cup {None}
    BY <1>5, <2>1, PutProperties DEF TypeOK, AssumeWrittenStep, AssumeWritten
  <2>4. lost' \in BOOLEAN
    BY <1>5 DEF TypeOK, AssumeWrittenStep, AssumeWritten
  <2>3. pc' \in [Writers -> {"idle", "session", "KnxGroupWrite", "report"}]
    BY <1>5 DEF TypeOK, AssumeWrittenStep, AssumeWritten
  <2> QED
    BY <1>5, <2>2, <2>3, <2>4 DEF TypeOK, AssumeWrittenStep, filter, inputs, QueueOK
<1>6. CASE PollAnswered
  <2>1. QueueOK(rq') /\ lost' \in BOOLEAN
    BY <1>6, PutProperties DEF TypeOK, PollAnswered
  <2> QED
    BY <1>6, <2>1 DEF TypeOK, PollAnswered, filter, inputs, QueueOK
<1>7. CASE MonitorStep
  <2>1. rq # <<>> /\ rq' = Tail(rq) /\ SyncPanel(Head(rq)) /\ cloud' \in {cloud, Head(rq)}
    BY <1>7 DEF MonitorStep, MonitorReports, MonitorUnreported
  <2>2. Head(rq) \in Values /\ QueueOK(rq')
    BY <2>1, TailProperties DEF TypeOK
  <2>3. valueOld' \in Values /\ forceSync' \in 0..MBUS_FORCE_SYNC_NUM /\ QueueOK(wq')
    BY <2>1, <2>2, SyncPanelType
  <2>4. lost' \in BOOLEAN
    BY <1>7 DEF TypeOK, MonitorStep, MonitorReports, MonitorUnreported
  <2>5. UNCHANGED <<bFeedback, device, panel, kq, pc, arg, inputs>>
    BY <1>7 DEF MonitorStep, MonitorReports, MonitorUnreported
  <2> QED
    BY <2>1, <2>2, <2>3, <2>4, <2>5 DEF TypeOK, inputs, QueueOK
<1>8. CASE SendStep
  <2>1. Head(wq) \in Values /\ QueueOK(wq')
    BY <1>8, TailProperties DEF TypeOK, SendStep, Knx_VentilationCtrl, SendFails
  <2> QED
    BY <1>8, <2>1 DEF TypeOK, SendStep, Knx_VentilationCtrl, SendFails, filter, inputs, QueueOK
<1>9. CASE UNCHANGED vars
  BY <1>9 DEF vars, TypeOK, QueueOK
<1> QED
  BY <1>1, <1>2, <1>3, <1>4, <1>5, <1>6, <1>7, <1>8, <1>9 DEF Next, WriterStep

LEMMA TypeInit == Init => TypeOK
  BY SyncAssumption DEF Init, TypeOK, QueueOK

\* Every value stays in its range; above all forceSync never exceeds
\* MBUS_FORCE_SYNC_NUM and no queue its limit.
THEOREM TypeCorrect == Spec => []TypeOK
  BY TypeInit, TypeStep, PTL DEF Spec

-----------------------------------------------------------------------------
(* Agreement at rest *)

LEMMA NoTailStep ==
  ASSUME TypeOK, bFeedback, NoTail, [Next]_vars
  PROVE  bFeedback' /\ NoTail'
<1>1. ASSUME NEW v \in Values, Command(v) \/ Press(v) PROVE bFeedback' /\ NoTail'
  BY <1>1 DEF TypeOK, NoTail, Command, Press, Writers
<1>2. CASE Knx_VentReport
  BY <1>2 DEF TypeOK, NoTail, Knx_VentReport, Writers
<1>3. ASSUME NEW w \in Writers, WriterStep(w) PROVE bFeedback' /\ NoTail'
  <2>1. ModbusDevWrite(w)
    BY <1>3 DEF WriterStep, AssumeWrittenStep, AssumeWritten, NoTail
  <2>2. pc' = [pc EXCEPT ![w] = "idle"] /\ bFeedback' = bFeedback
    BY <2>1, Zenon DEF ModbusDevWrite
  <2> QED
    BY <2>2 DEF TypeOK, NoTail
<1>4. CASE PollAnswered \/ MonitorStep \/ SendStep \/ UNCHANGED vars
  BY <1>4 DEF NoTail, PollAnswered, MonitorStep, MonitorReports, MonitorUnreported,
              SendStep, Knx_VentilationCtrl, SendFails, vars
<1> QED
  BY <1>1, <1>2, <1>3, <1>4 DEF Next

\* The chain of the newest values survives every step that loses nothing.
LEMMA ChainStep ==
  ASSUME TypeOK, bFeedback, NoTail, DeviceKnown, PanelDriven, PanelChased,
         [Next]_vars, ~lost'
  PROVE  DeviceKnown' /\ PanelDriven' /\ PanelChased'
<1> DEFINE K == "KNX_DevMonitorEntry"
<1>a. K \in Writers /\ K # "callback"
  BY DEF Writers
<1>1. ASSUME NEW v \in Values, Command(v) PROVE DeviceKnown' /\ PanelDriven' /\ PanelChased'
  <2>1. UNCHANGED <<device, panel, valueOld, rq, wq, kq>>
    BY <1>1 DEF Command, filter
  <2>2. pc'[K] = pc[K] /\ arg'[K] = arg[K] /\ pc'["callback"] = "session"
    BY <1>1, <1>a DEF Command, TypeOK, Writers
  <2> QED
    BY <2>1, <2>2 DEF DeviceKnown, PanelDriven, PanelChased
<1>2. ASSUME NEW v \in Values, Press(v) PROVE DeviceKnown' /\ PanelDriven' /\ PanelChased'
  <2>1. UNCHANGED <<device, cloud, valueOld, rq, wq, pc>> /\ panel' = v
    BY <1>2 DEF Press, filter
  <2>2. kq' = Put(kq, v) /\ ~Refuses(kq)
    BY <1>2 DEF Press
  <2>3. Holds(kq', v)
    BY <2>2, PutProperties DEF TypeOK
  <2> QED
    BY <2>1, <2>3 DEF DeviceKnown, PanelDriven, PanelChased
<1>3. CASE Knx_VentReport
  <2>1. UNCHANGED <<device, panel, cloud, valueOld, rq, wq>>
    BY <1>3 DEF Knx_VentReport, filter
  <2>2. kq # <<>> /\ kq' = Tail(kq) /\ pc[K] = "idle"
        /\ pc'[K] = "session" /\ arg'[K] = Head(kq) /\ pc'["callback"] = pc["callback"]
    BY <1>3, <1>a DEF Knx_VentReport, TypeOK
  <2>3. Holds(kq, panel) => Holds(kq', panel) \/ arg'[K] = panel
    BY <2>2, TailProperties DEF TypeOK
  <2> QED
    BY <2>1, <2>2, <2>3 DEF DeviceKnown, PanelDriven, PanelChased
<1>4. ASSUME NEW w \in Writers, WriterStep(w) PROVE DeviceKnown' /\ PanelDriven' /\ PanelChased'
  <2>1. ModbusDevWrite(w)
    BY <1>4 DEF WriterStep, AssumeWrittenStep, AssumeWritten, NoTail
  <2>2. device' = arg[w] /\ rq' = Put(rq, arg[w]) /\ ~Refuses(rq)
    BY <2>1, Zenon DEF ModbusDevWrite
  <2>3. UNCHANGED <<panel, valueOld, wq, kq, arg>>
    BY <2>1 DEF ModbusDevWrite, filter
  <2>4. pc'[K] = pc[K] \/ w = K
    BY <2>1, <1>a DEF ModbusDevWrite, TypeOK
  <2>5. /\ rq' # <<>> /\ LastOf(rq') = arg[w]
        /\ Holds(rq', arg[w]) /\ (Holds(rq, panel) => Holds(rq', panel))
    BY <2>2, PutProperties DEF TypeOK
  <2> QED
    BY <2>2, <2>3, <2>4, <2>5 DEF DeviceKnown, PanelDriven, PanelChased
<1>5. CASE PollAnswered
  <2>1. UNCHANGED <<device, panel, valueOld, wq, kq, pc, arg>>
    BY <1>5 DEF PollAnswered, filter
  <2>2. rq' = Put(rq, device) /\ ~Refuses(rq)
    BY <1>5 DEF PollAnswered
  <2>3. rq' # <<>> /\ LastOf(rq') = device /\ (Holds(rq, panel) => Holds(rq', panel))
    BY <2>2, PutProperties DEF TypeOK
  <2> QED
    BY <2>1, <2>3 DEF DeviceKnown, PanelDriven, PanelChased
<1>6. CASE MonitorStep
  <2> DEFINE v == Head(rq)
  <2>1. MonitorReports
    BY <1>6 DEF MonitorStep, MonitorUnreported
  <2>2. /\ rq # <<>> /\ rq' = Tail(rq) /\ SyncPanel(v) /\ cloud' = v
        /\ UNCHANGED <<device, panel, kq, pc, arg>>
    BY <2>1 DEF MonitorReports
  <2>3. v \in Values /\ (rq' # <<>> => LastOf(rq') = device) /\ (rq' = <<>> => v = device)
    BY <2>2, TailProperties DEF TypeOK, DeviceKnown
  <2>4. Holds(rq, panel) => Holds(rq', panel) \/ panel = v
    BY <2>2, TailProperties DEF TypeOK
  <2>5. CASE Withheld(v)
    <3>1. valueOld = v /\ UNCHANGED <<valueOld, wq>>
      BY <2>2, <2>5 DEF SyncPanel, Withheld
    <3> QED
      BY <2>2, <2>3, <2>4, <3>1 DEF DeviceKnown, PanelDriven, PanelChased
  <2>6. CASE ~Withheld(v)
    <3>1. valueOld' = v /\ wq' = Put(wq, v)
      BY <2>2, <2>6 DEF SyncPanel
    <3>2. ~Refuses(wq)
      BY <2>1, <2>6 DEF MonitorReports
    <3>3. wq' # <<>> /\ LastOf(wq') = v
      BY <2>3, <3>1, <3>2, PutProperties DEF TypeOK
    <3> QED
      BY <2>2, <2>3, <3>1, <3>3 DEF DeviceKnown, PanelDriven, PanelChased
  <2> QED
    BY <2>5, <2>6
<1>7. CASE SendStep
  <2>1. Knx_VentilationCtrl
    BY <1>7 DEF SendStep, SendFails
  <2>2. /\ wq # <<>> /\ wq' = Tail(wq) /\ panel' = Head(wq)
        /\ UNCHANGED <<device, cloud, valueOld, rq, kq, pc, arg>>
    BY <2>1 DEF Knx_VentilationCtrl, filter
  <2>3. (wq' # <<>> => LastOf(wq') = valueOld) /\ (wq' = <<>> => panel' = valueOld)
    BY <2>2, TailProperties DEF TypeOK, PanelDriven
  <2> QED
    BY <2>2, <2>3 DEF DeviceKnown, PanelDriven, PanelChased
<1>8. CASE UNCHANGED vars
  BY <1>8 DEF vars, DeviceKnown, PanelDriven, PanelChased
<1> QED
  BY <1>1, <1>2, <1>3, <1>4, <1>5, <1>6, <1>7, <1>8 DEF Next

\* What is lost stays lost.
LEMMA LostStays ==
  ASSUME [Next]_vars, lost
  PROVE  lost'
<1>1. ASSUME NEW v \in Values, Command(v) \/ Press(v) PROVE lost'
  BY <1>1 DEF Command, Press
<1>2. ASSUME NEW w \in Writers, WriterStep(w) PROVE lost'
  BY <1>2 DEF WriterStep, ModbusDevWrite, AssumeWrittenStep, AssumeWritten
<1>3. CASE Knx_VentReport \/ PollAnswered \/ MonitorStep \/ SendStep \/ UNCHANGED vars
  BY <1>3 DEF Knx_VentReport, PollAnswered, MonitorStep, MonitorReports, MonitorUnreported,
              SendStep, Knx_VentilationCtrl, SendFails, vars
<1> QED
  BY <1>1, <1>2, <1>3 DEF Next

LEMMA SyncStep ==
  ASSUME SyncInv, [Next]_vars
  PROVE  SyncInv'
<1>1. TypeOK'
  BY TypeStep DEF SyncInv
<1>2. bFeedback' = bFeedback
  BY DEF Next, Command, Press, WriterStep, ModbusDevWrite, AssumeWrittenStep, Knx_VentReport,
         PollAnswered, MonitorStep, MonitorReports, MonitorUnreported, SendStep,
         Knx_VentilationCtrl, SendFails, vars
<1>3. bFeedback' => NoTail'
  BY <1>2, NoTailStep DEF SyncInv
<1>4. bFeedback' /\ ~lost' => DeviceKnown' /\ PanelDriven' /\ PanelChased'
  BY <1>2, ChainStep, LostStays DEF SyncInv
<1> QED
  BY <1>1, <1>3, <1>4 DEF SyncInv

LEMMA SyncInit == Init => SyncInv
<1> SUFFICES ASSUME Init PROVE SyncInv
  OBVIOUS
<1>1. TypeOK
  BY TypeInit
<1>2. NoTail
  BY DEF Init, NoTail
<1>3. ~lost => panel = device /\ cloud = device /\ valueOld = device
  BY DEF Init
<1>4. ~lost => DeviceKnown /\ PanelDriven /\ PanelChased
  BY <1>3 DEF Init, DeviceKnown, PanelDriven, PanelChased
<1> QED
  BY <1>1, <1>2, <1>4 DEF SyncInv

LEMMA SyncImplies == SyncInv => AtRestAgree
<1> SUFFICES ASSUME SyncInv, bFeedback, ~lost, AtRest PROVE Agree
  BY DEF AtRestAgree
<1>1. DeviceKnown /\ PanelChased
  BY DEF SyncInv
<1>2. pc["KNX_DevMonitorEntry"] = "idle" /\ pc["callback"] = "idle"
  BY DEF AtRest, Writers
<1>3. ~Holds(rq, panel) /\ ~Holds(kq, panel)
  BY DEF AtRest, Holds
<1> QED
  BY <1>1, <1>2, <1>3 DEF AtRest, Agree, DeviceKnown, PanelChased

\* However commands of cloud and panel interleave and whatever ModbusDevMonitor
\* withholds: if no frame, telegram, report or queue entry was lost, a gateway
\* at rest has device, panel and cloud in the same state.
THEOREM RestMeansAgreement == Spec => []AtRestAgree
<1>1. Spec => []SyncInv
  BY SyncInit, SyncStep, PTL DEF Spec
<1> QED
  BY <1>1, SyncImplies, PTL
=============================================================================
