--------------------------- MODULE KnxDevicesProofs ---------------------------
(***************************************************************************)
(* AtRestSynced and the types of KnxDevices for any list of devices,       *)
(* kinds, points and limits of the queues, and any number of commands,     *)
(* presses, bindings and restarts.                                         *)
(***************************************************************************)
EXTENDS KnxDevices, SequenceTheorems, TLAPS

USE DEF heartbeat, shown, panels, reasons

Waiting(p) == \E i \in DOMAIN monitorQ : monitorQ[i].pt = p
Queued(p) == \E i \in DOMAIN writeQ : writeQ[i].pt = p
Commanded(p) == Queued(p) \/ (writing # None /\ writing.pt = p)

\* A command is for a point of its device, or for the mode of a smart panel.
Meant(c) == c \in Commands /\ ((c.pt = "mode" /\ Kind[c.dev] = "smart") \/ c.pt \in PointsOf(c.dev))

DataType ==
  /\ bound \subseteq Master
  /\ bus \in [AllPoints -> Values]
  /\ cloud \in [AllPoints -> {0, 1, 2, None}] /\ mbus \in [AllPoints -> {0, 1, 2, None}]
  /\ monitorQ \in Seq(Telegrams) /\ writeQ \in Seq(Commands)
  /\ \A i \in DOMAIN writeQ : Meant(writeQ[i])
  /\ writing # None => writing \in Commands /\ writing.pt \in AllPoints

\* The newest telegram of a point under way to KNX_DevMonitorEntry tells its
\* present state, unless a newer one did not come through.
LastTold(p) ==
  p \notin dropped =>
    \A i \in DOMAIN monitorQ :
      monitorQ[i].pt = p /\ (\A j \in DOMAIN monitorQ : j > i => monitorQ[j].pt # p) => monitorQ[i].val = bus[p]

InStep(p) ==
  IF Owner(p) \in Master THEN cloud[p] = CloudValue(Owner(p), bus[p])
                         ELSE mbus[p] = ForModbus(Owner(p), bus[p])

\* A point for which nothing is under way and nothing is excused is in step,
\* whatever is under way for the others.
Even(p) == p \notin dropped \cup excused \cup shadowed /\ ~Waiting(p) /\ ~Commanded(p) => InStep(p)

\* The controllers whose report functions hand nothing on
Mute(d) == d \notin Master /\ Kind[d] \in {"heat", "smart", "dimmer"}
MuteExcused(p) == Mute(Owner(p)) => p \in excused \cup shadowed

PointInv(p) == LastTold(p) /\ Even(p) /\ MuteExcused(p)
IInv == DataType /\ \A p \in AllPoints : PointInv(p)

-----------------------------------------------------------------------------
(* Points and queues *)

LEMMA OwnerOf ==
  /\ \A p \in AllPoints : Owner(p) \in Devices /\ p \in PointsOf(Owner(p))
  /\ \A d \in Devices : \A p \in PointsOf(d) : p \in AllPoints /\ Owner(p) = d
<1>1. ASSUME NEW p \in AllPoints PROVE Owner(p) \in Devices /\ p \in PointsOf(Owner(p))
  <2>1. \E d \in Devices : p \in PointsOf(d)
    BY DEF AllPoints
  <2> QED
    BY <2>1 DEF Owner
<1>2. ASSUME NEW d \in Devices, NEW p \in PointsOf(d) PROVE p \in AllPoints /\ Owner(p) = d
  <2>1. p \in AllPoints
    BY DEF AllPoints
  <2>2. PointsOf(Owner(p)) \cap PointsOf(d) # {} /\ Owner(p) \in Devices
    BY <1>1, <2>1
  <2> QED
    BY <2>1, <2>2, DevicesAssumption
<1> QED
  BY <1>1, <1>2

LEMMA CloudValues == \A d, v : v \in Values => CloudValue(d, v) \in {0, 1, 2, None} /\ ForModbus(d, v) \in {0, 1, 2, None}
  BY DEF CloudValue, ForModbus, OpenClose, Values

LEMMA AppendFacts ==
  ASSUME NEW S, NEW q \in Seq(S), NEW x \in S, NEW r, r = Append(q, x)
  PROVE  /\ r \in Seq(S) /\ Len(q) \in Nat /\ DOMAIN q = 1..Len(q) /\ DOMAIN r = 1..(Len(q) + 1)
         /\ r[Len(q) + 1] = x /\ \A i \in 1..Len(q) : r[i] = q[i]
  OBVIOUS

LEMMA TailFacts ==
  ASSUME NEW S, NEW q \in Seq(S), q # << >>, NEW r, r = Tail(q)
  PROVE  /\ r \in Seq(S) /\ Len(q) \in Nat /\ Len(q) >= 1 /\ DOMAIN q = 1..Len(q)
         /\ DOMAIN r = 1..(Len(q) - 1)
         /\ Head(q) = q[1] /\ q[1] \in S /\ \A i \in 1..(Len(q) - 1) : r[i] = q[i + 1]
  OBVIOUS

\* A telegram that tells the present state of its point enters the queue.
LEMMA TelegramEnters ==
  ASSUME DataType, NEW t \in Telegrams, monitorQ' = Append(monitorQ, t), bus'[t.pt] = t.val,
         \A p \in AllPoints \ {t.pt} : bus'[p] = bus[p] /\ (p \in dropped' <=> p \in dropped),
         NEW p \in AllPoints
  PROVE  /\ monitorQ' \in Seq(Telegrams)
         /\ LastTold(p) => LastTold(p)'
         /\ IF p = t.pt THEN Waiting(p)' ELSE Waiting(p)' <=> Waiting(p)
<1>1. /\ monitorQ' \in Seq(Telegrams) /\ Len(monitorQ) \in Nat
      /\ DOMAIN monitorQ = 1..Len(monitorQ) /\ DOMAIN monitorQ' = 1..(Len(monitorQ) + 1)
      /\ monitorQ'[Len(monitorQ) + 1] = t /\ \A i \in 1..Len(monitorQ) : monitorQ'[i] = monitorQ[i]
  BY AppendFacts DEF DataType
<1>2. PICK n \in Nat : n = Len(monitorQ)
  BY <1>1
<1>3. CASE p = t.pt
  <2>1. Waiting(p)'
    BY <1>1, <1>2, <1>3 DEF Waiting
  <2>2. \A i \in DOMAIN monitorQ' : i = n + 1 \/ (n + 1 \in DOMAIN monitorQ' /\ n + 1 > i /\ monitorQ'[n + 1].pt = p)
    BY <1>1, <1>2, <1>3
  <2>3. LastTold(p)'
    BY <1>1, <1>2, <1>3, <2>2 DEF LastTold
  <2> QED
    BY <1>1, <1>3, <2>1, <2>3
<1>4. CASE p # t.pt
  <2>1. Waiting(p)' <=> Waiting(p)
    BY <1>1, <1>2, <1>4 DEF Waiting
  <2>2. ASSUME LastTold(p), p \notin dropped', NEW i \in DOMAIN monitorQ', monitorQ'[i].pt = p,
               \A j \in DOMAIN monitorQ' : j > i => monitorQ'[j].pt # p
        PROVE  monitorQ'[i].val = bus'[p]
    <3>1. i \in DOMAIN monitorQ /\ monitorQ[i] = monitorQ'[i]
      BY <1>1, <1>2, <1>4, <2>2
    <3>2. \A j \in DOMAIN monitorQ : j > i => monitorQ[j].pt # p
      BY <1>1, <1>2, <2>2
    <3> QED
      BY <1>4, <2>2, <3>1, <3>2 DEF LastTold
  <2>3. LastTold(p) => LastTold(p)'
    BY <2>2 DEF LastTold
  <2> QED
    BY <1>1, <1>4, <2>1, <2>3
<1> QED
  BY <1>3, <1>4

\* Telegram: it enters the queue, or its point counts as dropped.
LEMMA TelegramEffect ==
  ASSUME DataType, NEW q \in AllPoints, NEW v \in Values, Telegram(q, v), bus' = [bus EXCEPT ![q] = v],
         NEW p \in AllPoints
  PROVE  /\ monitorQ' \in Seq(Telegrams) /\ bus' \in [AllPoints -> Values]
         /\ LastTold(p) => LastTold(p)'
         /\ IF p = q THEN Waiting(p)' \/ p \in dropped'
                     ELSE (Waiting(p)' <=> Waiting(p)) /\ bus'[p] = bus[p] /\ (p \in dropped' <=> p \in dropped)
<1> DEFINE t == [pt |-> q, val |-> v]
<1>1. t \in Telegrams /\ t.pt = q /\ t.val = v
  BY DEF Telegrams
<1>2. bus' \in [AllPoints -> Values] /\ bus'[q] = v /\ \A r \in AllPoints \ {q} : bus'[r] = bus[r]
  BY DEF DataType
<1>3. \/ monitorQ' = Append(monitorQ, t) /\ dropped' = dropped \ {q}
      \/ monitorQ' = monitorQ /\ dropped' = dropped \cup {q}
  BY DEF Telegram, Put
<1> HIDE DEF t
<1>4. CASE monitorQ' = Append(monitorQ, t) /\ dropped' = dropped \ {q}
  <2>1. \A r \in AllPoints \ {t.pt} : bus'[r] = bus[r] /\ (r \in dropped' <=> r \in dropped)
    BY <1>1, <1>2, <1>4
  <2> QED
    BY <1>1, <1>2, <1>4, <2>1, TelegramEnters
<1>5. CASE monitorQ' = monitorQ /\ dropped' = dropped \cup {q}
  <2>1. p # q => (Waiting(p)' <=> Waiting(p)) /\ (LastTold(p) => LastTold(p)')
    BY <1>2, <1>5 DEF Waiting, LastTold
  <2>2. p = q => LastTold(p)'
    BY <1>5 DEF LastTold
  <2> QED
    BY <1>2, <1>5, <2>1, <2>2 DEF DataType
<1> QED
  BY <1>3, <1>4, <1>5

\* KNX_DevMonitorEntry takes a telegram: where no other of its point follows, it
\* tells the present state.
LEMMA TelegramLeaves ==
  ASSUME DataType, monitorQ # << >>, monitorQ' = Tail(monitorQ), UNCHANGED <<bus, dropped>>, NEW p \in AllPoints
  PROVE  /\ monitorQ' \in Seq(Telegrams) /\ Head(monitorQ) \in Telegrams
         /\ LastTold(p) => LastTold(p)'
         /\ p # Head(monitorQ).pt => (Waiting(p)' <=> Waiting(p))
         /\ p = Head(monitorQ).pt /\ LastTold(p) /\ ~Waiting(p)' /\ p \notin dropped => Head(monitorQ).val = bus[p]
<1>1. /\ monitorQ' \in Seq(Telegrams) /\ Len(monitorQ) \in Nat /\ Len(monitorQ) >= 1
      /\ DOMAIN monitorQ = 1..Len(monitorQ) /\ DOMAIN monitorQ' = 1..(Len(monitorQ) - 1)
      /\ Head(monitorQ) = monitorQ[1] /\ monitorQ[1] \in Telegrams
      /\ \A i \in 1..(Len(monitorQ) - 1) : monitorQ'[i] = monitorQ[i + 1]
  BY TailFacts DEF DataType
<1>2. PICK n \in Nat : n = Len(monitorQ)
  BY <1>1
<1>3. \A i \in DOMAIN monitorQ : i = 1 \/ (i - 1 \in DOMAIN monitorQ' /\ monitorQ'[i - 1] = monitorQ[i])
  BY <1>1, <1>2
<1>4. \A i \in DOMAIN monitorQ' : i + 1 \in DOMAIN monitorQ /\ monitorQ'[i] = monitorQ[i + 1] /\ i \in Nat
  BY <1>1, <1>2
<1>5. ASSUME LastTold(p), p \notin dropped', NEW i \in DOMAIN monitorQ', monitorQ'[i].pt = p,
             \A j \in DOMAIN monitorQ' : j > i => monitorQ'[j].pt # p
      PROVE  monitorQ'[i].val = bus'[p]
  <2>1. ASSUME NEW j \in DOMAIN monitorQ, j > i + 1 PROVE monitorQ[j].pt # p
    <3>1. j - 1 \in DOMAIN monitorQ' /\ monitorQ'[j - 1] = monitorQ[j] /\ j - 1 > i
      BY <1>1, <1>2, <1>3, <1>4, <2>1
    <3> QED
      BY <1>5, <3>1
  <2> QED
    BY <1>4, <1>5, <2>1 DEF LastTold
<1>6. LastTold(p) => LastTold(p)'
  BY <1>5 DEF LastTold
<1>7. p # Head(monitorQ).pt => (Waiting(p)' <=> Waiting(p))
  <2>1. ASSUME NEW i \in DOMAIN monitorQ', monitorQ'[i].pt = p PROVE Waiting(p)
    BY <1>4, <2>1 DEF Waiting
  <2>2. ASSUME p # Head(monitorQ).pt, NEW i \in DOMAIN monitorQ, monitorQ[i].pt = p PROVE Waiting(p)'
    <3>1. i # 1
      BY <1>1, <2>2
    <3>2. i - 1 \in DOMAIN monitorQ' /\ monitorQ'[i - 1].pt = p
      BY <1>3, <2>2, <3>1
    <3> QED
      BY <3>2 DEF Waiting
  <2> QED
    BY <2>1, <2>2 DEF Waiting
<1>8. ASSUME p = Head(monitorQ).pt, LastTold(p), ~Waiting(p)', p \notin dropped
      PROVE  Head(monitorQ).val = bus[p]
  <2>1. ASSUME NEW j \in DOMAIN monitorQ, j > 1, monitorQ[j].pt = p PROVE FALSE
    <3>1. j # 1
      BY <2>1
    <3>2. j - 1 \in DOMAIN monitorQ' /\ monitorQ'[j - 1].pt = p
      BY <1>3, <2>1, <3>1
    <3> QED
      BY <1>8, <3>2 DEF Waiting
  <2>2. 1 \in DOMAIN monitorQ
    BY <1>1, <1>2
  <2> QED
    BY <1>1, <1>8, <2>1, <2>2 DEF LastTold
<1> QED
  BY <1>1, <1>6, <1>7, <1>8

-----------------------------------------------------------------------------
(* Commands *)

LEMMA CommandEnters ==
  ASSUME DataType, NEW c, Meant(c), writeQ' = Put(writeQ, c)
  PROVE  /\ writeQ' \in Seq(Commands) /\ \A i \in DOMAIN writeQ' : Meant(writeQ'[i])
         /\ \A p : Queued(p) => Queued(p)'
         /\ Len(writeQ) < QueueMax => Queued(c.pt)'
<1>1. writeQ \in Seq(Commands) /\ c \in Commands /\ \A i \in DOMAIN writeQ : Meant(writeQ[i])
  BY DEF DataType, Meant
<1>2. CASE Len(writeQ) < QueueMax
  <2>1. writeQ' = Append(writeQ, c)
    BY <1>2 DEF Put
  <2>2. /\ writeQ' \in Seq(Commands) /\ Len(writeQ) \in Nat
        /\ DOMAIN writeQ = 1..Len(writeQ) /\ DOMAIN writeQ' = 1..(Len(writeQ) + 1)
        /\ writeQ'[Len(writeQ) + 1] = c /\ \A i \in 1..Len(writeQ) : writeQ'[i] = writeQ[i]
    BY <1>1, <2>1, AppendFacts
  <2>3. PICK n \in Nat : n = Len(writeQ)
    BY <2>2
  <2>4. \A i \in DOMAIN writeQ' : i = n + 1 \/ i \in DOMAIN writeQ
    BY <2>2, <2>3
  <2>5. n + 1 \in DOMAIN writeQ' /\ writeQ'[n + 1] = c
    BY <2>2, <2>3
  <2>6. \A i \in DOMAIN writeQ : i \in DOMAIN writeQ' /\ writeQ'[i] = writeQ[i]
    BY <2>2, <2>3
  <2>7. \A i \in DOMAIN writeQ' : Meant(writeQ'[i])
    BY <1>1, <2>4, <2>5, <2>6
  <2> QED
    BY <2>2, <2>5, <2>6, <2>7 DEF Queued
<1>3. CASE ~(Len(writeQ) < QueueMax)
  BY <1>1, <1>3 DEF Put, Queued
<1> QED
  BY <1>2, <1>3

LEMMA CommandLeaves ==
  ASSUME DataType, writeQ # << >>, writeQ' = Tail(writeQ)
  PROVE  /\ writeQ' \in Seq(Commands) /\ \A i \in DOMAIN writeQ' : Meant(writeQ'[i])
         /\ Meant(Head(writeQ))
         /\ \A p : p # Head(writeQ).pt /\ Queued(p) => Queued(p)'
<1>1. /\ writeQ' \in Seq(Commands) /\ Len(writeQ) \in Nat /\ Len(writeQ) >= 1
      /\ DOMAIN writeQ = 1..Len(writeQ) /\ DOMAIN writeQ' = 1..(Len(writeQ) - 1)
      /\ Head(writeQ) = writeQ[1] /\ \A i \in 1..(Len(writeQ) - 1) : writeQ'[i] = writeQ[i + 1]
  BY TailFacts DEF DataType
<1>2. PICK n \in Nat : n = Len(writeQ)
  BY <1>1
<1>3. \A i \in DOMAIN writeQ : i = 1 \/ (i - 1 \in DOMAIN writeQ' /\ writeQ'[i - 1] = writeQ[i])
  BY <1>1, <1>2
<1>4. \A i \in DOMAIN writeQ' : i + 1 \in DOMAIN writeQ /\ writeQ'[i] = writeQ[i + 1]
  BY <1>1, <1>2
<1>5. 1 \in DOMAIN writeQ
  BY <1>1, <1>2
<1>6. ASSUME NEW p, p # Head(writeQ).pt, NEW i \in DOMAIN writeQ, writeQ[i].pt = p PROVE Queued(p)'
  <2>1. i # 1
    BY <1>1, <1>6
  <2>2. i - 1 \in DOMAIN writeQ' /\ writeQ'[i - 1].pt = p
    BY <1>3, <1>6, <2>1
  <2> QED
    BY <2>2 DEF Queued
<1>7. (\A i \in DOMAIN writeQ' : Meant(writeQ'[i])) /\ Meant(Head(writeQ))
  BY <1>1, <1>4, <1>5 DEF DataType
<1> QED
  BY <1>1, <1>6, <1>7 DEF Queued

\* What the control function of the device makes of a command: it is sent, or its
\* point is excused, or it is no command for a point.
LEMMA ControlEffect ==
  ASSUME DataType, KNX_DevWriteEntry, NEW c, c = Head(writeQ)
  PROVE  \/ /\ writing' \in Commands /\ writing'.pt = c.pt /\ c \in Commands /\ c.pt \in AllPoints
            /\ excused' = excused
            /\ cloud' = cloud \/ cloud' = [cloud EXCEPT ![c.pt] = c.val]
         \/ writing' = None /\ cloud' = cloud /\ excused' = excused \cup {c.pt}
         \/ c.pt = "mode" /\ writing' = None /\ cloud' = cloud /\ excused' = excused
<1>1. Meant(c) /\ writing = None
  BY CommandLeaves DEF KNX_DevWriteEntry
<1>2. c \in Commands /\ c.dev \in Devices
  BY <1>1 DEF Meant, Commands
<1>3. c.pt \in AllPoints \/ (c.pt = "mode" /\ Kind[c.dev] = "smart")
  BY <1>1, <1>2, OwnerOf DEF Meant
<1>4. ASSUME ReportThenSend(c) \/ JustSend(c)
      PROVE  writing' = c /\ excused' = excused /\ (cloud' = cloud \/ cloud' = [cloud EXCEPT ![c.pt] = c.val])
  BY <1>4 DEF ReportThenSend, JustSend, ReportObjDp
<1>5. ASSUME Kind[c.dev] # "smart", ReportThenSend(c) \/ JustSend(c)
      PROVE  /\ writing' = c /\ c.pt \in AllPoints /\ excused' = excused
             /\ cloud' = cloud \/ cloud' = [cloud EXCEPT ![c.pt] = c.val]
  BY <1>3, <1>4, <1>5
<1>6. CASE Knx_SmartPanelCtrl(c)
  BY <1>1, <1>2, <1>3, <1>4, <1>6 DEF Knx_SmartPanelCtrl
<1>7. CASE Knx_CurtainCtrl(c)
  <2> DEFINE w == [c EXCEPT !.val = 1 - @]
  <2>1. w \in Commands /\ w.pt = c.pt /\ c.pt \in AllPoints
    BY <1>2, <1>3, <1>7 DEF Knx_CurtainCtrl, Commands, Values
  <2>2. writing' = w /\ excused' = excused /\ cloud' = cloud
    BY <1>7 DEF Knx_CurtainCtrl, JustSend
  <2> QED
    BY <1>2, <2>1, <2>2
<1>8. CASE Knx_AirconditionCtrl(c) \/ Knx_VentilationCtrl(c) \/ Knx_FloorHeatingCtrl(c) \/ Knx_PanelCtrl(c)
           \/ Knx_DimmerCtrl(c)
  <2>1. Kind[c.dev] # "smart" /\ (ReportThenSend(c) \/ JustSend(c))
    BY <1>8
       DEF Knx_AirconditionCtrl, Knx_VentilationCtrl, Knx_FloorHeatingCtrl, Knx_PanelCtrl, Knx_DimmerCtrl
  <2> QED
    BY <1>2, <1>5, <2>1
<1> QED
  BY <1>6, <1>7, <1>8 DEF KNX_DevWriteEntry

\* Whom the report functions hand a telegram to
LEMMA FateFacts ==
  ASSUME NEW d \in Devices
  PROVE  /\ FateOf(d) = "cloud" => d \in Master
         /\ FateOf(d) = "mbus" => d \notin Master /\ ~Mute(d)
         /\ FateOf(d) = "ignored" => Mute(d)
<1>1. Kind[d] \in Kinds
  BY DevicesAssumption
<1>2. ASSUME NEW tested, NEW other \in {"mbus", "ignored"}, FateOf(d) = Fate(d, tested, other)
      PROVE  /\ FateOf(d) = "cloud" => d \in Master
             /\ FateOf(d) \in {"mbus", "ignored"} => d \notin Master /\ FateOf(d) = other
  BY <1>2 DEF Fate
<1>3. CASE Kind[d] \in {"acd", "vent", "panel", "curtain"}
  <2>1. \E tested : FateOf(d) = Fate(d, tested, "mbus")
    BY <1>3 DEF FateOf, Knx_AcdReport, Knx_VentReport, Knx_PanelReport, Knx_CurtainReport
  <2> QED
    BY <1>2, <1>3, <2>1 DEF Mute
<1>4. CASE Kind[d] \in {"heat", "smart", "dimmer"}
  <2>1. \E tested : FateOf(d) = Fate(d, tested, "ignored")
    BY <1>4 DEF FateOf, Knx_HeatReport, Knx_SmartPanelReport, Knx_DimmerReport
  <2> QED
    BY <1>2, <1>4, <2>1 DEF Mute
<1> QED
  BY <1>1, <1>3, <1>4 DEF Kinds

-----------------------------------------------------------------------------
(* The inductive invariant *)

LEMMA IInvInit == Init => IInv
<1> SUFFICES ASSUME Init PROVE IInv
  OBVIOUS
<1>1. DataType
  BY DEF Init, DataType, Values
<1>2. ASSUME NEW p \in AllPoints PROVE PointInv(p)
  BY DEF Init, PointInv, LastTold, Even, MuteExcused
<1> QED
  BY <1>1, <1>2 DEF IInv

\* Nothing that the invariant looks at changes, but for the bindings.
Untouched == UNCHANGED <<bus, cloud, mbus, monitorQ, writeQ, writing, dropped, excused, shadowed>>

LEMMA UntouchedKeeps == ASSUME IInv, Untouched, bound' \subseteq Master PROVE IInv'
<1>1. DataType'
  BY DEF IInv, Untouched, DataType
<1>2. ASSUME NEW p \in AllPoints PROVE PointInv(p)'
  BY DEF IInv, Untouched, PointInv, LastTold, Even, MuteExcused, InStep, Waiting, Commanded, Queued
<1> QED
  BY <1>1, <1>2 DEF IInv

\* A step that leaves point p alone: no telegram and no command of p is taken,
\* and no reason is forgotten.
PointKept(p) ==
  /\ bus'[p] = bus[p] /\ cloud'[p] = cloud[p] /\ mbus'[p] = mbus[p]
  /\ p \in dropped => p \in dropped'
  /\ p \in excused => p \in excused'
  /\ p \in shadowed => p \in shadowed'
  /\ Waiting(p) => Waiting(p)' \/ p \in dropped'
  /\ Commanded(p) => Commanded(p)' \/ p \in excused'

LEMMA PointKeeps ==
  ASSUME NEW p \in AllPoints, PointInv(p), PointKept(p), LastTold(p)'
  PROVE  PointInv(p)'
  BY DEF PointInv, PointKept, Even, MuteExcused, InStep

LEMMA ToldSame ==
  ASSUME NEW p \in AllPoints, LastTold(p), monitorQ' = monitorQ, bus'[p] = bus[p], p \in dropped => p \in dropped'
  PROVE  LastTold(p)' /\ (Waiting(p)' <=> Waiting(p))
  BY DEF LastTold, Waiting

LEMMA IInvStep == IInv /\ [Next]_vars => IInv'
<1> SUFFICES ASSUME IInv, [Next]_vars PROVE IInv'
  OBVIOUS
<1>0. DataType /\ \A p \in AllPoints : PointInv(p) /\ LastTold(p) /\ MuteExcused(p)
  BY DEF IInv, PointInv
<1>1. CASE UNCHANGED vars
  BY <1>0, <1>1, UntouchedKeeps DEF vars, Untouched, DataType
<1>2. ASSUME OnlineStatusChanged \/ Knx_DevBind \/ HealthFails PROVE IInv'
  BY <1>0, <1>2, UntouchedKeeps DEF OnlineStatusChanged, Knx_DevBind, HealthFails, Untouched, DataType
<1>3. ASSUME NEW d \in Devices, Heartbeat(d) PROVE IInv'
  BY <1>0, <1>3, UntouchedKeeps DEF Heartbeat, SyncDevStatus, Knx_RequestHB, Untouched, DataType
<1>4. ASSUME NEW j \in 1..SYNC_FIRST, KNX_DevStateSync(j) PROVE IInv'
  BY <1>0, <1>4, UntouchedKeeps DEF KNX_DevStateSync, Untouched, DataType
<1>5. ASSUME Knx_DevUnbind PROVE IInv'
  <2>1. PICK gone \in SUBSET bound \ {{}} :
          LET points == UNION {PointsOf(d) : d \in gone} IN
          /\ bound' = bound \ gone
          /\ cloud' = [p \in AllPoints |-> IF p \in points THEN None ELSE cloud[p]]
          /\ excused' = excused \cup points
    BY <1>5 DEF Knx_DevUnbind
  <2>2. UNCHANGED <<bus, mbus, monitorQ, writeQ, writing, dropped, shadowed>>
    BY <1>5 DEF Knx_DevUnbind
  <2>3. DataType'
    BY <1>0, <2>1, <2>2 DEF DataType
  <2>4. ASSUME NEW p \in AllPoints PROVE PointInv(p)'
    <3>1. LastTold(p)' /\ (Waiting(p)' <=> Waiting(p)) /\ (Commanded(p)' <=> Commanded(p))
      BY <1>0, <2>2, ToldSame DEF Commanded, Queued
    <3>2. p \in excused' \/ cloud'[p] = cloud[p]
      BY <2>1
    <3> QED
      BY <1>0, <2>1, <2>2, <3>1, <3>2 DEF PointInv, Even, MuteExcused, InStep
  <2> QED
    BY <2>3, <2>4 DEF IInv
<1>6. ASSUME NEW d \in Devices, NEW v \in Values, ModeCommand(d, v) PROVE IInv'
  <2> DEFINE c == [dev |-> d, pt |-> "mode", val |-> v]
  <2>1. Meant(c)
    BY <1>6 DEF ModeCommand, Meant, Commands, Smart
  <2>2. writeQ' = Put(writeQ, c) /\ UNCHANGED <<bound, bus, cloud, mbus, monitorQ, writing, dropped, excused, shadowed>>
    BY <1>6 DEF ModeCommand
  <2> HIDE DEF c
  <2>3. DataType'
    BY <1>0, <2>1, <2>2, CommandEnters DEF DataType
  <2>4. ASSUME NEW p \in AllPoints PROVE PointInv(p)'
    <3>1. LastTold(p)' /\ (Waiting(p)' <=> Waiting(p))
      BY <1>0, <2>2, ToldSame
    <3>2. Commanded(p) => Commanded(p)'
      BY <1>0, <2>1, <2>2, CommandEnters DEF Commanded
    <3> QED
      BY <1>0, <2>2, <3>1, <3>2, PointKeeps DEF PointKept
  <2> QED
    BY <2>3, <2>4 DEF IInv
<1>7. ASSUME NEW d \in Devices, NEW v \in Values, NEW q \in PointsOf(d), Command(d, q, v) PROVE IInv'
  <2> DEFINE c == [dev |-> d, pt |-> q, val |-> v]
  <2>1. q \in AllPoints
    BY OwnerOf
  <2>2. Meant(c) /\ c.pt = q
    BY <2>1 DEF Meant, Commands
  <2>3. /\ writeQ' = Put(writeQ, c) /\ excused' = IF Len(writeQ) < QueueMax THEN excused ELSE excused \cup {q}
        /\ UNCHANGED <<bound, bus, mbus, monitorQ, writing, dropped, shadowed>>
    BY <1>7 DEF Command
  <2>4. cloud' \in [AllPoints -> {0, 1, 2, None}] /\ \A p \in AllPoints \ {q} : cloud'[p] = cloud[p]
    <3>1. CloudValue(d, v) \in {0, 1, 2, None}
      BY CloudValues
    <3>2. cloud' = cloud \/ cloud' = [cloud EXCEPT ![q] = CloudValue(d, v)]
      BY <1>7 DEF Command, ReportObjDp
    <3> QED
      BY <1>0, <2>1, <3>1, <3>2 DEF DataType
  <2> HIDE DEF c
  <2>5. DataType'
    BY <1>0, <2>2, <2>3, <2>4, CommandEnters DEF DataType
  <2>6. ASSUME NEW p \in AllPoints PROVE PointInv(p)'
    <3>1. LastTold(p)' /\ (Waiting(p)' <=> Waiting(p))
      BY <1>0, <2>3, ToldSame
    <3>2. CASE p = q
      <4>1. p \in excused' \/ Commanded(p)'
        BY <1>0, <2>2, <2>3, <3>2, CommandEnters DEF Commanded
      <4>2. MuteExcused(p)'
        BY <1>0, <2>3 DEF MuteExcused
      <4> QED
        BY <3>1, <4>1, <4>2 DEF PointInv, Even
    <3>3. CASE p # q
      <4>1. Commanded(p) => Commanded(p)'
        BY <1>0, <2>2, <2>3, CommandEnters DEF Commanded
      <4> QED
        BY <1>0, <2>3, <2>4, <3>1, <3>3, <4>1, PointKeeps DEF PointKept
    <3> QED
      BY <3>2, <3>3
  <2> QED
    BY <2>5, <2>6 DEF IInv
<1>8. ASSUME KNX_DevWriteEntry PROVE IInv'
  <2>1. /\ writeQ # << >> /\ writeQ' = Tail(writeQ) /\ writing = None
        /\ UNCHANGED <<bound, bus, mbus, monitorQ, dropped, shadowed>>
    BY <1>8 DEF KNX_DevWriteEntry
  <2>2. PICK c : c = Head(writeQ)
    OBVIOUS
  <2>3. \/ /\ writing' \in Commands /\ writing'.pt = c.pt /\ c \in Commands /\ c.pt \in AllPoints
           /\ excused' = excused
           /\ cloud' = cloud \/ cloud' = [cloud EXCEPT ![c.pt] = c.val]
        \/ writing' = None /\ cloud' = cloud /\ excused' = excused \cup {c.pt}
        \/ c.pt = "mode" /\ writing' = None /\ cloud' = cloud /\ excused' = excused
    BY <1>0, <1>8, <2>2, ControlEffect
  <2>4. cloud' \in [AllPoints -> {0, 1, 2, None}] /\ \A p \in AllPoints : p # c.pt => cloud'[p] = cloud[p]
    <3>1. c \in Commands => c.val \in {0, 1, 2, None}
      BY DEF Commands, Values
    <3> QED
      BY <1>0, <2>3, <3>1 DEF DataType
  <2>5. /\ writeQ' \in Seq(Commands) /\ \A i \in DOMAIN writeQ' : Meant(writeQ'[i])
        /\ \A p : p # c.pt /\ Queued(p) => Queued(p)'
    BY <1>0, <2>1, <2>2, CommandLeaves
  <2>6. DataType'
    BY <1>0, <2>1, <2>3, <2>4, <2>5 DEF DataType
  <2>7. ASSUME NEW p \in AllPoints PROVE PointInv(p)'
    <3>1. LastTold(p)' /\ (Waiting(p)' <=> Waiting(p))
      BY <1>0, <2>1, ToldSame
    <3>2. CASE p = c.pt
      <4>1. p # "mode" /\ None \notin Commands
        BY DevicesAssumption
      <4>2. p \in excused' \/ Commanded(p)'
        BY <2>3, <3>2, <4>1 DEF Commanded
      <4>3. MuteExcused(p)'
        BY <1>0, <2>1, <2>3 DEF MuteExcused
      <4> QED
        BY <3>1, <4>2, <4>3 DEF PointInv, Even
    <3>3. CASE p # c.pt
      <4>1. Commanded(p) => Commanded(p)'
        BY <2>1, <2>5, <3>3 DEF Commanded
      <4>2. p \in excused => p \in excused'
        BY <2>3
      <4> QED
        BY <1>0, <2>1, <2>4, <3>1, <3>3, <4>1, <4>2, PointKeeps DEF PointKept
    <3> QED
      BY <3>2, <3>3
  <2> QED
    BY <2>6, <2>7 DEF IInv
\* A telegram of q tells a new state.
<1>9. ASSUME NEW q \in AllPoints, NEW v \in Values, bus' = [bus EXCEPT ![q] = v], Telegram(q, v),
             writing' = None \/ writing' = writing, writing # None /\ writing' = None => writing.pt = q,
             UNCHANGED <<bound, cloud, mbus, writeQ, excused, shadowed>>
      PROVE  IInv'
  <2>1. /\ monitorQ' \in Seq(Telegrams) /\ bus' \in [AllPoints -> Values]
        /\ \A p \in AllPoints :
             /\ LastTold(p)'
             /\ IF p = q THEN Waiting(p)' \/ p \in dropped'
                         ELSE (Waiting(p)' <=> Waiting(p)) /\ bus'[p] = bus[p] /\ (p \in dropped' <=> p \in dropped)
    BY <1>0, <1>9, TelegramEffect
  <2>2. DataType'
    BY <1>0, <1>9, <2>1 DEF DataType
  <2>3. ASSUME NEW p \in AllPoints PROVE PointInv(p)'
    <3>1. CASE p = q
      <4>1. MuteExcused(p)'
        BY <1>0, <1>9 DEF MuteExcused
      <4> QED
        BY <2>1, <3>1, <4>1 DEF PointInv, Even
    <3>2. CASE p # q
      <4>1. Commanded(p) => Commanded(p)'
        BY <1>9, <3>2 DEF Commanded, Queued
      <4> QED
        BY <1>0, <1>9, <2>1, <3>2, <4>1, PointKeeps DEF PointKept
    <3> QED
      BY <3>1, <3>2
  <2> QED
    BY <2>2, <2>3 DEF IInv
<1>10. ASSUME NEW q \in AllPoints, NEW v \in Values, Press(q, v) PROVE IInv'
  <2>1. writing' = writing /\ UNCHANGED <<bound, cloud, mbus, writeQ, excused, shadowed>>
    BY <1>10 DEF Press
  <2>2. bus' = [bus EXCEPT ![q] = v] /\ Telegram(q, v)
    BY <1>10 DEF Press
  <2> QED
    BY <1>9, <2>1, <2>2
<1>11. ASSUME Send PROVE IInv'
  <2>1. /\ writing # None /\ writing' = None /\ writing \in Commands /\ writing.pt \in AllPoints
        /\ UNCHANGED <<bound, cloud, mbus, writeQ, shadowed>>
    BY <1>0, <1>11 DEF Send, DataType
  <2>2. writing.val \in Values
    BY <2>1 DEF Commands
  <2>3. CASE bus' = [bus EXCEPT ![writing.pt] = writing.val] /\ Telegram(writing.pt, writing.val) /\ UNCHANGED excused
    BY <1>9, <2>1, <2>2, <2>3
  <2>4. CASE excused' = excused \cup {writing.pt} /\ UNCHANGED <<bus, monitorQ, dropped>>
    <3>1. DataType'
      BY <1>0, <2>1, <2>4 DEF DataType
    <3>2. ASSUME NEW p \in AllPoints PROVE PointInv(p)'
      <4>1. LastTold(p)' /\ (Waiting(p)' <=> Waiting(p))
        BY <1>0, <2>4, ToldSame
      <4>2. Commanded(p) => Commanded(p)' \/ p \in excused'
        BY <2>1, <2>4 DEF Commanded, Queued
      <4> QED
        BY <1>0, <2>1, <2>4, <4>1, <4>2, PointKeeps DEF PointKept
    <3> QED
      BY <3>1, <3>2 DEF IInv
  <2> QED
    BY <1>11, <2>3, <2>4 DEF Send
<1>12. ASSUME NEW q \in AllPoints, HealthAnswered(q) PROVE IInv'
  <2> DEFINE t == [pt |-> q, val |-> bus[q]]
  <2>1. t \in Telegrams /\ t.pt = q /\ t.val = bus[q]
    BY <1>0 DEF Telegrams, DataType
  <2>2. /\ monitorQ' = Append(monitorQ, t) /\ dropped' = dropped \ {q}
        /\ UNCHANGED <<bound, bus, cloud, mbus, writeQ, writing, excused, shadowed>>
    BY <1>12 DEF HealthAnswered
  <2> HIDE DEF t
  <2>3. /\ monitorQ' \in Seq(Telegrams)
        /\ \A p \in AllPoints : LastTold(p)' /\ IF p = q THEN Waiting(p)' ELSE Waiting(p)' <=> Waiting(p)
    <3>1. \A p \in AllPoints \ {t.pt} : bus'[p] = bus[p] /\ (p \in dropped' <=> p \in dropped)
      BY <2>1, <2>2
    <3> QED
      BY <1>0, <1>12, <2>1, <2>2, <3>1, TelegramEnters
  <2>4. DataType'
    BY <1>0, <2>2, <2>3 DEF DataType
  <2>5. ASSUME NEW p \in AllPoints PROVE PointInv(p)'
    <3>1. MuteExcused(p)' /\ (Commanded(p)' <=> Commanded(p))
      BY <1>0, <2>2 DEF MuteExcused, Commanded, Queued
    <3>2. CASE p = q
      BY <2>3, <3>1, <3>2 DEF PointInv, Even
    <3>3. CASE p # q
      BY <1>0, <2>2, <2>3, <3>1, <3>3, PointKeeps DEF PointKept
    <3> QED
      BY <3>2, <3>3
  <2> QED
    BY <2>4, <2>5 DEF IInv
\* A telegram of q is taken.
<1>13. ASSUME NEW q \in AllPoints, monitorQ # << >>, Head(monitorQ).pt = q, monitorQ' = Tail(monitorQ),
              UNCHANGED <<bound, bus, writeQ, writing, dropped>>
       PROVE  /\ monitorQ' \in Seq(Telegrams) /\ Head(monitorQ).val \in Values
              /\ \A p \in AllPoints :
                   /\ LastTold(p)' /\ (Commanded(p)' <=> Commanded(p))
                   /\ p # q => (Waiting(p)' <=> Waiting(p))
                   /\ p = q /\ ~Waiting(p)' /\ p \notin dropped => Head(monitorQ).val = bus[p]
  <2>1. /\ monitorQ' \in Seq(Telegrams) /\ Head(monitorQ) \in Telegrams
        /\ \A p \in AllPoints :
             /\ LastTold(p)'
             /\ p # q => (Waiting(p)' <=> Waiting(p))
             /\ p = q /\ ~Waiting(p)' /\ p \notin dropped => Head(monitorQ).val = bus[p]
    BY <1>0, <1>13, TelegramLeaves
  <2> QED
    BY <1>13, <2>1 DEF Telegrams, Commanded, Queued
<1>14. ASSUME NEW q \in AllPoints, Reported(q) PROVE IInv'
  <2>1. /\ monitorQ # << >> /\ Head(monitorQ).pt = q /\ monitorQ' = Tail(monitorQ)
        /\ UNCHANGED <<bound, bus, writeQ, writing, dropped>>
    BY <1>14 DEF Reported
  <2>2. PICK v \in Values :
          /\ monitorQ' \in Seq(Telegrams) /\ v = Head(monitorQ).val
          /\ \A p \in AllPoints :
               /\ LastTold(p)' /\ (Commanded(p)' <=> Commanded(p))
               /\ p # q => (Waiting(p)' <=> Waiting(p))
               /\ p = q /\ ~Waiting(p)' /\ p \notin dropped => v = bus[p]
    BY <1>13, <2>1
  <2>3. /\ excused' = excused \ {q} /\ shadowed' = shadowed \ {q}
        /\ \/ /\ FateOf(Owner(q)) = "cloud" /\ cloud' = [cloud EXCEPT ![q] = CloudValue(Owner(q), v)] /\ mbus' = mbus
           \/ /\ FateOf(Owner(q)) = "mbus" /\ mbus' = [mbus EXCEPT ![q] = ForModbus(Owner(q), v)] /\ cloud' = cloud
    BY <1>14, <2>2 DEF Reported, HandsOn, Restored
  <2>4. /\ Owner(q) \in Devices
        /\ CloudValue(Owner(q), v) \in {0, 1, 2, None} /\ ForModbus(Owner(q), v) \in {0, 1, 2, None}
    BY OwnerOf, CloudValues
  <2>5. /\ cloud' \in [AllPoints -> {0, 1, 2, None}] /\ mbus' \in [AllPoints -> {0, 1, 2, None}]
        /\ \A p \in AllPoints \ {q} : cloud'[p] = cloud[p] /\ mbus'[p] = mbus[p]
    BY <1>0, <2>3, <2>4 DEF DataType
  <2>6. /\ ~Mute(Owner(q))
        /\ IF Owner(q) \in Master THEN cloud'[q] = CloudValue(Owner(q), v) ELSE mbus'[q] = ForModbus(Owner(q), v)
    BY <1>0, <2>3, <2>4, FateFacts DEF Mute, DataType
  <2>7. DataType'
    BY <1>0, <2>1, <2>2, <2>5 DEF DataType
  <2>8. ASSUME NEW p \in AllPoints PROVE PointInv(p)'
    <3>1. CASE p = q
      <4>1. MuteExcused(p)'
        BY <2>6, <3>1 DEF MuteExcused
      <4>2. Even(p)'
        BY <2>1, <2>2, <2>6, <3>1 DEF Even, InStep
      <4> QED
        BY <2>2, <4>1, <4>2 DEF PointInv
    <3>2. CASE p # q
      BY <1>0, <2>1, <2>2, <2>3, <2>5, <3>2, PointKeeps DEF PointKept
    <3> QED
      BY <3>1, <3>2
  <2> QED
    BY <2>7, <2>8 DEF IInv
<1>15. ASSUME NEW q \in AllPoints, NotReported(q) PROVE IInv'
  <2>1. /\ monitorQ # << >> /\ Head(monitorQ).pt = q /\ monitorQ' = Tail(monitorQ)
        /\ UNCHANGED <<bound, bus, writeQ, writing, dropped>> /\ UNCHANGED <<cloud, mbus>>
    BY <1>15 DEF NotReported, Withholds
  <2>2. /\ monitorQ' \in Seq(Telegrams)
        /\ \A p \in AllPoints : /\ LastTold(p)' /\ (Commanded(p)' <=> Commanded(p))
                                /\ p # q => (Waiting(p)' <=> Waiting(p))
    BY <1>13, <2>1
  <2>3. /\ q \in excused' \/ q \in shadowed'
        /\ \A p \in AllPoints \ {q} : (p \in excused' <=> p \in excused) /\ (p \in shadowed' <=> p \in shadowed)
    <3>1. CASE FateOf(Owner(q)) = "ignored" /\ UNCHANGED reasons
      <4>1. Mute(Owner(q))
        BY <3>1, OwnerOf, FateFacts
      <4> QED
        BY <1>0, <3>1, <4>1 DEF MuteExcused
    <3> QED
      BY <1>15, <3>1 DEF NotReported, Withholds
  <2>4. DataType'
    BY <1>0, <2>1, <2>2 DEF DataType
  <2>5. ASSUME NEW p \in AllPoints PROVE PointInv(p)'
    <3>1. CASE p = q
      BY <2>2, <2>3, <3>1 DEF PointInv, Even, MuteExcused
    <3>2. CASE p # q
      BY <1>0, <2>1, <2>2, <2>3, <3>2, PointKeeps DEF PointKept
    <3> QED
      BY <3>1, <3>2
  <2> QED
    BY <2>4, <2>5 DEF IInv
<1>16. ASSUME Restart PROVE IInv'
  <2>1. /\ monitorQ' = << >> /\ writeQ' = << >> /\ writing' = None /\ UNCHANGED <<bound, bus, cloud, mbus, shadowed>>
        /\ dropped' = dropped \cup {monitorQ[i].pt : i \in DOMAIN monitorQ}
        /\ excused' = excused \cup ({writeQ[i].pt : i \in DOMAIN writeQ} \cap AllPoints)
                              \cup (IF writing = None THEN {} ELSE {writing.pt})
    BY <1>16 DEF Restart
  <2>2. DataType'
    BY <1>0, <2>1 DEF DataType
  <2>3. ASSUME NEW p \in AllPoints PROVE PointInv(p)'
    <3>1. LastTold(p)'
      BY <2>1 DEF LastTold
    <3>2. Waiting(p) => p \in dropped'
      BY <2>1 DEF Waiting
    <3>3. Commanded(p) => p \in excused'
      BY <2>1 DEF Commanded, Queued
    <3> QED
      BY <1>0, <2>1, <3>1, <3>2, <3>3, PointKeeps DEF PointKept
  <2> QED
    BY <2>2, <2>3 DEF IInv
<1> QED
  BY <1>1, <1>2, <1>3, <1>4, <1>5, <1>6, <1>7, <1>8, <1>10, <1>11, <1>12, <1>14, <1>15, <1>16
     DEF Next, DevWriteStep, MonitorStep, HealthStep

\* Whenever no telegram and no command is under way, the cloud and the Modbus
\* devices are in step with the bus at every point whose last report or command
\* did not fail: the report, control, binding and heartbeat functions of
\* knxHandle.c in any order, with full queues and restarts.
THEOREM AtRestInStep == Spec => []AtRestSynced
<1>1. IInv => AtRestSynced
  <2> SUFFICES ASSUME IInv, AtRest, NEW p \in AllPoints \ (dropped \cup excused \cup shadowed) PROVE Synced(p)
    BY DEF AtRestSynced
  <2>1. ~Waiting(p) /\ ~Commanded(p)
    BY DEF AtRest, Waiting, Commanded, Queued
  <2>2. InStep(p)
    BY <2>1 DEF IInv, PointInv, Even
  <2> QED
    BY <2>2 DEF InStep, Synced
<1> QED
  BY <1>1, IInvInit, IInvStep, PTL DEF Spec

-----------------------------------------------------------------------------
(* The limits of the queues, and where the jobs are in the list *)

QueueInv ==
  /\ hbQ \in Seq(AllPoints) /\ Len(hbQ) <= HbQueueMax
  /\ Len(monitorQ) <= QueueMax /\ Len(writeQ) <= QueueMax
WalkInv ==
  /\ hbCount \in 0..SYNC_FIRST /\ hbIgnore \in [Devices -> 0..HB_IGNORE]
  /\ sync \in [1..SYNC_FIRST -> 0..Len(DevList)]
ReasonInv == dropped \subseteq AllPoints /\ excused \subseteq AllPoints /\ shadowed \subseteq AllPoints
PlainType ==
  /\ bActive \in BOOLEAN /\ mode \in [Smart -> Values] /\ saved \in [Smart -> Values]
  /\ inputs \in [commands : 0..MaxCommands, others : 0..MaxInputs]

LEMMA PartsMakeType == DataType /\ QueueInv /\ WalkInv /\ ReasonInv /\ PlainType => TypeOK
  BY DEF DataType, QueueInv, WalkInv, ReasonInv, PlainType, TypeOK

LEMMA PutFits ==
  ASSUME NEW S, NEW q \in Seq(S), Len(q) <= QueueMax, NEW x \in S
  PROVE  Put(q, x) \in Seq(S) /\ Len(Put(q, x)) <= QueueMax
<1>1. Append(q, x) \in Seq(S) /\ Len(Append(q, x)) = Len(q) + 1 /\ Len(q) \in Nat
  OBVIOUS
<1>2. QueueMax \in Nat
  BY DevicesAssumption
<1> QED
  BY <1>1, <1>2 DEF Put

LEMMA TailFits ==
  ASSUME NEW S, NEW q \in Seq(S), q # << >>, NEW n \in Nat, Len(q) <= n
  PROVE  Tail(q) \in Seq(S) /\ Len(Tail(q)) <= n /\ Head(q) \in S
  OBVIOUS

\* PutAll takes as much of a list of points as there is room for.
LEMMA PutAllFits ==
  ASSUME QueueInv, NEW s \in Seq(AllPoints)
  PROVE  PutAll(s) \in Seq(AllPoints) /\ Len(PutAll(s)) <= HbQueueMax
<1>1. Len(hbQ) \in Nat /\ Len(s) \in Nat /\ HbQueueMax \in Nat
  BY DevicesAssumption DEF QueueInv
<1> DEFINE n == IF Len(s) < Room THEN Len(s) ELSE Room
<1>2. Room \in Nat /\ Len(hbQ) + Room = HbQueueMax
  BY <1>1 DEF Room, QueueInv
<1>3. n \in Nat /\ n <= Room /\ n <= Len(s)
  BY <1>1, <1>2
<1> HIDE DEF n
<1>4. \A i \in 1..n : s[i] \in AllPoints
  BY <1>1, <1>3
<1>5. SubSeq(s, 1, n) \in Seq(AllPoints) /\ Len(SubSeq(s, 1, n)) = n
  BY <1>1, <1>3, <1>4
<1>6. /\ hbQ \o SubSeq(s, 1, n) \in Seq(AllPoints)
      /\ Len(hbQ \o SubSeq(s, 1, n)) = Len(hbQ) + n
  BY <1>5 DEF QueueInv
<1>7. PutAll(s) = hbQ \o SubSeq(s, 1, n)
  BY DEF PutAll, n
<1> QED
  BY <1>1, <1>2, <1>3, <1>6, <1>7

\* The lists of points that are read
LEMMA ReadPoints == \A d \in Devices : Points[d] \in Seq(AllPoints) /\ Asked(d) \in Seq(AllPoints)
<1> SUFFICES ASSUME NEW d \in Devices PROVE Points[d] \in Seq(AllPoints) /\ Asked(d) \in Seq(AllPoints)
  OBVIOUS
<1>1. Points[d] \in Seq(PointsOf(d)) /\ Points[d] # << >> /\ PointsOf(d) \subseteq AllPoints
  BY DevicesAssumption DEF AllPoints
<1>2. Points[d] \in Seq(AllPoints)
  BY <1>1
<1>3. First(d) \in AllPoints
  BY <1>1, <1>2 DEF First
<1> QED
  BY <1>2, <1>3 DEF Asked

LEMMA QueueStep == DataType /\ QueueInv /\ Next => QueueInv'
<1> SUFFICES ASSUME DataType, QueueInv, Next PROVE QueueInv'
  OBVIOUS
<1> DEFINE OthersFit == hbQ \in Seq(AllPoints) /\ Len(hbQ) <= HbQueueMax
           MonitorFits == Len(monitorQ) <= QueueMax
           WriteFits == Len(writeQ) <= QueueMax
<1>0. /\ OthersFit /\ MonitorFits /\ WriteFits /\ monitorQ \in Seq(Telegrams) /\ writeQ \in Seq(Commands)
      /\ QueueMax \in Nat /\ HbQueueMax \in Nat /\ Len(<< >>) <= QueueMax /\ Len(<< >>) <= HbQueueMax
      /\ << >> \in Seq(AllPoints)
  BY DevicesAssumption DEF QueueInv, DataType
<1>1. ASSUME OthersFit', MonitorFits', WriteFits' PROVE QueueInv'
  BY <1>1 DEF QueueInv
<1>2. ASSUME NEW q \in AllPoints, NEW v \in Values, Telegram(q, v) PROVE MonitorFits'
  <2>1. [pt |-> q, val |-> v] \in Telegrams
    BY DEF Telegrams
  <2> QED
    BY <1>0, <1>2, <2>1, PutFits DEF Telegram
<1>3. ASSUME OnlineStatusChanged \/ Knx_DevBind \/ Knx_DevUnbind PROVE QueueInv'
  BY <1>0, <1>1, <1>3 DEF OnlineStatusChanged, Knx_DevBind, Knx_DevUnbind
<1>4. ASSUME Restart PROVE QueueInv'
  BY <1>0, <1>1, <1>4 DEF Restart
<1>5. ASSUME NEW d \in Devices, NEW v \in Values, ModeCommand(d, v) \/ \E p \in PointsOf(d) : Command(d, p, v)
      PROVE  QueueInv'
  <2>1. PICK p \in AllPoints \cup {"mode"} :
          writeQ' = Put(writeQ, [dev |-> d, pt |-> p, val |-> v]) /\ UNCHANGED <<monitorQ, hbQ>>
    BY <1>5, OwnerOf DEF ModeCommand, Command
  <2>2. [dev |-> d, pt |-> p, val |-> v] \in Commands
    BY <2>1 DEF Commands
  <2> QED
    BY <1>0, <1>1, <2>1, <2>2, PutFits
<1>6. ASSUME NEW p \in AllPoints, NEW v \in Values, Press(p, v) PROVE QueueInv'
  BY <1>0, <1>1, <1>2, <1>6 DEF Press
<1>7. ASSUME KNX_DevWriteEntry PROVE QueueInv'
  BY <1>0, <1>1, <1>7, TailFits DEF KNX_DevWriteEntry
<1>8. ASSUME Send PROVE QueueInv'
  <2>1. writing.pt \in AllPoints /\ writing.val \in Values
    BY <1>8 DEF Send, DataType, Commands
  <2> QED
    BY <1>0, <1>1, <1>2, <1>8, <2>1 DEF Send
<1>9. ASSUME MonitorStep PROVE QueueInv'
  BY <1>0, <1>1, <1>9, TailFits DEF MonitorStep, Reported, NotReported
<1>10. ASSUME HealthFails PROVE QueueInv'
  BY <1>0, <1>1, <1>10, TailFits DEF HealthFails
<1>11. ASSUME NEW p \in AllPoints, HealthAnswered(p) PROVE QueueInv'
  <2>1. [pt |-> p, val |-> bus[p]] \in Telegrams
    BY DEF DataType, Telegrams
  <2>2. monitorQ' = Put(monitorQ, [pt |-> p, val |-> bus[p]])
    BY <1>11 DEF HealthAnswered, Put
  <2> QED
    BY <1>0, <1>1, <1>11, <2>1, <2>2, PutFits, TailFits DEF HealthAnswered
<1>12. ASSUME NEW d \in Devices, Heartbeat(d) PROVE QueueInv'
  BY <1>0, <1>1, <1>12, ReadPoints, PutAllFits DEF Heartbeat, SyncDevStatus, Knx_RequestHB
<1>13. ASSUME NEW j \in 1..SYNC_FIRST, KNX_DevStateSync(j) PROVE QueueInv'
  <2>1. \/ hbQ' = hbQ
        \/ DevList[sync[j]] \in Devices /\ hbQ' = PutAll(Points[DevList[sync[j]]])
    BY <1>13, DevicesAssumption DEF KNX_DevStateSync
  <2> QED
    BY <1>0, <1>1, <1>13, <2>1, ReadPoints, PutAllFits DEF KNX_DevStateSync
<1> QED
  BY <1>3, <1>4, <1>5, <1>6, <1>7, <1>8, <1>9, <1>10, <1>11, <1>12, <1>13 DEF Next, DevWriteStep, HealthStep

\* A job stays within the list, and no more jobs are started than there are places.
LEMMA WalkStep == DataType /\ WalkInv /\ Next => WalkInv'
<1> SUFFICES ASSUME DataType, WalkInv, Next PROVE WalkInv'
  OBVIOUS
<1>0. /\ SYNC_FIRST \in Nat /\ HB_IGNORE \in Nat /\ Len(DevList) \in Nat
      /\ DOMAIN DevList = 1..Len(DevList) /\ Master \subseteq Devices
  BY DevicesAssumption
<1>1. ASSUME UNCHANGED heartbeat PROVE WalkInv'
  BY <1>1 DEF WalkInv
<1>2. ASSUME Restart PROVE WalkInv'
  BY <1>0, <1>2 DEF Restart, WalkInv
<1>3. ASSUME NEW d \in Devices, SyncDevStatus(d) PROVE WalkInv'
  <2>1. Len(DevList) >= 1
    BY <1>0, <1>3 DEF Devices
  <2>2. hbCount' \in 0..SYNC_FIRST /\ hbIgnore' = hbIgnore
    BY <1>0, <1>3 DEF SyncDevStatus, WalkInv
  <2>3. sync' \in [1..SYNC_FIRST -> 0..Len(DevList)]
    BY <1>0, <1>3, <2>1 DEF SyncDevStatus, WalkInv
  <2> QED
    BY <2>2, <2>3 DEF WalkInv
<1>4. ASSUME NEW d \in Devices, Knx_RequestHB(d) PROVE WalkInv'
  <2>1. hbIgnore' \in [Devices -> 0..HB_IGNORE]
    BY <1>0, <1>4 DEF Knx_RequestHB, WalkInv
  <2> QED
    BY <1>4, <2>1 DEF Knx_RequestHB, WalkInv
<1>5. ASSUME NEW j \in 1..SYNC_FIRST, KNX_DevStateSync(j) PROVE WalkInv'
  <2>1. sync[j] \in 1..Len(DevList)
    BY <1>0, <1>5 DEF KNX_DevStateSync, WalkInv
  <2>2. sync' \in [1..SYNC_FIRST -> 0..Len(DevList)]
    BY <1>0, <1>5, <2>1 DEF KNX_DevStateSync, WalkInv
  <2> QED
    BY <1>5, <2>2 DEF KNX_DevStateSync, WalkInv
<1>6. ASSUME NEW d \in Devices, NEW v \in Values, ModeCommand(d, v) \/ \E p \in PointsOf(d) : Command(d, p, v)
      PROVE  UNCHANGED heartbeat
  BY <1>6 DEF ModeCommand, Command
<1>7. ASSUME OnlineStatusChanged \/ Knx_DevBind \/ Knx_DevUnbind \/ DevWriteStep \/ MonitorStep \/ HealthStep
      PROVE  UNCHANGED heartbeat
  BY <1>7 DEF OnlineStatusChanged, Knx_DevBind, Knx_DevUnbind, DevWriteStep, KNX_DevWriteEntry, Send,
              MonitorStep, Reported, NotReported, HealthStep, HealthFails, HealthAnswered
<1>8. ASSUME NEW p \in AllPoints, NEW v \in Values, Press(p, v) PROVE UNCHANGED heartbeat
  BY <1>8 DEF Press
<1> QED
  BY <1>1, <1>2, <1>3, <1>4, <1>5, <1>6, <1>7, <1>8 DEF Next, Heartbeat

\* Only points of the list are dropped, excused or shadowed.
LEMMA ReasonStep == DataType /\ ReasonInv /\ Next => ReasonInv'
<1> SUFFICES ASSUME DataType, ReasonInv, Next PROVE ReasonInv'
  OBVIOUS
<1> USE DEF ReasonInv
<1>1. ASSUME UNCHANGED <<dropped, excused, shadowed>> PROVE ReasonInv'
  BY <1>1
<1>2. ASSUME NEW q \in AllPoints, NEW v \in Values, Telegram(q, v) PROVE dropped' \subseteq AllPoints
  BY <1>2 DEF Telegram
<1>3. ASSUME OnlineStatusChanged \/ Knx_DevBind \/ HealthFails PROVE ReasonInv'
  BY <1>1, <1>3 DEF OnlineStatusChanged, Knx_DevBind, HealthFails
<1>4. ASSUME Knx_DevUnbind PROVE ReasonInv'
  <2>1. PICK gone \in SUBSET bound \ {{}} : excused' = excused \cup UNION {PointsOf(d) : d \in gone}
    BY <1>4 DEF Knx_DevUnbind
  <2>2. gone \subseteq Devices
    BY <2>1, DevicesAssumption DEF DataType
  <2>3. UNION {PointsOf(d) : d \in gone} \subseteq AllPoints
    BY <2>2 DEF AllPoints
  <2> QED
    BY <1>4, <2>1, <2>3 DEF Knx_DevUnbind
<1>5. ASSUME Restart PROVE ReasonInv'
  <2>1. /\ \A i \in DOMAIN monitorQ : monitorQ[i].pt \in AllPoints
        /\ writing # None => writing.pt \in AllPoints
    <3>1. \A i \in DOMAIN monitorQ : monitorQ[i] \in Telegrams
      BY DEF DataType
    <3> QED
      BY <3>1 DEF DataType, Telegrams
  <2> QED
    BY <1>5, <2>1 DEF Restart
<1>6. ASSUME NEW d \in Devices, NEW v \in Values, ModeCommand(d, v) PROVE ReasonInv'
  BY <1>1, <1>6 DEF ModeCommand
<1>7. ASSUME NEW d \in Devices, NEW v \in Values, NEW p \in PointsOf(d), Command(d, p, v) PROVE ReasonInv'
  <2>1. p \in AllPoints
    BY OwnerOf
  <2> QED
    BY <1>7, <2>1 DEF Command
<1>8. ASSUME NEW p \in AllPoints, NEW v \in Values, Press(p, v) PROVE ReasonInv'
  BY <1>2, <1>8 DEF Press
<1>9. ASSUME KNX_DevWriteEntry PROVE ReasonInv'
  <2> DEFINE c == Head(writeQ)
  <2>1. Meant(c) /\ c \in Commands
    BY <1>9 DEF KNX_DevWriteEntry, DataType
  <2>2. c.pt # "mode" => c.pt \in AllPoints
    BY <2>1, OwnerOf DEF Meant, Commands
  <2>3. Kind[c.dev] # "smart" => c.pt \in AllPoints
    BY <2>1, OwnerOf DEF Meant, Commands
  <2>4. excused' = excused \/ (excused' = excused \cup {c.pt} /\ c.pt \in AllPoints)
    BY <1>9, <2>2, <2>3 DEF KNX_DevWriteEntry, Knx_AirconditionCtrl, Knx_VentilationCtrl, Knx_FloorHeatingCtrl,
       Knx_PanelCtrl, Knx_SmartPanelCtrl, Knx_DimmerCtrl, Knx_CurtainCtrl, ReportThenSend, JustSend
  <2> QED
    BY <1>9, <2>4 DEF KNX_DevWriteEntry
<1>10. ASSUME Send PROVE ReasonInv'
  <2>1. writing.pt \in AllPoints /\ writing.val \in Values
    BY <1>10 DEF Send, DataType, Commands
  <2> QED
    BY <1>2, <1>10, <2>1 DEF Send
<1>11. ASSUME NEW p \in AllPoints, Reported(p) \/ NotReported(p) PROVE ReasonInv'
  BY <1>11 DEF Reported, NotReported, HandsOn, Withholds, Restored
<1>12. ASSUME NEW p \in AllPoints, HealthAnswered(p) PROVE ReasonInv'
  BY <1>12 DEF HealthAnswered
<1>13. ASSUME NEW d \in Devices, Heartbeat(d) PROVE ReasonInv'
  BY <1>1, <1>13 DEF Heartbeat, SyncDevStatus, Knx_RequestHB
<1>14. ASSUME NEW j \in 1..SYNC_FIRST, KNX_DevStateSync(j) PROVE ReasonInv'
  BY <1>1, <1>14 DEF KNX_DevStateSync
<1> QED
  BY <1>3, <1>4, <1>5, <1>6, <1>7, <1>8, <1>9, <1>10, <1>11, <1>12, <1>13, <1>14
     DEF Next, DevWriteStep, MonitorStep, HealthStep

LEMMA InputCounts ==
  ASSUME PlainType, Input \/ CommandInput \/ UNCHANGED inputs
  PROVE  inputs' \in [commands : 0..MaxCommands, others : 0..MaxInputs]
<1>1. MaxCommands \in Nat /\ MaxInputs \in Nat
  BY DevicesAssumption
<1>2. /\ inputs.commands \in 0..MaxCommands /\ inputs.others \in 0..MaxInputs
      /\ inputs \in [commands : 0..MaxCommands, others : 0..MaxInputs]
  BY DEF PlainType
<1>3. CASE Input
  BY <1>1, <1>2, <1>3 DEF Input
<1>4. CASE CommandInput
  BY <1>1, <1>2, <1>4 DEF CommandInput
<1>5. CASE UNCHANGED inputs
  BY <1>2, <1>5
<1> QED
  BY <1>3, <1>4, <1>5

LEMMA PlainStep == DataType /\ PlainType /\ Next => PlainType'
<1> SUFFICES ASSUME DataType, PlainType, Next PROVE PlainType'
  OBVIOUS
<1>1. ASSUME UNCHANGED <<bActive, panels>>, Input \/ CommandInput \/ UNCHANGED inputs PROVE PlainType'
  BY <1>1, InputCounts DEF PlainType
<1>2. ASSUME OnlineStatusChanged PROVE PlainType'
  <2>1. bActive' \in BOOLEAN
    BY <1>2 DEF OnlineStatusChanged
  <2>2. Input \/ UNCHANGED inputs
    BY <1>2 DEF OnlineStatusChanged
  <2> QED
    BY <1>2, <2>1, <2>2, InputCounts DEF OnlineStatusChanged, PlainType
<1>3. ASSUME Restart PROVE PlainType'
  BY <1>3, InputCounts DEF Restart, PlainType
<1>4. ASSUME Knx_DevBind \/ Knx_DevUnbind \/ Send PROVE PlainType'
  BY <1>1, <1>4 DEF Knx_DevBind, Knx_DevUnbind, Send
<1>5. ASSUME NEW d \in Devices, NEW v \in Values, ModeCommand(d, v) \/ \E p \in PointsOf(d) : Command(d, p, v)
      PROVE  PlainType'
  BY <1>1, <1>5 DEF ModeCommand, Command
<1>6. ASSUME NEW p \in AllPoints, NEW v \in Values, Press(p, v) PROVE PlainType'
  BY <1>1, <1>6 DEF Press
<1>7. ASSUME KNX_DevWriteEntry PROVE PlainType'
  <2> DEFINE c == Head(writeQ)
  <2>1. c \in Commands /\ c.dev \in Devices /\ c.val \in Values
    <3>1. writeQ \in Seq(Commands) /\ writeQ # << >>
      BY <1>7 DEF KNX_DevWriteEntry, DataType
    <3>2. c \in Commands
      BY <3>1
    <3> QED
      BY <3>2 DEF Commands
  <2>2. UNCHANGED <<bActive, inputs>>
    BY <1>7 DEF KNX_DevWriteEntry
  <2>3. CASE UNCHANGED panels
    BY <1>1, <2>2, <2>3
  <2>4. CASE ~UNCHANGED panels
    <3>1. Knx_SmartPanelCtrl(c) /\ c.pt = "mode"
      BY <1>7, <2>4 DEF KNX_DevWriteEntry, Knx_AirconditionCtrl, Knx_VentilationCtrl, Knx_FloorHeatingCtrl,
         Knx_PanelCtrl, Knx_SmartPanelCtrl, Knx_DimmerCtrl, Knx_CurtainCtrl, ReportThenSend, JustSend
    <3>2. mode' = [mode EXCEPT ![c.dev] = c.val] /\ (saved' = [saved EXCEPT ![c.dev] = c.val] \/ saved' = saved)
      BY <3>1 DEF Knx_SmartPanelCtrl, UpdateKnxSmartPanelMode
    <3>3. mode' \in [Smart -> Values] /\ saved' \in [Smart -> Values]
      BY <2>1, <3>2 DEF PlainType
    <3> QED
      BY <2>2, <3>3 DEF PlainType
  <2> QED
    BY <2>3, <2>4
<1>8. ASSUME MonitorStep \/ HealthStep PROVE PlainType'
  BY <1>1, <1>8 DEF MonitorStep, Reported, NotReported, HealthStep, HealthFails, HealthAnswered
<1>9. ASSUME NEW d \in Devices, Heartbeat(d) PROVE PlainType'
  BY <1>1, <1>9 DEF Heartbeat, SyncDevStatus, Knx_RequestHB
<1>10. ASSUME NEW j \in 1..SYNC_FIRST, KNX_DevStateSync(j) PROVE PlainType'
  BY <1>1, <1>10 DEF KNX_DevStateSync
<1> QED
  BY <1>2, <1>3, <1>4, <1>5, <1>6, <1>7, <1>8, <1>9, <1>10 DEF Next, DevWriteStep

\* The three queues keep within their limits, also where KNX_DevStateSync puts the
\* points of a whole device; a job never leaves the list of devices; and the
\* command in hand is never the one that only changes a mode.
THEOREM TypeCorrect == Spec => []TypeOK
<1> DEFINE TInv == IInv /\ QueueInv /\ WalkInv /\ ReasonInv /\ PlainType
<1>1. Init => TInv
  <2> SUFFICES ASSUME Init PROVE QueueInv /\ WalkInv /\ ReasonInv /\ PlainType
    BY IInvInit
  <2>1. /\ SYNC_FIRST \in Nat /\ HB_IGNORE \in Nat /\ Len(DevList) \in Nat /\ QueueMax \in Nat /\ HbQueueMax \in Nat
        /\ MaxCommands \in Nat /\ MaxInputs \in Nat
    BY DevicesAssumption
  <2>2. QueueInv /\ WalkInv
    BY <2>1 DEF Init, QueueInv, WalkInv
  <2>3. ReasonInv
    BY DEF Init, ReasonInv
  <2>4. inputs \in [commands : 0..MaxCommands, others : 0..MaxInputs]
    BY <2>1 DEF Init
  <2>5. PlainType
    BY <2>4 DEF Init, PlainType
  <2> QED
    BY <2>2, <2>3, <2>5
<1>2. TInv /\ [Next]_vars => TInv'
  <2>1. ASSUME TInv, Next PROVE TInv'
    BY <2>1, IInvStep, QueueStep, WalkStep, ReasonStep, PlainStep DEF IInv
  <2>2. ASSUME TInv, UNCHANGED vars PROVE TInv'
    <3>1. (QueueInv /\ WalkInv /\ ReasonInv /\ PlainType)'
      BY <2>2 DEF vars, QueueInv, WalkInv, ReasonInv, PlainType
    <3> QED
      BY <2>2, <3>1, IInvStep
  <2> QED
    BY <2>1, <2>2
<1>3. TInv => TypeOK
  BY PartsMakeType DEF IInv
<1> QED
  BY <1>1, <1>2, <1>3, PTL DEF Spec
=============================================================================
