-------------------------- MODULE KnxMonitorProofs --------------------------
(***************************************************************************)
(* InOrderOnce and QuietBeforeReport of KnxMonitor, for any groups, table, *)
(* expiries and limit of the queue, and any number of telegrams.           *)
(***************************************************************************)
EXTENDS KnxMonitor, SequenceTheorems, TLAPS

USE KnxAssumption, NoDataAssumption
USE DEF table, debouncer, monitor

-----------------------------------------------------------------------------
(* Types *)

LEMMA TypeInit == Init => TypeOK
<1> SUFFICES ASSUME Init PROVE TypeOK
  OBVIOUS
<1>1. queue \in Seq(Telegrams) /\ Len(queue) <= QueueMax
  BY DEF Init
<1>2. sent \in [Groups -> 0..MaxTelegrams] /\ reported \in [Groups -> 0..MaxTelegrams]
  BY DEF Init
<1>3. /\ value \in [Debounced -> 0..MaxTelegrams] /\ bDone \in [Debounced -> BOOLEAN]
      /\ age \in [Debounced -> Nat]
  BY DEF Init
<1>4. scanning \in BOOLEAN /\ scan \subseteq Debounced /\ refused \subseteq Groups
  BY DEF Init
<1> QED
  BY <1>1, <1>2, <1>3, <1>4 DEF Init, TypeOK

\* KNX_ParsePacket accepts no repetition, so every accepted telegram is new.
LEMMA AcceptedIsNew == ASSUME NEW line \in Lines, KNX_ParsePacket(line) = 0 PROVE ~line.repeated
  BY DEF Lines, KNX_ParsePacket

LEMMA ReceiveEffect ==
  ASSUME TypeOK, NEW g \in Groups, Receive(g)
  PROVE  /\ pData = NoData /\ sent[g] + 1 \in 1..MaxTelegrams
         /\ sent' = [sent EXCEPT ![g] = sent[g] + 1] /\ pData' = [grp |-> g, n |-> sent[g] + 1]
         /\ pData' \in Telegrams
         /\ UNCHANGED <<table, debouncer, queue, monitor, refused>>
<1>1. PICK line \in Lines :
        LET n == IF line.repeated THEN sent[g] ELSE sent[g] + 1 IN
        /\ KNX_ParsePacket(line) = 0 /\ n \in 1..MaxTelegrams
        /\ sent' = [sent EXCEPT ![g] = n] /\ pData' = [grp |-> g, n |-> n]
  BY DEF Receive
<1>2. ~line.repeated
  BY <1>1, AcceptedIsNew
<1> QED
  BY <1>1, <1>2 DEF Receive, Telegrams

\* What queue_put does: the telegram becomes the last one, or is refused.
Put(t) ==
  \/ queue' = queue
  \/ /\ queue' = Append(queue, t) /\ Len(queue) < QueueMax /\ Len(queue') = Len(queue) + 1
     /\ DOMAIN queue' = 1..(Len(queue) + 1) /\ queue'[Len(queue) + 1] = t
     /\ \A i \in DOMAIN queue : i \in 1..Len(queue) /\ queue'[i] = queue[i]

LEMMA PutEffect ==
  ASSUME queue \in Seq(Telegrams), NEW t \in Telegrams,
         queue' = IF Len(queue) < QueueMax THEN Append(queue, t) ELSE queue
  PROVE  Put(t)
  BY DEF Put

\* The item that ScanItem visits has its last value put, or never had one.
LEMMA ScanItemEffect ==
  ASSUME TypeOK, NEW g \in Debounced, ScanItem(g)
  PROVE  /\ scanning /\ g \in scan /\ scan' = scan \ {g} /\ bDone' = [bDone EXCEPT ![g] = TRUE]
         /\ \/ value[g] = 0 /\ UNCHANGED <<queue, refused>>
            \/ /\ value[g] # 0 /\ [grp |-> g, n |-> value[g]] \in Telegrams
               /\ Put([grp |-> g, n |-> value[g]]) /\ refused' \subseteq Groups
         /\ UNCHANGED <<sent, pData, value, age, scanning, monitor>>
<1> DEFINE t == [grp |-> g, n |-> value[g]]
<1>1. /\ scanning /\ g \in scan /\ scan' = scan \ {g} /\ bDone' = [bDone EXCEPT ![g] = TRUE]
      /\ UNCHANGED <<sent, pData, value, age, scanning, monitor>>
  BY DEF ScanItem, NextItem
<1>2. CASE value[g] = 0
  BY <1>1, <1>2 DEF ScanItem
<1>3. CASE value[g] # 0
  <2>1. g \in Groups /\ value[g] \in 1..MaxTelegrams
    BY <1>3 DEF TypeOK, Debounced
  <2>2. t \in Telegrams /\ t.grp = g
    BY <2>1 DEF Telegrams
  <2>3. QueuePut(t)
    BY <1>3 DEF ScanItem
  <2>4. Put(t) /\ refused' \subseteq Groups
    BY <2>1, <2>2, <2>3, PutEffect DEF QueuePut, TypeOK
  <2> QED
    BY <1>1, <1>3, <2>2, <2>4
<1> QED
  BY <1>2, <1>3

LEMMA TypeStep == TypeOK /\ [Next]_vars => TypeOK'
<1> SUFFICES ASSUME TypeOK, [Next]_vars PROVE TypeOK'
  OBVIOUS
<1>0. Debounced \subseteq Groups
  BY DEF Debounced
<1>1. ASSUME NEW g \in Groups, Receive(g) PROVE TypeOK'
  <2>1. sent' \in [Groups -> 0..MaxTelegrams]
    <3>1. sent[g] + 1 \in 0..MaxTelegrams /\ sent' = [sent EXCEPT ![g] = sent[g] + 1]
      BY <1>1, ReceiveEffect
    <3> QED
      BY <3>1 DEF TypeOK
  <2> QED
    BY <1>1, <2>1, ReceiveEffect DEF TypeOK
<1>2. ASSUME NEW g \in Debounced, kv_update(g) PROVE TypeOK'
  <2>1. pData.n \in 0..MaxTelegrams
    BY <1>2 DEF kv_update, TypeOK, Telegrams
  <2> QED
    BY <1>2, <2>1 DEF kv_update, TypeOK
<1>3. ASSUME Forward PROVE TypeOK'
  <2>1. pData \in Telegrams /\ pData.grp \in Groups
    BY <1>3 DEF Forward, TypeOK, Telegrams
  <2>2. queue' \in Seq(Telegrams) /\ Len(queue') <= QueueMax
    BY <1>3, <2>1 DEF Forward, TypeOK
  <2> QED
    BY <1>3, <2>1, <2>2 DEF Forward, TypeOK
<1>4. ASSUME ScanBegins PROVE TypeOK'
  BY <1>4 DEF ScanBegins, TypeOK
<1>5. ASSUME NEW g \in Debounced, ScanItem(g) PROVE TypeOK'
  <2>1. queue' \in Seq(Telegrams) /\ Len(queue') <= QueueMax
    <3>1. CASE queue' = queue
      BY <3>1 DEF TypeOK
    <3>2. ASSUME NEW t \in Telegrams, queue' = Append(queue, t), Len(queue) < QueueMax
          PROVE  queue' \in Seq(Telegrams) /\ Len(queue') <= QueueMax
      BY <3>2 DEF TypeOK
    <3> QED
      BY <1>5, <3>1, <3>2, ScanItemEffect DEF Put
  <2> QED
    BY <1>5, <2>1, ScanItemEffect DEF TypeOK
<1>6. ASSUME ScanEnds PROVE TypeOK'
  BY <1>6 DEF ScanEnds, TypeOK
<1>7. ASSUME Tick PROVE TypeOK'
  BY <1>7 DEF Tick, TypeOK
<1>8. ASSUME MonitorTakes PROVE TypeOK'
  <2>1. Head(queue) \in Telegrams /\ Tail(queue) \in Seq(Telegrams) /\ Len(Tail(queue)) <= QueueMax
    BY <1>8 DEF MonitorTakes, TypeOK
  <2> QED
    BY <1>8, <2>1 DEF MonitorTakes, TypeOK
<1>9. ASSUME MonitorReports PROVE TypeOK'
  <2>1. handling.grp \in Groups /\ handling.n \in 0..MaxTelegrams
    BY <1>9 DEF MonitorReports, TypeOK, Telegrams
  <2> QED
    BY <1>9, <2>1 DEF MonitorReports, TypeOK
<1>10. CASE UNCHANGED vars
  BY <1>10 DEF vars, TypeOK
<1> QED
  BY <1>1, <1>2, <1>3, <1>4, <1>5, <1>6, <1>7, <1>8, <1>9, <1>10
     DEF Next, BusMonitorStep, DebounceStep, DevMonitorStep

\* The threads of KNX reception keep their types, and the queue its limit.
THEOREM TypeCorrect == Spec => []TypeOK
  BY TypeInit, TypeStep, PTL DEF Spec

-----------------------------------------------------------------------------
(* The pass of KNX_DevDebounce *)

\* An item still to be visited is due: nobody touches an item while the pass
\* holds kv_lock.
ScanInv == (scan # {} => scanning) /\ \A g \in scan : ~bDone[g] /\ age[g] > Expire[g]

LEMMA ScanStep == TypeOK /\ ScanInv /\ [Next]_vars => ScanInv'
<1> SUFFICES ASSUME TypeOK, ScanInv, [Next]_vars PROVE ScanInv'
  OBVIOUS
<1>0. scan \subseteq Debounced /\ bDone \in [Debounced -> BOOLEAN] /\ age \in [Debounced -> Nat]
  BY DEF TypeOK
<1> USE <1>0 DEF ScanInv
<1>1. ASSUME NEW g \in Groups, Receive(g) PROVE ScanInv'
  BY <1>1 DEF Receive
<1>2. ASSUME NEW g \in Debounced, kv_update(g) PROVE ScanInv'
  BY <1>2 DEF kv_update
<1>3. ASSUME Forward \/ MonitorTakes \/ MonitorReports \/ ScanEnds PROVE ScanInv'
  BY <1>3 DEF Forward, MonitorTakes, MonitorReports, ScanEnds
<1>4. ASSUME ScanBegins PROVE ScanInv'
  BY <1>4 DEF ScanBegins, Due
<1>5. ASSUME NEW g \in Debounced, ScanItem(g) PROVE ScanInv'
  BY <1>5, ScanItemEffect
<1>6. ASSUME Tick PROVE ScanInv'
  <2>1. \A g \in Debounced : age[g] > Expire[g] => age'[g] > Expire[g]
    BY <1>6 DEF Tick
  <2> QED
    BY <1>6, <2>1 DEF Tick
<1>7. CASE UNCHANGED vars
  BY <1>7 DEF vars
<1> QED
  BY <1>1, <1>2, <1>3, <1>4, <1>5, <1>6, <1>7 DEF Next, BusMonitorStep, DebounceStep, DevMonitorStep

\* KNX_DevDebounce puts a value only when its group has been quiet for longer
\* than its expiry.
THEOREM QuietBeforeEveryReport == Spec => QuietBeforeReport
<1> DEFINE A == \A g \in Debounced : Len(queue') > Len(queue) /\ queue'[Len(queue')].grp = g
                                       => age[g] > Expire[g]
           I == TypeOK /\ ScanInv
<1>1. Init => I
  BY TypeInit DEF Init, ScanInv
<1>2. I /\ [Next]_vars => I'
  BY TypeStep, ScanStep
<1>3. I /\ [Next]_vars => [A]_vars
  <2> SUFFICES ASSUME I, Next, NEW g \in Debounced, Len(queue') > Len(queue), queue'[Len(queue')].grp = g
               PROVE  age[g] > Expire[g]
    BY DEF vars
  <2>0. queue \in Seq(Telegrams) /\ Len(queue) \in Nat /\ queue' # queue
    BY DEF TypeOK
  <2>1. ASSUME Forward PROVE FALSE
    <3>1. pData \in Telegrams /\ pData.grp \notin Debounced
      BY <2>1 DEF Forward, TypeOK
    <3>2. Put(pData)
      BY <2>0, <2>1, <3>1, PutEffect DEF Forward
    <3> QED
      BY <2>0, <3>1, <3>2 DEF Put
  <2>2. ASSUME NEW h \in Debounced, ScanItem(h) PROVE age[g] > Expire[g]
    <3>1. Put([grp |-> h, n |-> value[h]]) /\ h \in scan
      BY <2>0, <2>2, ScanItemEffect
    <3>2. h = g
      BY <2>0, <3>1 DEF Put
    <3> QED
      BY <3>1, <3>2 DEF ScanInv
  <2>3. ASSUME MonitorTakes PROVE FALSE
    BY <2>0, <2>3 DEF MonitorTakes
  <2> QED
    BY <2>0, <2>1, <2>2, <2>3
       DEF Next, BusMonitorStep, DebounceStep, DevMonitorStep, Receive, kv_update, ScanBegins, ScanEnds, Tick,
           MonitorReports
<1>4. QuietBeforeReport <=> [][A]_vars
  BY DEF QuietBeforeReport
<1> QED
  BY <1>1, <1>2, <1>3, <1>4, PTL DEF Spec

-----------------------------------------------------------------------------
(* The order along the pipeline *)

InHand(g) == handling # NoData /\ handling.grp = g
Mine(g, i) == i \in DOMAIN queue /\ queue[i].grp = g
Pending(g) == g \in Debounced /\ ~bDone[g] /\ value[g] # 0
Coming(g) == pData # NoData /\ pData.grp = g

\* InOrderOnce place by place, and nothing on its way is newer than the bus: a
\* telegram that is received is then newer than everything.
AfterReported(g) ==
  /\ InHand(g) => reported[g] < handling.n
  /\ \A i \in DOMAIN queue : Mine(g, i) => reported[g] < queue[i].n
  /\ Pending(g) => reported[g] < value[g]
  /\ Coming(g) => reported[g] < pData.n
AfterHand(g) ==
  InHand(g) => /\ \A i \in DOMAIN queue : Mine(g, i) => handling.n < queue[i].n
               /\ Pending(g) => handling.n < value[g]
               /\ Coming(g) => handling.n < pData.n
AfterQueue(g) ==
  \A i \in DOMAIN queue : Mine(g, i) =>
    /\ \A j \in DOMAIN queue : i < j /\ Mine(g, j) => queue[i].n < queue[j].n
    /\ Pending(g) => queue[i].n < value[g]
    /\ Coming(g) => queue[i].n < pData.n
AfterTable(g) == Pending(g) /\ Coming(g) => value[g] < pData.n
UpToBus(g) ==
  /\ reported[g] <= sent[g]
  /\ InHand(g) => handling.n <= sent[g]
  /\ \A i \in DOMAIN queue : Mine(g, i) => queue[i].n <= sent[g]
  /\ Pending(g) => value[g] <= sent[g]
  /\ Coming(g) => pData.n <= sent[g]
Order(g) == AfterReported(g) /\ AfterHand(g) /\ AfterQueue(g) /\ AfterTable(g) /\ UpToBus(g)
OrderInv == \A g \in Groups : Order(g)

LEMMA OrderStep == TypeOK /\ ScanInv /\ OrderInv /\ [Next]_vars => OrderInv'
<1> SUFFICES ASSUME TypeOK, ScanInv, OrderInv, [Next]_vars, NEW h \in Groups PROVE Order(h)'
  BY DEF OrderInv
<1>0. /\ Order(h) /\ Debounced \subseteq Groups
      /\ sent \in [Groups -> Nat] /\ reported \in [Groups -> Nat]
      /\ value \in [Debounced -> Nat] /\ bDone \in [Debounced -> BOOLEAN]
      /\ queue \in Seq(Telegrams) /\ \A i \in DOMAIN queue : queue[i].grp \in Groups /\ queue[i].n \in Nat
      /\ pData # NoData => pData \in Telegrams /\ pData.grp \in Groups /\ pData.n \in Nat
      /\ handling # NoData => handling.grp \in Groups /\ handling.n \in Nat
  <2>1. Order(h) /\ Debounced \subseteq Groups /\ bDone \in [Debounced -> BOOLEAN] /\ queue \in Seq(Telegrams)
    BY DEF OrderInv, TypeOK, Debounced
  <2>2. \A t \in Telegrams : t.grp \in Groups /\ t.n \in Nat
    BY DEF Telegrams
  <2>3. /\ sent \in [Groups -> Nat] /\ reported \in [Groups -> Nat]
        /\ value \in [Debounced -> Nat]
    BY DEF TypeOK
  <2>4. /\ \A i \in DOMAIN queue : queue[i] \in Telegrams
        /\ pData # NoData => pData \in Telegrams
        /\ handling # NoData => handling \in Telegrams
    BY DEF TypeOK
  <2> QED
    BY <2>1, <2>2, <2>3, <2>4
<1> USE <1>0 DEF Order, AfterReported, AfterHand, AfterQueue, AfterTable, UpToBus
<1>1. ASSUME NEW g \in Groups, Receive(g) PROVE Order(h)'
  <2>1. /\ pData = NoData /\ sent' = [sent EXCEPT ![g] = sent[g] + 1]
        /\ pData' = [grp |-> g, n |-> sent[g] + 1] /\ pData' # NoData
        /\ UNCHANGED <<value, bDone, queue, handling, reported>>
    BY <1>1, ReceiveEffect
  <2>2. /\ Coming(h)' => h = g /\ pData'.n = sent[h] + 1
        /\ sent'[h] = IF h = g THEN sent[h] + 1 ELSE sent[h]
    BY <2>1 DEF Coming
  <2>3. /\ InHand(h)' <=> InHand(h)
        /\ Pending(h)' <=> Pending(h)
        /\ \A i \in DOMAIN queue : Mine(h, i)' <=> Mine(h, i)
    BY <2>1 DEF InHand, Pending, Mine
  <2>a. UNCHANGED <<value, queue, handling, reported>>
    BY <2>1
  <2>b. /\ Coming(h)' => pData'.n = sent[h] + 1 /\ sent'[h] = sent[h] + 1
        /\ sent[h] \in Nat /\ sent'[h] \in Nat /\ sent[h] <= sent'[h]
    BY <2>2
  <2>c. /\ reported[h] \in Nat /\ (InHand(h) => handling.n \in Nat)
        /\ (Pending(h) => value[h] \in Nat)
        /\ \A i \in DOMAIN queue : queue[i].n \in Nat
    BY DEF InHand, Pending
  <2>d. AfterReported(h) /\ AfterHand(h) /\ AfterQueue(h) /\ UpToBus(h)
    OBVIOUS
  <2>4. AfterReported(h)'
    <3>1. Coming(h)' => reported'[h] < pData'.n
      BY ONLY <2>a, <2>b, <2>c, <2>d DEF UpToBus
    <3> QED
      BY ONLY <2>a, <2>3, <2>d, <3>1 DEF AfterReported
  <2>5. AfterTable(h)'
    BY ONLY <2>a, <2>b, <2>3, <2>c, <2>d DEF AfterTable, UpToBus
  <2>6. AfterHand(h)'
    <3>1. InHand(h)' /\ Coming(h)' => handling'.n < pData'.n
      BY ONLY <2>a, <2>b, <2>3, <2>c, <2>d DEF UpToBus
    <3> QED
      BY ONLY <2>a, <2>3, <2>d, <3>1 DEF AfterHand
  <2>7. AfterQueue(h)'
    BY <2>a, <2>b, <2>3
  <2>8. UpToBus(h)'
    BY ONLY <2>a, <2>b, <2>3, <2>c, <2>d DEF UpToBus
  <2> QED
    BY <2>4, <2>5, <2>6, <2>7, <2>8
<1>2. ASSUME NEW g \in Debounced, kv_update(g) PROVE Order(h)'
  <2>1. /\ pData # NoData /\ pData.grp = g /\ pData' = NoData
        /\ value' = [value EXCEPT ![g] = pData.n]
        /\ bDone' = [bDone EXCEPT ![g] = FALSE] /\ UNCHANGED <<sent, queue, handling, reported>>
    BY <1>2 DEF kv_update
  <2>2. /\ ~Coming(h)' /\ (InHand(h)' <=> InHand(h))
        /\ \A i \in DOMAIN queue : Mine(h, i)' <=> Mine(h, i)
    BY <2>1 DEF Coming, InHand, Mine
  <2>3. CASE h = g
    <3>1. Coming(h) /\ value'[h] = pData.n
      BY <2>1, <2>3 DEF Coming
    <3> QED
      BY <2>1, <2>2, <3>1
  <2>4. CASE h # g
    <3>1. Pending(h)' => Pending(h) /\ value'[h] = value[h]
      BY <2>1, <2>4 DEF Pending
    <3> QED
      BY <2>1, <2>2, <3>1
  <2> QED
    BY <2>3, <2>4
<1>3. ASSUME NEW t \in Telegrams, Put(t), UNCHANGED <<sent, handling, reported, value>>,
             pData' \in {pData, NoData}, \A g \in Debounced \ {t.grp} : bDone'[g] = bDone[g],
             \/ Coming(t.grp) /\ t = pData /\ pData' = NoData /\ t.grp \notin Debounced
             \/ Pending(t.grp) /\ t.n = value[t.grp] /\ ~Pending(t.grp)'
      PROVE  Order(h)'
  <2>0. PICK n \in Nat : n = Len(queue) /\ DOMAIN queue = 1..n
    OBVIOUS
  <2>1. /\ InHand(h)' <=> InHand(h)
        /\ Coming(h)' => Coming(h) /\ pData' = pData
        /\ Pending(h)' => Pending(h) /\ value'[h] = value[h]
    BY <1>3 DEF InHand, Coming, Pending
  <2>2. CASE queue' = queue
    <3>1. \A i \in DOMAIN queue : Mine(h, i)' <=> Mine(h, i)
      BY <2>2 DEF Mine
    <3> QED
      BY <1>3, <2>1, <2>2, <3>1
  <2>3. CASE queue' # queue
    <3>1. /\ DOMAIN queue' = 1..(n + 1) /\ queue'[n + 1] = t
          /\ \A i \in 1..n : queue'[i] = queue[i]
      BY <1>3, <2>0, <2>3 DEF Put
    <3>2. /\ \A i \in 1..n : Mine(h, i)' <=> Mine(h, i)
          /\ Mine(h, n + 1)' <=> t.grp = h
      <4>1. n + 1 \in 1..(n + 1) /\ \A i \in 1..n : i \in 1..(n + 1)
        OBVIOUS
      <4> QED
        BY <2>0, <3>1, <4>1 DEF Mine
    <3>3. \A i \in 1..(n + 1) : i \in 1..n \/ i = n + 1
      BY ONLY n \in Nat
    <3>4. CASE t.grp # h
      <4>1. \A i \in DOMAIN queue' : Mine(h, i)' => i \in 1..n /\ Mine(h, i) /\ queue'[i] = queue[i]
        BY <3>1, <3>2, <3>3, <3>4
      <4>2. UNCHANGED <<sent, handling, reported, value>>
        BY <1>3
      <4>3. AfterReported(h)' /\ AfterTable(h)' /\ UpToBus(h)'
        BY <2>0, <2>1, <4>1, <4>2
      <4>4. AfterHand(h)'
        BY <2>0, <2>1, <4>1, <4>2
      <4>5. AfterQueue(h)'
        BY <2>0, <2>1, <4>1, <4>2
      <4> QED
        BY <4>3, <4>4, <4>5
    <3>5. CASE t.grp = h
      <4>1. /\ reported[h] < t.n /\ t.n <= sent[h] /\ t.n \in Nat
            /\ InHand(h) => handling.n < t.n
            /\ \A i \in 1..n : Mine(h, i) => queue[i].n < t.n
        <5>1. CASE Coming(h) /\ t = pData
          BY <2>0, <5>1 DEF Coming
        <5>2. CASE Pending(h) /\ t.n = value[h]
          BY <2>0, <5>2 DEF Pending
        <5> QED
          BY <1>3, <3>5, <5>1, <5>2
      <4>2. ~Pending(h)' /\ (Coming(h)' => t.n < pData'.n)
        <5>1. CASE t = pData /\ pData' = NoData /\ h \notin Debounced
          BY <5>1 DEF Pending, Coming
        <5>2. CASE Pending(h) /\ t.n = value[h] /\ ~Pending(h)'
          BY <2>1, <5>2
        <5> QED
          BY <1>3, <3>5, <5>1, <5>2
      <4>3. AfterReported(h)'
        BY <1>3, <2>0, <2>1, <3>1, <3>2, <3>3, <4>1, <4>2
      <4>4. AfterHand(h)'
        BY <1>3, <2>0, <2>1, <3>1, <3>2, <3>3, <4>1, <4>2
      <4>5. AfterQueue(h)'
        <5> SUFFICES ASSUME NEW i \in 1..(n + 1), Mine(h, i)'
                     PROVE  /\ \A j \in 1..(n + 1) : i < j /\ Mine(h, j)' => queue'[i].n < queue'[j].n
                            /\ Coming(h)' => queue'[i].n < pData'.n
          BY <3>1, <4>2
        <5>1. CASE i = n + 1
          BY <3>1, <4>2, <5>1
        <5>2. CASE i \in 1..n
          <6>1. Mine(h, i) /\ queue'[i] = queue[i]
            BY <3>1, <3>2, <5>2
          <6>2. \A j \in 1..n : i < j /\ Mine(h, j)' => queue'[i].n < queue'[j].n
            BY <2>0, <3>1, <3>2, <5>2, <6>1
          <6>3. queue'[i].n < queue'[n + 1].n
            BY <2>0, <3>1, <4>1, <5>2, <6>1
          <6>4. Coming(h)' => queue'[i].n < pData'.n
            BY <2>0, <2>1, <5>2, <6>1
          <6> QED
            BY <3>3, <6>2, <6>3, <6>4
        <5> QED
          BY <3>3, <5>1, <5>2
      <4>6. AfterTable(h)'
        BY <4>2
      <4>7. UpToBus(h)'
        BY <1>3, <2>0, <2>1, <3>1, <3>2, <3>3, <4>1, <4>2
      <4> QED
        BY <4>3, <4>4, <4>5, <4>6, <4>7
    <3> QED
      BY <3>4, <3>5
  <2> QED
    BY <2>2, <2>3
<1>4. ASSUME Forward PROVE Order(h)'
  <2>1. /\ pData \in Telegrams /\ pData.grp \notin Debounced /\ pData' = NoData /\ Coming(pData.grp)
        /\ UNCHANGED <<sent, handling, reported, value, bDone>>
    BY <1>4 DEF Forward, Coming
  <2>2. Put(pData)
    BY <1>4, <2>1, PutEffect DEF Forward
  <2> QED
    BY <1>3, <2>1, <2>2
<1>5. ASSUME NEW g \in Debounced, ScanItem(g) PROVE Order(h)'
  <2> DEFINE t == [grp |-> g, n |-> value[g]]
  <2>1. /\ g \in scan /\ ~bDone[g] /\ bDone' = [bDone EXCEPT ![g] = TRUE]
        /\ UNCHANGED <<sent, pData, value, handling, reported>>
    BY <1>5, ScanItemEffect DEF ScanInv
  <2>2. CASE value[g] = 0
    <3>1. queue' = queue
      BY <1>5, <2>2, ScanItemEffect
    <3>2. /\ InHand(h)' <=> InHand(h)
          /\ Coming(h)' <=> Coming(h)
          /\ Pending(h)' => Pending(h)
          /\ \A i \in DOMAIN queue : Mine(h, i)' <=> Mine(h, i)
      BY <2>1, <3>1 DEF InHand, Coming, Pending, Mine
    <3> QED
      BY <2>1, <3>1, <3>2
  <2>3. CASE value[g] # 0
    <3>1. t \in Telegrams /\ Put(t) /\ t.grp = g /\ t.n = value[g]
      BY <1>5, <2>3, ScanItemEffect
    <3>2. Pending(g) /\ ~Pending(g)' /\ \A e \in Debounced \ {g} : bDone'[e] = bDone[e]
      BY <2>1, <2>3 DEF Pending
    <3> QED
      BY <1>3, <2>1, <3>1, <3>2
  <2> QED
    BY <2>2, <2>3
<1>6. ASSUME MonitorTakes PROVE Order(h)'
  <2>0. PICK n \in Nat \ {0} : n = Len(queue) /\ DOMAIN queue = 1..n
    BY <1>6 DEF MonitorTakes
  <2>1. /\ handling = NoData /\ handling' = queue[1] /\ handling' # NoData
        /\ DOMAIN queue = 1..n /\ DOMAIN queue' = 1..(n - 1)
        /\ \A i \in 1..(n - 1) : queue'[i] = queue[i + 1]
        /\ UNCHANGED <<sent, pData, value, bDone, reported>>
    BY <1>6, <2>0 DEF MonitorTakes
  <2>2. \A i \in 1..(n - 1) : i + 1 \in 1..n /\ 1 < i + 1 /\ (Mine(h, i)' <=> Mine(h, i + 1))
    <3> TAKE i \in 1..(n - 1)
    <3>1. i + 1 \in 1..n /\ 1 < i + 1
      OBVIOUS
    <3> QED
      BY <2>1, <3>1 DEF Mine
  <2>3. /\ ~InHand(h) /\ (InHand(h)' <=> Mine(h, 1)) /\ 1 \in 1..n
        /\ Coming(h)' <=> Coming(h)
        /\ Pending(h)' <=> Pending(h)
    BY <2>1 DEF InHand, Mine, Coming, Pending
  <2>4. AfterReported(h)'
    BY <2>1, <2>2, <2>3
  <2>5. AfterHand(h)'
    BY <2>1, <2>2, <2>3
  <2>6. AfterQueue(h)'
    <3> SUFFICES ASSUME NEW i \in 1..(n - 1), Mine(h, i)'
                 PROVE  /\ \A j \in 1..(n - 1) : i < j /\ Mine(h, j)' => queue'[i].n < queue'[j].n
                        /\ Pending(h)' => queue'[i].n < value'[h]
                        /\ Coming(h)' => queue'[i].n < pData'.n
      BY <2>1
    <3>1. i + 1 \in 1..n /\ Mine(h, i + 1) /\ queue'[i] = queue[i + 1]
      BY <2>1, <2>2
    <3>2. ASSUME NEW j \in 1..(n - 1), i < j, Mine(h, j)' PROVE queue'[i].n < queue'[j].n
      <4>1. j + 1 \in 1..n /\ Mine(h, j + 1) /\ queue'[j] = queue[j + 1] /\ i + 1 < j + 1
        BY <2>1, <2>2, <3>2
      <4> QED
        BY <2>1, <3>1, <4>1
    <3> QED
      BY <2>1, <2>3, <3>1, <3>2
  <2>7. AfterTable(h)'
    BY <2>1, <2>3
  <2>8. UpToBus(h)'
    BY <2>1, <2>2, <2>3
  <2> QED
    BY <2>4, <2>5, <2>6, <2>7, <2>8
<1>7. ASSUME MonitorReports PROVE Order(h)'
  <2>1. /\ handling # NoData /\ handling' = NoData
        /\ reported' = [reported EXCEPT ![handling.grp] = handling.n]
        /\ UNCHANGED <<sent, pData, value, bDone, queue>>
    BY <1>7 DEF MonitorReports
  <2>2. /\ ~InHand(h)' /\ (Coming(h)' <=> Coming(h))
        /\ Pending(h)' <=> Pending(h)
        /\ \A i \in DOMAIN queue : Mine(h, i)' <=> Mine(h, i)
    BY <2>1 DEF InHand, Coming, Pending, Mine
  <2>3. IF InHand(h) THEN reported'[h] = handling.n ELSE reported'[h] = reported[h]
    BY <2>1 DEF InHand
  <2> QED
    BY <2>1, <2>2, <2>3
<1>8. ASSUME UNCHANGED <<sent, pData, value, bDone, queue, handling, reported>> PROVE Order(h)'
  BY <1>8 DEF InHand, Coming, Pending, Mine
<1>9. ASSUME ScanBegins \/ ScanEnds \/ Tick \/ UNCHANGED vars PROVE Order(h)'
  BY <1>8, <1>9 DEF ScanBegins, ScanEnds, Tick, vars
<1> QED
  BY <1>1, <1>2, <1>4, <1>5, <1>6, <1>7, <1>9 DEF Next, BusMonitorStep, DebounceStep, DevMonitorStep

LEMMA OrderImplies == TypeOK /\ OrderInv => InOrderOnce
<1> SUFFICES ASSUME TypeOK, OrderInv, NEW g \in Groups, NEW s \in Pipeline(g), NEW t \in Pipeline(g), s[1] < t[1]
             PROVE  s[2] < t[2]
  BY DEF InOrderOnce
<1>0. /\ Order(g) /\ QueueMax \in Nat /\ queue \in Seq(Telegrams) /\ Len(queue) <= QueueMax
      /\ \A i \in DOMAIN queue : i \in 1..QueueMax
  BY DEF OrderInv, TypeOK
<1> DEFINE Place(p) ==
      \/ p = <<0, reported[g]>>
      \/ InHand(g) /\ p = <<1, handling.n>>
      \/ \E i \in DOMAIN queue : Mine(g, i) /\ p = <<1 + i, queue[i].n>>
      \/ Pending(g) /\ p = <<QueueMax + 2, value[g]>>
      \/ Coming(g) /\ p = <<QueueMax + 3, pData.n>>
<1>1. \A p \in Pipeline(g) : Place(p)
  BY DEF Pipeline, InHand, Mine, Pending, Coming
<1>2. Place(s) /\ Place(t)
  BY <1>1
<1> USE DEF Order
<1>3. CASE s = <<0, reported[g]>>
  BY <1>0, <1>2, <1>3 DEF AfterReported
<1>4. CASE InHand(g) /\ s = <<1, handling.n>>
  BY <1>0, <1>2, <1>4 DEF AfterHand
<1>5. ASSUME NEW i \in DOMAIN queue, Mine(g, i), s = <<1 + i, queue[i].n>> PROVE s[2] < t[2]
  BY <1>0, <1>2, <1>5 DEF AfterQueue
<1>6. CASE Pending(g) /\ s = <<QueueMax + 2, value[g]>>
  BY <1>0, <1>2, <1>6 DEF AfterTable
<1>7. CASE Coming(g) /\ s = <<QueueMax + 3, pData.n>>
  BY <1>0, <1>2, <1>7
<1> QED
  BY <1>2, <1>3, <1>4, <1>5, <1>6, <1>7

\* A telegram is reported once and never after a newer one of its group: the
\* debounce table, the queue and KNX_DevMonitorEntry keep the order of the bus.
THEOREM ReportsInOrder == Spec => []InOrderOnce
<1> DEFINE I == TypeOK /\ ScanInv /\ OrderInv
<1>1. Init => I
  <2> SUFFICES ASSUME Init, NEW g \in Groups PROVE Order(g)
    BY TypeInit DEF Init, ScanInv, OrderInv
  <2>1. /\ ~InHand(g) /\ ~Pending(g) /\ ~Coming(g) /\ DOMAIN queue = {} /\ reported[g] = 0 /\ sent[g] = 0
    BY DEF Init, InHand, Pending, Coming
  <2> QED
    BY <2>1 DEF Order, AfterReported, AfterHand, AfterQueue, AfterTable, UpToBus
<1>2. I /\ [Next]_vars => I'
  BY TypeStep, ScanStep, OrderStep
<1>3. I => InOrderOnce
  BY OrderImplies
<1> QED
  BY <1>1, <1>2, <1>3, PTL DEF Spec
=============================================================================
