------------------------ MODULE GatewayThreadsProofs ------------------------
(***************************************************************************)
(* OneBusMonitor of GatewayThreads, for a pool and a watchdog queue of any *)
(* size and any number of waiting heartbeats.                              *)
(***************************************************************************)
EXTENDS GatewayThreads, FiniteSetTheorems, TLAPS

USE PoolAssumption, DIAssumption

\* The bus monitor's own view agrees with the pool's: its variable says that it
\* runs exactly while a worker runs it.  Without this a step of the monitor
\* could end a monitor that no worker runs.
BusRuns == bus # "none" <=> BusMonitor \in running
IInv == TypeOK /\ IsFiniteSet(running) /\ BusRuns /\ OneBusMonitor

-----------------------------------------------------------------------------
(* The jobs of main *)

Bus == <<"ModbusDevMonitor", KeyScan, "flashLight">>
Inputs == IF DI THEN <<"di_scan">> ELSE <<>>
Last == <<"fakeServer", "RunLedThread", "ReportPosThread", "ReportBindPosThread", DelaySync>>
Others == {"KNX_DevMonitorEntry", "KNX_DevDebounce", "KNX_DevWriteEntry", "KNX_DevHealth",
           "ModbusDevMonitor", KeyScan, "flashLight", "di_scan",
           "fakeServer", "RunLedThread", "ReportPosThread", "ReportBindPosThread", DelaySync}

\* A list of jobs that begins with the watchdog and the bus monitor and goes on
\* with others stays one when others are appended.
Headed(s) ==
  /\ s \in Seq(Others \cup {DogEntry, BusMonitor}) /\ Len(s) >= 2
  /\ s[1] = DogEntry /\ s[2] = BusMonitor
  /\ \A i \in 3..Len(s) : s[i] \in Others

LEMMA HeadedLonger ==
  ASSUME NEW s, Headed(s), NEW t \in Seq(Others)
  PROVE  Headed(s \o t)
<1> DEFINE All == Others \cup {DogEntry, BusMonitor}
<1>1. s \in Seq(All) /\ t \in Seq(All)
  BY DEF Headed
<1> HIDE DEF All
<1>2. /\ s \o t \in Seq(All) /\ Len(s \o t) = Len(s) + Len(t) /\ Len(s) \in Nat /\ Len(t) \in Nat
      /\ \A i \in 1..Len(s) : (s \o t)[i] = s[i]
      /\ \A i \in (Len(s) + 1)..(Len(s) + Len(t)) : (s \o t)[i] = t[i - Len(s)]
  BY <1>1
<1>3. ASSUME NEW i \in 3..Len(s \o t) PROVE (s \o t)[i] \in Others
  <2>1. CASE i <= Len(s)
    BY <1>2, <2>1 DEF Headed
  <2>2. CASE i > Len(s)
    <3>1. i - Len(s) \in 1..Len(t) /\ i \in (Len(s) + 1)..(Len(s) + Len(t))
      BY <1>2, <2>2
    <3>2. t[i - Len(s)] \in Others
      BY <3>1
    <3> QED
      BY <1>2, <3>1, <3>2
  <2> QED
    BY <1>2, <2>1, <2>2
<1>4. Len(s \o t) >= 2 /\ (s \o t)[1] = s[1] /\ (s \o t)[2] = s[2]
  BY <1>2 DEF Headed
<1> QED
  BY <1>2, <1>3, <1>4 DEF Headed, All

\* The bus monitor is the second job main submits and no other, and no job of
\* main counts as transient.
LEMMA StartupShape ==
  /\ StartupJobs \in Seq(Names) /\ Len(StartupJobs) >= 2
  /\ \A i \in 1..Len(StartupJobs) : StartupJobs[i] = BusMonitor <=> i = 2
  /\ Transient \notin Names /\ BusMonitor \in Names
<1> USE DEF DogEntry, BusMonitor, KeyScan, DelaySync, Transient
<1>1. Bus \in Seq(Others) /\ Last \in Seq(Others)
  BY DEF Bus, Last, Others
<1>2. Inputs \in Seq(Others)
  <2>1. <<"di_scan">> \in Seq(Others) /\ <<>> \in Seq(Others)
    BY DEF Others
  <2> QED
    BY <2>1 DEF Inputs
<1>3. BusMonitor \notin Others /\ DogEntry # BusMonitor /\ Transient \notin Others \cup {DogEntry, BusMonitor}
  BY DEF Others
<1>4. Headed(KnxJobs)
  BY DEF KnxJobs, Headed, Others
<1>5. StartupJobs = KnxJobs \o Bus \o Inputs \o Last
  BY DEF StartupJobs, Bus, Inputs, Last
<1>6. Headed(StartupJobs)
  <2>1. Headed(KnxJobs \o Bus)
    BY <1>1, <1>4, HeadedLonger
  <2>2. Headed(KnxJobs \o Bus \o Inputs)
    BY <1>2, <2>1, HeadedLonger
  <2> QED
    BY <1>1, <1>5, <2>2, HeadedLonger
<1>7. /\ StartupJobs \in Seq(Others \cup {DogEntry, BusMonitor}) /\ Len(StartupJobs) >= 2
      /\ StartupJobs[1] = DogEntry /\ StartupJobs[2] = BusMonitor
      /\ \A i \in 3..Len(StartupJobs) : StartupJobs[i] \in Others
  BY <1>6 DEF Headed
<1> HIDE DEF DogEntry, BusMonitor, KeyScan, DelaySync, Transient
<1>8. \A i \in 1..Len(StartupJobs) : StartupJobs[i] = BusMonitor <=> i = 2
  <2> SUFFICES ASSUME NEW i \in 1..Len(StartupJobs) PROVE StartupJobs[i] = BusMonitor <=> i = 2
    OBVIOUS
  <2>1. CASE i \in {1, 2}
    BY <1>3, <1>7, <2>1
  <2>2. CASE i \in 3..Len(StartupJobs)
    BY <1>3, <1>7, <2>2
  <2> QED
    BY <1>7, <2>1, <2>2
<1>9. StartupJobs \in Seq(Names) /\ BusMonitor \in Names /\ Names \subseteq Others \cup {DogEntry, BusMonitor}
  <2>1. DOMAIN StartupJobs = 1..Len(StartupJobs) /\ \A i \in DOMAIN StartupJobs : StartupJobs[i] \in Others \cup {DogEntry, BusMonitor}
    BY <1>7
  <2>2. \A i \in DOMAIN StartupJobs : StartupJobs[i] \in Names
    BY DEF Names
  <2>3. StartupJobs \in Seq(Names)
    BY <1>7, <2>1, <2>2
  <2>4. 2 \in DOMAIN StartupJobs
    BY <1>7
  <2> QED
    BY <1>7, <2>1, <2>3, <2>4 DEF Names
<1> QED
  BY <1>3, <1>7, <1>8, <1>9

-----------------------------------------------------------------------------
(* How often a job waits in the queue *)

CountIn(q, j) == Cardinality({i \in DOMAIN q : q[i] = j})

LEMMA CountNat ==
  ASSUME NEW S, NEW q \in Seq(S), NEW j
  PROVE  IsFiniteSet({i \in DOMAIN q : q[i] = j}) /\ CountIn(q, j) \in Nat
<1>1. IsFiniteSet(1..Len(q))
  BY FS_Interval
<1>2. {i \in DOMAIN q : q[i] = j} \in SUBSET (1..Len(q))
  OBVIOUS
<1> QED
  BY <1>1, <1>2, FS_Subset, FS_CardinalityType DEF CountIn

\* One more of the job that is appended
LEMMA CountAppend ==
  ASSUME NEW S, NEW q \in Seq(S), NEW e \in S, NEW j
  PROVE  CountIn(Append(q, e), j) = CountIn(q, j) + (IF e = j THEN 1 ELSE 0)
<1> DEFINE n == Len(q)
           A == {i \in DOMAIN q : q[i] = j}
           B == {i \in DOMAIN Append(q, e) : Append(q, e)[i] = j}
<1>1. /\ DOMAIN q = 1..n /\ DOMAIN Append(q, e) = 1..(n + 1) /\ n \in Nat
      /\ Append(q, e)[n + 1] = e /\ \A i \in 1..n : Append(q, e)[i] = q[i]
  OBVIOUS
<1>2. IsFiniteSet(A) /\ CountIn(q, j) \in Nat
  BY CountNat
<1>a. n + 1 \notin A
  BY <1>1
<1>3. CASE e = j
  <2>1. B = A \cup {n + 1}
    BY <1>1, <1>3
  <2> QED
    BY <1>2, <1>a, <1>3, <2>1, FS_AddElement DEF CountIn
<1>4. CASE e # j
  <2>1. B = A
    BY <1>1, <1>4
  <2>2. CountIn(Append(q, e), j) = CountIn(q, j)
    BY <2>1 DEF CountIn
  <2> QED
    BY <1>2, <1>4, <2>2
<1> QED
  BY <1>3, <1>4

\* One less of the job at the head
LEMMA CountTail ==
  ASSUME NEW S, NEW q \in Seq(S), q # <<>>, NEW j
  PROVE  CountIn(Tail(q), j) = CountIn(q, j) - (IF Head(q) = j THEN 1 ELSE 0)
<1> DEFINE n == Len(q)
           A == {i \in DOMAIN q : q[i] = j}
           B == {i \in DOMAIN Tail(q) : Tail(q)[i] = j}
           f == [i \in B |-> i + 1]
<1>1. /\ DOMAIN q = 1..n /\ n \in Nat \ {0} /\ DOMAIN Tail(q) = 1..(n - 1) /\ Head(q) = q[1]
      /\ \A i \in 1..(n - 1) : Tail(q)[i] = q[i + 1]
  OBVIOUS
<1>2. IsFiniteSet(A) /\ IsFiniteSet(B) /\ Cardinality(A) \in Nat
  BY CountNat, Tail(q) \in Seq(S) DEF CountIn
<1>3. f \in Bijection(B, A \ {1})
  <2> HIDE DEF n
  <2>1. \A i \in B : i \in 1..(n - 1) /\ i + 1 \in A \ {1}
    BY <1>1
  <2>2. ASSUME NEW k \in A \ {1} PROVE k - 1 \in B /\ f[k - 1] = k
    BY <1>1
  <2>3. f \in [B -> A \ {1}]
    BY <2>1
  <2>4. \A i, k \in B : f[i] = f[k] => i = k
    BY <2>1
  <2> QED
    BY <2>2, <2>3, <2>4 DEF Bijection, Injection, Surjection, IsInjective
<1>4. Cardinality(B) = Cardinality(A \ {1})
  <2>1. ExistsBijection(B, A \ {1})
    BY <1>3 DEF ExistsBijection
  <2> HIDE DEF A, B
  <2> QED
    BY <1>2, <2>1, FS_Bijection
<1>5. 1 \in A <=> Head(q) = j
  BY <1>1
<1>6. Cardinality(A \ {1}) = IF 1 \in A THEN Cardinality(A) - 1 ELSE Cardinality(A)
  BY <1>2, FS_RemoveElement
<1> HIDE DEF A, B, f, n
<1>7. Cardinality(B) = Cardinality(A) - (IF Head(q) = j THEN 1 ELSE 0)
  BY <1>2, <1>4, <1>5, <1>6
<1> QED
  BY <1>7 DEF CountIn, A, B

-----------------------------------------------------------------------------
(* The invariant *)

LEMMA InvInit == Init => IInv
<1> SUFFICES ASSUME Init PROVE IInv
  OBVIOUS
<1>1. queue \in Seq(Names \cup {Transient}) /\ {i \in DOMAIN queue : queue[i] = BusMonitor} = {}
  BY DEF Init
<1>2. Cardinality(running) = 0 /\ IsFiniteSet(running) /\ Count(BusMonitor) = 0
  BY <1>1, FS_EmptySet DEF Init, Count
<1>3. Len(StartupJobs) \in Nat
  BY StartupShape
<1>4. TypeOK
  BY <1>1, <1>2, <1>3 DEF Init, TypeOK, FreeWorkers
<1>5. OneBusMonitor
  BY <1>2 DEF Init, OneBusMonitor
<1> QED
  BY <1>2, <1>4, <1>5 DEF Init, IInv, BusRuns

InQueue == CountIn(queue, BusMonitor)
Runs == IF BusMonitor \in running THEN 1 ELSE 0
InHand == IF dog = "sleep" THEN 1 ELSE 0
Given == IF submitted >= 2 THEN 1 ELSE 0

LEMMA OneWorkerLess ==
  ASSUME NEW n \in Nat, NEW k \in Nat, NEW m \in Nat, n - k > 0, m <= k + 1
  PROVE  n - m \in 0..n
  OBVIOUS

LEMMA InvStep == IInv /\ [Next]_vars => IInv'
<1> SUFFICES ASSUME IInv, [Next]_vars PROVE IInv'
  OBVIOUS
<1> USE DEF IInv, BusRuns
<1>0. /\ submitted \in 0..Len(StartupJobs) /\ Len(StartupJobs) \in Nat
      /\ queue \in Seq(Names \cup {Transient}) /\ running \subseteq Names
      /\ transients \in Nat /\ FreeWorkers \in 0..PoolSize
      /\ bus \in {"none", "connecting", "monitoring"}
      /\ dogq \in 0..DogMax /\ dog \in {"wait", "sleep"}
      /\ PoolSize \in Nat /\ DogMax \in Nat \ {0}
  BY StartupShape DEF TypeOK
<1>1. InQueue \in Nat /\ Cardinality(running) \in Nat
  BY <1>0, CountNat, FS_CardinalityType DEF InQueue
<1>2. InQueue + Runs + dogq + InHand = Given
  BY DEF OneBusMonitor, Count, InQueue, CountIn, Runs, InHand, Given
<1>3. InQueue' + Runs' + dogq' + InHand' = Given' <=> OneBusMonitor'
  BY DEF OneBusMonitor, Count, InQueue, CountIn, Runs, InHand, Given
<1>4. BusMonitor # Transient /\ BusMonitor # KeyScan /\ BusMonitor \in Names /\ Transient \notin Names
  BY StartupShape DEF BusMonitor, Transient, KeyScan
<1>5. /\ \A e \in Names \cup {Transient} :
           CountIn(Append(queue, e), BusMonitor) = InQueue + (IF e = BusMonitor THEN 1 ELSE 0)
      /\ queue # <<>> =>
           CountIn(Tail(queue), BusMonitor) = InQueue - (IF Head(queue) = BusMonitor THEN 1 ELSE 0)
  BY <1>0, CountAppend, CountTail DEF InQueue
<1>6. ASSUME MainSubmits PROVE IInv'
  <2> DEFINE j == StartupJobs[submitted + 1]
  <2>1. /\ submitted' = submitted + 1 /\ submitted + 1 \in 1..Len(StartupJobs) /\ queue' = Append(queue, j)
        /\ UNCHANGED <<running, transients, bus, dogq, dog>>
    BY <1>0, <1>6 DEF MainSubmits
  <2>2. j \in Names /\ (j = BusMonitor <=> submitted = 1)
    BY <1>0, <2>1, StartupShape
  <2> HIDE DEF j
  <2>3. InQueue' = InQueue + (IF submitted = 1 THEN 1 ELSE 0)
    BY <1>5, <2>1, <2>2 DEF InQueue
  <2>4. Runs' = Runs /\ dogq' = dogq /\ InHand' = InHand
    BY <2>1 DEF Runs, InHand
  <2>5. Given' = Given + (IF submitted = 1 THEN 1 ELSE 0)
    BY <1>0, <2>1 DEF Given
  <2>6. OneBusMonitor'
    BY <1>0, <1>1, <1>2, <1>3, <2>3, <2>4, <2>5 DEF Runs, InHand
  <2>7. TypeOK'
    BY <1>0, <2>1, <2>2 DEF TypeOK, FreeWorkers
  <2> QED
    BY <2>1, <2>6, <2>7
<1>7. ASSUME StartJob PROVE IInv'
  <2> DEFINE j == Head(queue)
  <2>1. /\ queue # <<>> /\ FreeWorkers > 0 /\ queue' = Tail(queue) /\ UNCHANGED <<submitted, dogq, dog>>
        /\ j \in Names \cup {Transient} /\ queue' \in Seq(Names \cup {Transient})
    BY <1>0, <1>7 DEF StartJob
  <2>2. InQueue' = InQueue - (IF j = BusMonitor THEN 1 ELSE 0)
    BY <1>5, <2>1 DEF InQueue
  <2>3. InHand' = InHand /\ Given' = Given /\ dogq' = dogq
    BY <2>1 DEF InHand, Given
  <2>4. CASE j # Transient /\ running' = running \cup {j} /\ UNCHANGED transients
             /\ bus' = IF j = BusMonitor THEN "connecting" ELSE bus
    <3> HIDE DEF j
    <3>1. IsFiniteSet(running') /\ Cardinality(running') \in Nat /\ Cardinality(running') <= Cardinality(running) + 1
      BY <1>1, <2>4, FS_AddElement
    <3>2. TypeOK'
      <4>1. FreeWorkers' \in 0..PoolSize
        <5>1. /\ Cardinality(running') + transients \in Nat
              /\ Cardinality(running') + transients <= (Cardinality(running) + transients) + 1
          BY <1>0, <1>1, <3>1
        <5>2. Cardinality(running) + transients \in Nat
          BY <1>0, <1>1
        <5> QED
          BY <1>0, <2>1, <2>4, <5>1, <5>2, OneWorkerLess DEF FreeWorkers
      <4>2. running' \subseteq Names /\ bus' \in {"none", "connecting", "monitoring"}
        BY <1>0, <2>1, <2>4
      <4> QED
        BY <1>0, <2>1, <2>4, <4>1, <4>2 DEF TypeOK
    <3>3. CASE j = BusMonitor
      <4>1. Runs = 0 /\ Runs' = 1
        <5>1. InQueue' \in Nat
          BY <2>1, CountNat DEF InQueue
        <5>2. InQueue >= 1
          BY <1>1, <2>2, <3>3, <5>1
        <5> QED
          BY <1>0, <1>1, <1>2, <2>4, <3>3, <5>2 DEF Runs, InHand, Given
      <4>2. OneBusMonitor'
        BY <1>0, <1>1, <1>2, <1>3, <2>2, <2>3, <3>3, <4>1 DEF InHand, Given
      <4> QED
        BY <2>4, <3>1, <3>2, <3>3, <4>2
    <3>4. CASE j # BusMonitor
      <4>1. Runs' = Runs
        BY <2>4, <3>4 DEF Runs
      <4>2. OneBusMonitor'
        BY <1>0, <1>1, <1>2, <1>3, <2>2, <2>3, <3>4, <4>1 DEF InHand, Given, Runs
      <4> QED
        BY <2>4, <3>1, <3>2, <3>4, <4>2
    <3> QED
      BY <3>3, <3>4
  <2>5. CASE \/ j = Transient /\ transients' = transients + 1 /\ UNCHANGED <<running, bus>>
             \/ j = KeyScan /\ UNCHANGED <<running, transients, bus>>
    <3> HIDE DEF j
    <3>1. TypeOK'
      <4>1. transients' \in Nat /\ running' = running /\ bus' = bus
        BY <1>0, <2>5
      <4>2. FreeWorkers' \in 0..PoolSize
        <5>1. transients' \in {transients, transients + 1}
          BY <2>5
        <5>2. /\ Cardinality(running) + transients \in Nat /\ Cardinality(running) + transients' \in Nat
              /\ Cardinality(running) + transients' <= (Cardinality(running) + transients) + 1
          BY <1>0, <1>1, <5>1
        <5> QED
          BY <1>0, <2>1, <4>1, <5>2, OneWorkerLess DEF FreeWorkers
      <4> QED
        BY <1>0, <2>1, <4>1, <4>2 DEF TypeOK
    <3>2. Runs' = Runs /\ InQueue' = InQueue
      BY <1>1, <1>4, <2>2, <2>5 DEF Runs
    <3>3. OneBusMonitor'
      BY <1>2, <1>3, <2>3, <3>2
    <3> QED
      BY <2>5, <3>1, <3>3
  <2> QED
    BY <1>7, <2>4, <2>5 DEF StartJob
<1>8. ASSUME TransientEnds PROVE IInv'
  <2>1. transients > 0 /\ transients' = transients - 1 /\ UNCHANGED <<submitted, queue, running, bus, dogq, dog>>
    BY <1>8 DEF TransientEnds
  <2>2. TypeOK'
    BY <1>0, <1>1, <2>1 DEF TypeOK, FreeWorkers
  <2> QED
    BY <1>2, <1>3, <2>1, <2>2 DEF InQueue, Runs, InHand, Given
<1>9. ASSUME queue' = Append(queue, Transient), UNCHANGED <<submitted, running, transients, bus, dogq, dog>>
      PROVE  IInv'
  <2>1. TypeOK'
    BY <1>0, <1>9 DEF TypeOK, FreeWorkers
  <2>2. InQueue' = InQueue
    BY <1>1, <1>4, <1>5, <1>9 DEF InQueue
  <2> QED
    BY <1>2, <1>3, <1>9, <2>1, <2>2 DEF Runs, InHand, Given
<1>10. ASSUME Connect PROVE IInv'
  <2>1. bus = "connecting" /\ bus' = "monitoring" /\ UNCHANGED <<submitted, queue, running, transients, dogq, dog>>
    BY <1>10 DEF Connect
  <2>2. TypeOK'
    BY <1>0, <2>1 DEF TypeOK, FreeWorkers
  <2> QED
    BY <1>2, <1>3, <2>1, <2>2 DEF InQueue, Runs, InHand, Given
<1>11. ASSUME ConnectFails \/ MonitorBreaks PROVE IInv'
  <2>1. /\ bus # "none" /\ bus' = "none" /\ running' = running \ {BusMonitor} /\ PutNote
        /\ UNCHANGED <<submitted, queue, transients, dog>>
    BY <1>11 DEF ConnectFails, MonitorBreaks
  <2>2. Runs = 1 /\ Runs' = 0
    BY <2>1 DEF Runs
  <2>3. dogq' = dogq + 1 /\ dogq + 1 <= DogMax
    BY <1>0, <1>1, <1>2, <2>1, <2>2 DEF PutNote, InHand, Given
  <2>4. IsFiniteSet(running') /\ Cardinality(running') = Cardinality(running) - 1
    BY <2>1, FS_RemoveElement
  <2>5. Cardinality(running') \in Nat
    BY <2>4, FS_CardinalityType
  <2>6. TypeOK'
    BY <1>0, <1>1, <2>1, <2>3, <2>4, <2>5 DEF TypeOK, FreeWorkers
  <2>7. OneBusMonitor'
    BY <1>0, <1>1, <1>2, <1>3, <2>1, <2>2, <2>3 DEF InQueue, InHand, Given
  <2> QED
    BY <2>1, <2>4, <2>6, <2>7
<1>12. ASSUME DogTakes PROVE IInv'
  <2>1. /\ dog = "wait" /\ dogq > 0 /\ dog' = "sleep" /\ dogq' = dogq - 1
        /\ UNCHANGED <<submitted, queue, running, transients, bus>>
    BY <1>12 DEF DogTakes
  <2>2. TypeOK'
    BY <1>0, <2>1 DEF TypeOK, FreeWorkers
  <2>3. OneBusMonitor'
    BY <1>0, <1>1, <1>2, <1>3, <2>1 DEF InQueue, Runs, InHand, Given
  <2> QED
    BY <2>1, <2>2, <2>3
<1>13. ASSUME DogSubmits PROVE IInv'
  <2>1. /\ dog = "sleep" /\ dog' = "wait" /\ queue' = Append(queue, BusMonitor)
        /\ UNCHANGED <<submitted, running, transients, bus, dogq>>
    BY <1>13 DEF DogSubmits
  <2>2. TypeOK'
    BY <1>0, <1>4, <2>1 DEF TypeOK, FreeWorkers
  <2>3. InQueue' = InQueue + 1
    BY <1>4, <1>5, <2>1 DEF InQueue
  <2>4. OneBusMonitor'
    BY <1>0, <1>1, <1>2, <1>3, <2>1, <2>3 DEF Runs, InHand, Given
  <2> QED
    BY <2>1, <2>2, <2>4
<1>14. ASSUME UNCHANGED vars PROVE IInv'
  <2>1. TypeOK'
    BY <1>0, <1>14 DEF vars, TypeOK, FreeWorkers
  <2> QED
    BY <1>2, <1>3, <1>14, <2>1 DEF vars, InQueue, Runs, InHand, Given
<1>15. ASSUME _misc_dev_hb_cb \/ DelaySyncRound PROVE IInv'
  BY <1>9, <1>15 DEF _misc_dev_hb_cb, DelaySyncRound
<1> QED
  BY <1>6, <1>7, <1>8, <1>10, <1>11, <1>12, <1>13, <1>14, <1>15 DEF Next

\* The pool of main.c never runs more jobs than it has workers, and the queues
\* hold what they are made for.
THEOREM TypeCorrect == Spec => []TypeOK
<1>1. IInv => TypeOK
  BY DEF IInv
<1> QED
  BY <1>1, InvInit, InvStep, PTL DEF Spec

\* However often KNX_BusMonitorEntry fails and ThreadDogEntry submits it again
\* (knxHandle.c), there is one bus monitor: in the pool's queue, on a worker, or
\* as a note to the watchdog, whose queue never refuses it.
THEOREM OneBusMonitorHolds == Spec => []OneBusMonitor
<1>1. IInv => OneBusMonitor
  BY DEF IInv
<1> QED
  BY <1>1, InvInit, InvStep, PTL DEF Spec
=============================================================================
