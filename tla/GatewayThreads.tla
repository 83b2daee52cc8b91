--------------------------- MODULE GatewayThreads ---------------------------
(***************************************************************************)
(* The threads of the gateway: main() creates a pool of 15 workers and     *)
(* gives it the jobs that run forever (KnxInit, ModbusInit, main itself);  *)
(* the cloud's heartbeats and the periodic synchronisation add jobs that   *)
(* end.  The KNX bus monitor is the one permanent job that ends, whenever  *)
(* eibd is not reachable: it leaves a note to the watchdog, which submits  *)
(* it again.                                                               *)
(*                                                                         *)
(* The pool is used as module JobPool specifies it (and ThreadPool         *)
(* implements it): jobs start in order when a worker is free, so workers   *)
(* are only counted.  tuya_user_iot_init and the other calls of main that  *)
(* end the program are taken to succeed.                                   *)
(***************************************************************************)
EXTENDS Naturals, Sequences, FiniteSets

CONSTANTS
  PoolSize,   \* thpool_init(15)
  DogMax,     \* queue_create_limited(10) for the watchdog
  DI,         \* g_HasSysDev.bDi: the gateway has digital inputs
  MaxPending  \* bound: heartbeat and synchronisation jobs in the queue

ASSUME PoolAssumption == PoolSize \in Nat \ {0} /\ DogMax \in Nat \ {0} /\ MaxPending \in Nat
ASSUME DIAssumption == DI \in BOOLEAN

DogEntry == "ThreadDogEntry"
BusMonitor == "KNX_BusMonitorEntry"
KeyScan == "key_scan"
DelaySync == "Mbus_DelaySyncAllDevStatus"
Transient == "transient"

KnxJobs == <<DogEntry, BusMonitor, "KNX_DevMonitorEntry", "KNX_DevDebounce",
             "KNX_DevWriteEntry", "KNX_DevHealth">>

\* The jobs main submits, in its order; the last one only when the cloud
\* connection is up.
StartupJobs ==
  KnxJobs \o <<"ModbusDevMonitor", KeyScan, "flashLight">>
  \o (IF DI THEN <<"di_scan">> ELSE <<>>)
  \o <<"fakeServer", "RunLedThread", "ReportPosThread", "ReportBindPosThread", DelaySync>>

VARIABLES
  submitted,  \* how many of StartupJobs main has submitted
  queue,      \* the jobs waiting in the pool
  running,    \* the permanent jobs that run
  transients, \* how many transient jobs run
  bus,        \* the bus monitor: "none", "connecting" or "monitoring"
  dogq,       \* the notes in the watchdog's queue
  dog         \* the watchdog: "wait", or "sleep" with a note in its hand

vars == <<submitted, queue, running, transients, bus, dogq, dog>>

Init ==
  /\ submitted = 0 /\ queue = <<>> /\ running = {} /\ transients = 0
  /\ bus = "none" /\ dogq = 0 /\ dog = "wait"

Count(j) == Cardinality({i \in DOMAIN queue : queue[i] = j})
FreeWorkers == PoolSize - (Cardinality(running) + transients)

-----------------------------------------------------------------------------
MainSubmits ==
  /\ submitted < Len(StartupJobs)
  /\ submitted' = submitted + 1 /\ queue' = Append(queue, StartupJobs[submitted + 1])
  /\ UNCHANGED <<running, transients, bus, dogq, dog>>

\* A free worker takes the next job.  key_scan returns at once when it cannot
\* open its device.
StartJob ==
  /\ queue # <<>> /\ FreeWorkers > 0
  /\ queue' = Tail(queue)
  /\ LET j == Head(queue) IN
       \/ j = Transient /\ transients' = transients + 1 /\ UNCHANGED <<running, bus>>
       \/ j # Transient /\ running' = running \cup {j} /\ UNCHANGED transients
          /\ bus' = IF j = BusMonitor THEN "connecting" ELSE bus
       \/ j = KeyScan /\ UNCHANGED <<running, transients, bus>>
  /\ UNCHANGED <<submitted, dogq, dog>>

\* Modbus_DevHealth, Mbus_SyncAllDevStatus or KNX_DevStateSync returns.
TransientEnds ==
  /\ transients > 0 /\ transients' = transients - 1
  /\ UNCHANGED <<submitted, queue, running, bus, dogq, dog>>

\* The heartbeat callback of the cloud library, which main registers before it
\* submits its last job.
_misc_dev_hb_cb ==
  /\ submitted >= Len(StartupJobs) - 1 /\ Count(Transient) < MaxPending
  /\ queue' = Append(queue, Transient)
  /\ UNCHANGED <<submitted, running, transients, bus, dogq, dog>>

\* One round of Mbus_DelaySyncAllDevStatus
DelaySyncRound ==
  /\ DelaySync \in running /\ Count(Transient) < MaxPending
  /\ queue' = Append(queue, Transient)
  /\ UNCHANGED <<submitted, running, transients, bus, dogq, dog>>

\* queue_put(threadDog[0].pQueue): a full queue refuses the note.
PutNote == dogq' = IF dogq < DogMax THEN dogq + 1 ELSE dogq

\* EIBSocketURL and EIBOpenVBusmonitorText succeed.
Connect ==
  /\ bus = "connecting" /\ bus' = "monitoring"
  /\ UNCHANGED <<submitted, queue, running, transients, dogq, dog>>

\* (fault) a return is missing: the thread goes on to monitor
ConnectFailsOn ==
  /\ bus = "connecting" /\ bus' = "monitoring" /\ PutNote
  /\ UNCHANGED <<submitted, queue, running, transients, dog>>

\* One of them fails.
ConnectFails ==
  /\ bus = "connecting" /\ bus' = "none" /\ running' = running \ {BusMonitor}
  /\ PutNote
  /\ UNCHANGED <<submitted, queue, transients, dog>>

\* (fault) the thread leaves its loop without telling the watchdog
MonitorBreaksSilently ==
  /\ bus = "monitoring" /\ bus' = "none" /\ running' = running \ {BusMonitor}
  /\ UNCHANGED <<submitted, queue, transients, dogq, dog>>

\* select, EIB_Poll_Complete, EIBGetBusmonitorPacket or calloc fails in the loop.
MonitorBreaks ==
  /\ bus = "monitoring" /\ bus' = "none" /\ running' = running \ {BusMonitor}
  /\ PutNote
  /\ UNCHANGED <<submitted, queue, transients, dog>>

\* ThreadDogEntry: queue_get_wait, then two seconds of sleep
DogTakes ==
  /\ DogEntry \in running /\ dog = "wait" /\ dogq > 0
  /\ dog' = "sleep" /\ dogq' = dogq - 1
  /\ UNCHANGED <<submitted, queue, running, transients, bus>>

DogSubmits ==
  /\ dog = "sleep" /\ dog' = "wait"
  /\ queue' = Append(queue, BusMonitor)
  /\ UNCHANGED <<submitted, running, transients, bus, dogq>>

Next ==
  \/ MainSubmits \/ StartJob \/ TransientEnds \/ _misc_dev_hb_cb \/ DelaySyncRound
  \/ Connect \/ ConnectFails \/ MonitorBreaks \/ DogTakes \/ DogSubmits

Spec == Init /\ [][Next]_vars

\* main runs, the pool starts jobs while a worker is free, transient jobs end
\* (their sessions do, see SerialBus), and the watchdog is scheduled.  Nothing
\* is assumed of eibd or of the cloud.
Fairness == /\ WF_vars(MainSubmits) /\ WF_vars(StartJob) /\ WF_vars(TransientEnds)
            /\ WF_vars(DogTakes) /\ WF_vars(DogSubmits)
FairSpec == Spec /\ Fairness

-----------------------------------------------------------------------------
(* Properties *)

Names == {StartupJobs[i] : i \in DOMAIN StartupJobs}

TypeOK ==
  /\ submitted \in 0..Len(StartupJobs)
  /\ queue \in Seq(Names \cup {Transient}) /\ running \subseteq Names
  /\ transients \in Nat /\ FreeWorkers \in 0..PoolSize
  /\ bus \in {"none", "connecting", "monitoring"}
  /\ dogq \in 0..DogMax /\ dog \in {"wait", "sleep"}

\* The note about a bus monitor that ended is the bus monitor in another form:
\* once submitted it is in exactly one of the pool's queue, a worker, the
\* watchdog's queue and the watchdog's hand.  So two monitors never put the
\* same telegram into the queue twice, and the watchdog's queue of 10 never
\* refuses a note.
OneBusMonitor ==
  Count(BusMonitor) + (IF BusMonitor \in running THEN 1 ELSE 0)
    + dogq + (IF dog = "sleep" THEN 1 ELSE 0)
  = IF submitted >= 2 THEN 1 ELSE 0

\* However often eibd fails, the bus monitor runs again: the watchdog's
\* resubmission is never stuck behind jobs that do not end.
BusMonitorReturns == []<>(BusMonitor \in running)

\* main.c on _misc_dev_hb_cb: the cloud queries, and the gateway in turn
\* queries the state of the sub-device.  Jobs do not wait in the pool's queue
\* forever.
QueriesServed == []<>(queue = <<>>) \/ []<><<StartJob>>_vars
=============================================================================
