----------------------------- MODULE KnxMonitor -----------------------------
(***************************************************************************)
(* From a telegram on the KNX bus to its report: KNX_BusMonitorEntry of    *)
(* source/knxHandle.c, the debounce table of source/point.c and the thread *)
(* KNX_DevDebounce, and KNX_DevMonitorEntry behind the queue.              *)
(*                                                                         *)
(* The status groups of the air conditioners are put into the debounce     *)
(* table when the configuration is parsed; a telegram on such a group only *)
(* updates its item, and KNX_DevDebounce puts the item's last value into   *)
(* the queue once the group was quiet for longer than its expiry.  Every   *)
(* other telegram goes straight into the queue.  kv_lock is a read-write   *)
(* lock: kv_update waits for a pass of KNX_DevDebounce, which is a reader, *)
(* to end.  The queue is module MsgQueue's, used without waiting by its    *)
(* producers.                                                              *)
(*                                                                         *)
(* A telegram is a number: the n-th of its group, and a repetition on the  *)
(* link layer has the number of what it repeats.  Telegrams that           *)
(* KNX_ParsePacket rejects change nothing.  Left out are KNX_FakePacket, a *)
(* debugging aid, and the functions of point.c that nobody calls.          *)
(***************************************************************************)
EXTENDS Integers, Sequences

CONSTANTS
  Groups,       \* the group addresses on the bus
  Table,        \* the debounced ones, in the order of the hash table
  Expire,       \* their expiry, in ticks
  QueueMax,     \* queue_create_limited(200)
  MaxTelegrams, \* bound: telegrams of each group
  NoData        \* no telegram

Debounced == {Table[i] : i \in DOMAIN Table}

ASSUME KnxAssumption ==
  /\ Table \in Seq(Groups) /\ \A i, j \in DOMAIN Table : Table[i] = Table[j] => i = j
  /\ Expire \in [Debounced -> Nat]
  /\ QueueMax \in Nat \ {0} /\ MaxTelegrams \in Nat
Telegrams == [grp : Groups, n : 1..MaxTelegrams]
ASSUME NoDataAssumption == NoData \notin Telegrams

VARIABLES
  sent,      \* how many telegrams of each group were on the bus
  pData,     \* the telegram KNX_BusMonitorEntry has in hand
  value,     \* item->pValue: the last telegram of a debounced group, 0 for none
  bDone,     \* item->bDone
  age,       \* ticks since item->timestamp, up to one more than the expiry
  scan,      \* the items due that the pass of KNX_DevDebounce has still to visit
  scanning,  \* KNX_DevDebounce holds kv_lock
  queue,     \* pMonitorQueue
  handling,  \* the telegram KNX_DevMonitorEntry reports
  reported,  \* the last telegram of each group it reported, 0 for none
  refused    \* the groups whose last telegram a full queue refused

vars == <<sent, pData, value, bDone, age, scan, scanning, queue, handling, reported, refused>>
table == <<value, bDone, age>>
debouncer == <<scan, scanning>>
monitor == <<handling, reported>>

\* kv_set, called by the parser, leaves an item without a value.
Init ==
  /\ sent = [g \in Groups |-> 0] /\ pData = NoData
  /\ value = [g \in Debounced |-> 0] /\ bDone = [g \in Debounced |-> FALSE]
  /\ age = [g \in Debounced |-> 0]
  /\ scan = {} /\ scanning = FALSE
  /\ queue = <<>> /\ handling = NoData
  /\ reported = [g \in Groups |-> 0] /\ refused = {}

-----------------------------------------------------------------------------
\* queue_put by a producer that ignores a refusal, or frees the telegram
QueuePut(t) ==
  /\ queue' = IF Len(queue) < QueueMax THEN Append(queue, t) ELSE queue
  /\ refused' = IF Len(queue) < QueueMax THEN refused ELSE refused \cup {t.grp}

\* A line of the text monitor of eibd, as far as KNX_ParsePacket looks at it:
\* whether the digits of the value can be read, and whether the sender is one of
\* the gateway's own addresses
Lines == [cmd : {"Write", "Response", "Read"}, readable : BOOLEAN, repeated : BOOLEAN, own : BOOLEAN]
KNX_ParsePacket(line) ==
  CASE line.cmd = "Read" -> -2
    [] line.cmd = "Write" /\ ~line.readable -> -1
    [] OTHER -> IF line.repeated THEN -3 ELSE IF ~line.readable THEN -1 ELSE IF line.own THEN -4 ELSE 0

\* KNX_BusMonitorEntry receives a telegram that KNX_ParsePacket accepts.
Receive(g) ==
  /\ pData = NoData
  /\ \E line \in Lines :
       LET n == IF line.repeated THEN sent[g] ELSE sent[g] + 1 IN
       /\ KNX_ParsePacket(line) = 0 /\ n \in 1..MaxTelegrams
       /\ sent' = [sent EXCEPT ![g] = n]
       /\ pData' = [grp |-> g, n |-> n]
  /\ UNCHANGED <<table, debouncer, queue, monitor, refused>>

\* (fault) kv_update takes the read lock
kv_updateReadLock(g) ==
  /\ pData # NoData /\ pData.grp = g /\ g \in Debounced
  /\ value' = [value EXCEPT ![g] = pData.n]
  /\ bDone' = [bDone EXCEPT ![g] = FALSE]
  /\ age' = [age EXCEPT ![g] = 0]
  /\ pData' = NoData /\ refused' = refused \ {g}
  /\ UNCHANGED <<sent, debouncer, queue, monitor>>

\* (fault) kv_update leaves bDone alone
kv_updateKeepDone(g) ==
  /\ pData # NoData /\ pData.grp = g /\ g \in Debounced /\ ~scanning
  /\ value' = [value EXCEPT ![g] = pData.n]
  /\ age' = [age EXCEPT ![g] = 0]
  /\ pData' = NoData /\ refused' = refused \ {g}
  /\ UNCHANGED <<sent, bDone, debouncer, queue, monitor>>

\* kv_find knows the group: kv_update, under the write lock
kv_update(g) ==
  /\ pData # NoData /\ pData.grp = g /\ g \in Debounced /\ ~scanning
  /\ value' = [value EXCEPT ![g] = pData.n]
  /\ bDone' = [bDone EXCEPT ![g] = FALSE]
  /\ age' = [age EXCEPT ![g] = 0]
  /\ pData' = NoData /\ refused' = refused \ {g}
  /\ UNCHANGED <<sent, debouncer, queue, monitor>>

\* kv_find does not know the group.
Forward ==
  /\ pData # NoData /\ pData.grp \notin Debounced
  /\ LET g == pData.grp IN
       /\ queue' = IF Len(queue) < QueueMax THEN Append(queue, pData) ELSE queue
       /\ refused' = IF Len(queue) < QueueMax THEN refused \ {g} ELSE refused \cup {g}
  /\ pData' = NoData
  /\ UNCHANGED <<sent, table, debouncer, monitor>>

-----------------------------------------------------------------------------
Due(g) == ~bDone[g] /\ age[g] > Expire[g]

\* KNX_DevDebounce takes the read lock and the time.  Nobody changes an item
\* while it holds the lock, so the items due are fixed.
ScanBegins ==
  /\ ~scanning /\ scanning' = TRUE
  /\ scan' = {g \in Debounced : Due(g)}
  /\ UNCHANGED <<sent, pData, table, queue, monitor, refused>>

\* HASH_ITER visits the items in the order of the table.
NextItem(g) ==
  \E i \in DOMAIN Table : Table[i] = g /\ g \in scan /\ \A j \in 1..(i - 1) : Table[j] \notin scan

\* (fault) bDone is not set
ScanItemAgain(g) ==
  /\ scanning /\ NextItem(g) /\ scan' = scan \ {g}
  /\ IF value[g] # 0 THEN QueuePut([grp |-> g, n |-> value[g]]) ELSE UNCHANGED <<queue, refused>>
  /\ UNCHANGED <<sent, pData, table, scanning, monitor>>

\* One item of the pass: an item that never had a value is only marked.
ScanItem(g) ==
  /\ scanning /\ NextItem(g) /\ scan' = scan \ {g}
  /\ bDone' = [bDone EXCEPT ![g] = TRUE]
  /\ IF value[g] # 0 THEN QueuePut([grp |-> g, n |-> value[g]]) ELSE UNCHANGED <<queue, refused>>
  /\ UNCHANGED <<sent, pData, value, age, scanning, monitor>>

ScanEnds ==
  /\ scanning /\ scan = {} /\ scanning' = FALSE
  /\ UNCHANGED <<sent, pData, table, scan, queue, monitor, refused>>

\* Time passes.
Tick ==
  /\ \E g \in Debounced : age[g] <= Expire[g]
  /\ age' = [g \in Debounced |-> IF age[g] <= Expire[g] THEN age[g] + 1 ELSE age[g]]
  /\ UNCHANGED <<sent, pData, value, bDone, debouncer, queue, monitor, refused>>

-----------------------------------------------------------------------------
\* KNX_DevMonitorEntry: queue_get_wait ...
MonitorTakes ==
  /\ handling = NoData /\ queue # <<>>
  /\ handling' = Head(queue) /\ queue' = Tail(queue)
  /\ UNCHANGED <<sent, pData, table, debouncer, reported, refused>>

\* ... and the seven report functions, which may wait for a serial port
MonitorReports ==
  /\ handling # NoData /\ handling' = NoData
  /\ reported' = [reported EXCEPT ![handling.grp] = handling.n]
  /\ UNCHANGED <<sent, pData, table, debouncer, queue, refused>>

BusMonitorStep == Forward \/ \E g \in Debounced : kv_update(g)
DebounceStep == ScanBegins \/ (\E g \in Debounced : ScanItem(g)) \/ ScanEnds
DevMonitorStep == MonitorTakes \/ MonitorReports

Next == (\E g \in Groups : Receive(g)) \/ BusMonitorStep \/ DebounceStep \/ Tick \/ DevMonitorStep

Spec == Init /\ [][Next]_vars

\* The three threads run and time passes; a write lock that is free again and
\* again is obtained.  Nothing is assumed of the bus.
Fairness == /\ SF_vars(BusMonitorStep) /\ WF_vars(DebounceStep)
            /\ WF_vars(Tick) /\ WF_vars(DevMonitorStep)
FairSpec == Spec /\ Fairness

-----------------------------------------------------------------------------
(* Properties *)

TypeOK ==
  /\ sent \in [Groups -> 0..MaxTelegrams] /\ pData \in Telegrams \cup {NoData}
  /\ value \in [Debounced -> 0..MaxTelegrams] /\ bDone \in [Debounced -> BOOLEAN]
  /\ age \in [Debounced -> Nat]
  /\ scan \subseteq Debounced /\ scanning \in BOOLEAN
  /\ queue \in Seq(Telegrams) /\ Len(queue) <= QueueMax
  /\ handling \in Telegrams \cup {NoData}
  /\ reported \in [Groups -> 0..MaxTelegrams] /\ refused \subseteq Groups

\* The telegrams of a group on their way, each with its place: reported last,
\* in the hands of KNX_DevMonitorEntry, in the queue, in the table and not yet
\* put, in the hands of KNX_BusMonitorEntry.
Pipeline(g) ==
  {<<0, reported[g]>>}
  \cup (IF handling # NoData /\ handling.grp = g THEN {<<1, handling.n>>} ELSE {})
  \cup {<<1 + i, queue[i].n>> : i \in {k \in DOMAIN queue : queue[k].grp = g}}
  \cup (IF g \in Debounced /\ ~bDone[g] /\ value[g] # 0 THEN {<<QueueMax + 2, value[g]>>} ELSE {})
  \cup (IF pData # NoData /\ pData.grp = g THEN {<<QueueMax + 3, pData.n>>} ELSE {})

\* A burst on a debounced group is reported once, and never after something
\* newer of its group: along the pipeline the telegrams of a group increase.
InOrderOnce ==
  \A g \in Groups : \A s, t \in Pipeline(g) : s[1] < t[1] => s[2] < t[2]

\* A debounced value enters the queue only when its group has been quiet for
\* longer than its expiry, although the items due are chosen at the start of
\* the pass and put one by one.
QuietBeforeReport ==
  [][\A g \in Debounced : Len(queue') > Len(queue) /\ queue'[Len(queue')].grp = g
       => age[g] > Expire[g]]_vars

\* When a group falls silent its last telegram is the one reported, unless the
\* full queue refused it: then KNX_DevDebounce has marked it done and nothing
\* tries again.
LastIsReported ==
  \A g \in Groups : \A n \in 1..MaxTelegrams :
    <>[](sent[g] = n /\ g \notin refused) => <>[](reported[g] = n)
=============================================================================
