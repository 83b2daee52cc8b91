# A TLA+ model of the HiMax smart-home gateway

The gateway (`src/source`) stands between a cloud service (the Tuya library), a
KNX installation (through the daemon eibd) and Modbus devices on RS485 lines.
It is one C process: `main` reads an XML configuration into lists of devices,
links them, loads a plugin per device (`src/plugin/compile`), starts a pool of
threads with jobs that run for ever, and then everything happens in those jobs
and in the callbacks of the cloud library.

This directory holds TLA+ modules for the parts of the program in which order,
concurrency, failure and hand-written case distinctions matter, TLC
configurations that check them on small instances, and TLAPS proofs of the most
important invariants for every instance. `PROJECT.json` maps each definition to
the lines it models, and lists the runs, the mutants that show that each
property can fail, the hazards and the theorems.

    tlc -workers 2 -config MCVentSync.cfg MCVentSync     # one run
    tlapm MsgQueueProofs.tla                             # one module of proofs

## 1. Inventory

| component | source | state | operations | status |
|---|---|---|---|---|
| message queue | `queue.c`, `queue_internal.c` | linked list, `num_els`, `new_data`, a mutex, two condition variables | put, put_wait, get, get_wait, get_filtered, four flushes, set_new_data, destroy | modelled, proved |
| thread pool | `thpool.c` | job list, binary semaphore, counters of living and working threads, hold flag | init, add_work, wait, destroy, pause, resume, worker loop | modelled |
| threads of the gateway, watchdog | `main.c`, `KnxInit`, `ModbusInit`, `ThreadDogEntry` | which jobs run, queue of the watchdog | submission at start, transient jobs, end and restart of the bus monitor | modelled but for what the jobs do |
| serial ports and sessions | `serialHandle.c`, `modbusHandle.c` | a mutex per port, a descriptor per line, receiver jobs | open, send, read, close, receiver | half-duplex lines modelled |
| KNX reception | `knxHandle.c`, `point.c` | debounce table, queue of telegrams | parse a line, bus monitor, debounce pass, device monitor | modelled |
| KNX devices | `knxHandle.c`, `main.c`, `parseXML.c` | list of devices, three queues, heartbeat counters, bindings, modes of the panels in memory and in the file | seven control and seven report functions, state requests, bind, unbind, command, restart | seven kinds modelled, without scenes and brightness |
| Modbus master with KNX panel | `modbusHandle.c`, `knxHandle.c` | value at each place, `valueOld`, `forceSync`, queues | ModbusDevWrite, polls, ModbusDevMonitor, panel report and write | one point modelled, proved |
| device plugins | `plugin/compile/*.c` | static tables of received values | build and parse frames, convert values | 23 Modbus and 11 KNX plugins modelled |
| configuration parser | `parseXML.c` | the device under construction, key variables, lists | one function per section | modelled |
| association, groups, plugin loading | `main.c` | links, chains, interface pointers, open libraries | associateKnxDev, associateModbusDev, ModbusDevGroup, LoadZ3Plugin, LoadModbusPlugin, LoadKnxPlugin | modelled |
| callbacks of the cloud library | `main.c` | bindings, notes in two position queues, watched devices | activation, connection, removal, reset, add, bind, delete, position reports, restart | modelled |
| digital inputs, key | `main.c` | level, debounce counter, recorded and shown state; press counters, mode file | `di_scan`, `key_scan`, engineering and business mode | modelled; LEDs are not |
| linked list | `list.c` | nodes, match method | search | search modelled; elsewhere a list is a sequence |
| local server, update, production data, network drivers, helpers, Zigbee, auxiliary programs | see `PROJECT.json` | – | – | not modelled (section 6) |

### How the parts interact

    ObjectModel.xml --Parse*Cfg--> device lists --associate*, ModbusDevGroup, Load*Plugin--> running gateway

    cloud library --callbacks--> _dev_obj_cmd_cb ---> KnxGroupWrite --pWriteQueue--> KNX_DevWriteEntry --> eibd
         |                            |
         |                            +-- build() --> ModbusDevWrite --port mutex--> RS485 line
         +--> bindings, position queues --> ReportPosThread, ReportBindPosThread       | reply
                                                                                       v
    eibd --> KNX_BusMonitorEntry --(debounce table)--> pMonitorQueue    receiver job, parse() --queue--> ModbusDevMonitor
               |                                          |                                     |        |
               v                                          v                                     v        v
          watchdog queue                        KNX_DevMonitorEntry                           cloud   KnxGroupWrite
               |                                  |            |
               v                                  v            v
          ThreadDogEntry                        cloud     ModbusDevWrite (controllers)

All jobs share one thread pool of 15; receivers run in a pool of 30 of the
serial module. Queues are of type `queue_t`, limited to 10, 100 or 200 elements,
and every producer uses `queue_put`, which refuses when the queue is full.

### What is hard

* the queue's wakeups, its closing and its destruction from `atexit`;
* the binary semaphore of the pool, the unlocked reads of its counters;
* jobs that never return and jobs that must run share a pool of fixed size;
* the port mutex is locked by one thread and unlocked by another, on every
  error path;
* two threads put telegrams of one group into one queue, and the bus repeats;
* three places show the state of one device and two of them command it, over
  links that lose messages and with a filter that withholds repetitions;
* a report, a read or a write is tried once; only heartbeats repeat;
* the gateway may restart with commands and telegrams in its queues;
* bindings change while reports are under way, and the removal of the gateway
  must end with none left;
* answers on an RS485 line come late and are read by the next session; plugins
  rebuild registers from what they received last;
* 6800 lines of hand-written parsing fill the lists everything else relies on:
  templates are copied field by field, and keys outlive their cell.

## 2. Modules

`JobPool` is the abstract thread pool, implemented by `ThreadPool` and used by
`GatewayThreads`; `MsgBuffer` is the abstract queue, implemented by `MsgQueue`. `Main` composes `ConfigParser`, `Boot` and `Home`, the phases of
`main()`. The other composition is by assumption, named in the header of each
module: `VentSync` and `PluginLine` take a session on a port as exclusive
(`SerialBus` shows that sessions exclude each other and end), `KnxDevices` takes
telegrams of a group to arrive in the order of the bus (`KnxMonitor`), and all of
them take a queue to be a sequence with a limit, which is what `MsgBuffer` says
and `MsgQueue` is shown to implement.

**MsgQueue** – `queue_t` at the grain of its mutex. `els` is what can be reached
from `first_el`, `linked` whether `last_el` is the last of it (a filtered get can
break that), `num_els` the counter. A blocking call is one action up to
`pthread_cond_wait` and one for each return from it; signals choose any sleeper,
spurious wakeups are possible. `queue_set_new_data` is split at its unlock,
before and between the broadcasts, because it re-reads `new_data` there. `Calls`
says which thread may call what. **MsgBuffer** – what is left without lock,
counter and sleepers: a buffer that is open or closed, takes an element while it
is open and has room (at its end, or where the order wants it), and gives out
its head; flushes and filtered gets are steps of it only where a thread may call
them, and only a closed buffer is dropped.

**ThreadPool / JobPool** – one action per critical section of `thread_do`,
`jobqueue_push`, `jobqueue_pull`, `thpool_wait`, `thpool_destroy`; a pending
SIGUSR1 may stop a worker at any point. `Finite` are the jobs that return, and
`Unpaused` says that no worker is stopped or about to be.
`JobPool` says: jobs start in order of submission, each once, and a free worker
starts the next.

**GatewayThreads** – the list of permanent jobs in the order in which `main`
submits them, the transient jobs of heartbeats and of the periodic
synchronisation, the bus monitor that ends when eibd is not reachable, its note
in the watchdog's queue, and the watchdog's resubmission. Real constants: 15
workers, 10 notes.

**SerialBus** – `SerialOpen` (lock, open, configure with its error paths), the
frame, `SerialRead` with the receiver job, `SerialClose` (close, then unlock) for
the four kinds of session: command of the cloud, command of a panel, health
request, synchronisation of the whole list. A line is a configuration block;
several lines may share a port.

**KnxMonitor** – a telegram is a group and a number. `Lines` are the lines eibd
may print (a write, a response, a repetition, something else) and
`KNX_ParsePacket` says which of them become a telegram. The debounce table has an
age per entry instead of time stamps, and `Tick` is the clock. `kv_update` waits
for the read lock that a debounce pass holds from beginning to end.

**KnxDevices** – the list of devices in order, since what an unbound device does
to those behind it depends on the order. `Fate` is the walk of a report function
up to the device the telegram is for: shadowed by an unbound master before it,
sent to the cloud, or handed to Modbus. `ReportObjDp` may always fail. `Send`
covers the calls to eibd. A curtain's point is its up or down on the bus, and
its command is sent the wrong way round (section 3). The mode of a smart panel is changed in memory and in
the file (`saved`), whose update may fail; `Restart` empties the queues and takes
the modes from the file. `dropped`, `excused` and `shadowed` record why a point
may differ from the bus; they are history variables and guard nothing.
Abstractions: a master is an actuator and the others are controllers; points
have two values; left out are the stop of a curtain, brightness, scenes,
write-only and read-only points.

**VentSync** – one point of a Modbus device with a KNX panel. A command of the
cloud is first echoed to it (`main.c:494`), then sent. `lost` records that
a transmission failed or that the initial values are unknown. Two threads run
`ModbusDevWrite`; `rq`, `wq` and `kq` are the queues between the four threads.

**PluginFrames, MbusAcdPlugins, MbusVentPlugins, MbusMiscPlugins, KnxPlugins** –
every plugin as operators: `X_build` turns a command or a poll into bytes,
`X_parse` turns received bytes into points, with the plugin's tables, registers
and static data; the KNX plugins convert to and from the raw value of a group
object, two-byte floats included. The bytes of checksums are zeros; a flag of
the received buffer says whether they are right. **PluginDevices** dispatches by
plugin name; **PluginLine** puts two units of a plugin on a line with the devices
behind them, which execute frames and answer. Requests are lost, answers are
lost or come after their session gave up.

**ConfigRules** – how a branch of a parser treats one element: the outcome
(stored, skipped, exit, crash, a loop that never moves on) for each form an
element can have. **ConfigMbus** and **ConfigKnx** are one table per parser:
elements in the order of the branches, the fields they set, what a copy of a
template takes over, which keys outlive the cell. **ConfigParser** runs a table
over a section. The document is complete and has two cells, but for at most one
deviation in one element.

**Boot** – from the lists to linked devices with plugins: foreign keys, groups,
interfaces. `main` calls six functions (`Calls`), each walks one list, and one
action is one turn of its loop (`at` is the node); `Return` is the end of a loop
and the next call. A key is a protocol and a number; `FirstWord` is what
`ModbusDevIdMatch` reads when it is handed a key's text. **Home** – the running
gateway: what the cloud library keeps (`bound`, over restarts), its callbacks one
at a time, the two position threads, the key and one digital input. Removal and
reset walk over the bound devices with the library's traversal: `dev_if` is the
device in hand, `iter` what the traversal has still to return, and a refused
unbind keeps `dev_if`. The callbacks and the inputs share only the connection and the mode file, so a
behaviour exercises one or the other (`awake`). **Main** – the three in sequence.

The modules named `...Proofs` hold the theorems (section 4). `MC*` modules only
define constants.

Definitions marked "(fault)" are wrong variants of the definition after them.
The specification uses none of them; they are what the mutants in
`PROJECT.json` put in its place. `TypeOK` documents the variables and is proved
where section 4 says so.

## 3. Runs

| run | instance | shows |
|---|---|---|
| MCMsgQueueBlocking | 5 threads, limit 2, two values; one thread opens, closes, destroys | no lost wakeup of getters or putters, closing releases every sleeper, destruction frees nothing in use; liveness `CloseReleases`, `GettersServed`; the queue implements `MsgBuffer` |
| MCMsgQueueSorted | unlimited sorted queue, `UINTX_MAX` = 4, three values, malloc may fail, every call but destroy | the counter stops short of its maximum, the list stays sorted |
| MCThreadPool | 2 workers, 3 jobs, 2 clients, one waits and destroys, the other pauses and resumes | no stranded job, `thpool_wait` sound and live, `thpool_destroy` quiet and, in a pool that is not left paused, live; the pool implements `JobPool`, with its liveness once pausing ends |
| MCGatewayThreads | the real job list and sizes, digital inputs configured | one bus monitor at any time, and it always returns |
| MCGatewayThreadsQueries | the same | **violation**: see the findings |
| MCSerialBus | 3 lines on 2 ports, 4 callers, 2 workers, one device answers | a locked port has exactly one owner with its descriptor, every port is released |
| MCKnxMonitor | two debounced groups, one not, 2 telegrams each, queue of 2 | reports in order and once, only after the quiet time, and the last value is reported unless the queue refused it |
| MCVentSync | 2 values, 2 commands, 2 presses, queues of 2, `MBUS_FORCE_SYNC_NUM` = 1 | agreement at rest without losses; agreement in the end after losses |
| MCKnxDevices | smart panel (master, online check) and wall panel (controller), one command, two other inputs, restarts among them | at rest everything not excused is in step; heartbeats repair the first point |
| MCPlugins | each of 34 plugins, two units (two addresses, or two registers of one), every value of an enumeration, the ends of a set temperature (the upper one for DaikinAcd), room temperatures from -20 to 80, 2 commands and any number of polls | what is reported is what the unit was told, but for the named exceptions; a late answer of another address is ignored; a command leaves the other points alone |
| MCMain | 23 sections with every single deviation in two cells; three homes (a Modbus ventilation with its KNX panel, crossed links, a group of three) | the lists say what the document says, legal documents load, links point both ways, interfaces are in open libraries, positions become known, inputs are shown and glitches ignored, a removal does not end while a device is bound |
| MCMainGroups | the same | **violation**: see the findings |

*Why the bounds are enough.* The queue needs two sleepers of each kind and a
limit that can be hit while both sleep. The pool needs more jobs than workers and
two pushes before one pull; its jobs are interchangeable, so the run lets them be
submitted in one order only (`InOrder`). The serial instance has two lines on one port and
a second port, so that sessions compete and run in parallel. In `VentSync` two
commands and two presses let each side overtake the other once while an older
reply is under way; with 1 instead of 3 for `MBUS_FORCE_SYNC_NUM` a repetition is
withheld and then forced. `KnxDevices` has a queue of reads of length one, so
that it refuses, and `HB_IGNORE` = 1, so that a heartbeat is ignored and the
next is not. Its run has only two of the seven kinds of device for size: the
smart panel has the longest control function and the wall panel is the one that
commands Modbus; the other kinds differ in the order of report and send. A
plugin's frame holds the points of one unit, so two commands (one before and one
after a poll, or to two units) show every pair of points in every order of
values. Two cells are enough for what one cell leaves to the next, two copies
for what copies share, and each element has a branch of its own, so deviations
in two elements meet only in the log lines listed below. Queues of one position
note refuse at the second. `RetryNum` and the number of clicks are the code's;
`LongPress` is 3 instead of 250 events.

*Fairness.* Everywhere: a thread that can run, runs (weak fairness of its steps);
nobody is forced to call, press or command, and a mutex promises no order.
`KnxMonitor` assumes strong fairness of the bus monitor's steps, because a write
lock that becomes free again and again is obtained eventually. The repair
properties need more: `VentSync!Fairness` and `KnxDevices!Fairness` say that of
polls, reads, reports and writes *repeated for ever* not all fail, and that the
cloud library keeps asking for heartbeats. The first polls are repeated by
`Mbus_DelaySyncAllDevStatus` every 30 or 60 seconds; the heartbeats are requested
by the cloud library, which is an assumption about it. Nothing is assumed of
single transmissions, and `MainSpec` has no fairness: that a removal ends would
need a library that does not refuse to unbind for ever. The conditions
on pausing in the liveness properties of the pool are assumptions about its
callers, of which nothing in the code forces one to resume.

Deadlock is checked except where the system may stop: after destruction of a
queue or pool, in the two synchronisation models once their inputs are used
up and nothing is under way, and on a line whose commands are used up.

### Findings

**No worker for the queries** (`QueriesServed`, run MCGatewayThreadsQueries).
`main` makes a pool of 15 workers (`main.c:1378`). `KnxInit` gives it 6 jobs that do
not return, `ModbusInit` one and `main` seven, and an eighth, `di_scan`, when
digital inputs are configured (1532), as water and smoke are in
`ObjectModel.xml:456-481`. The heartbeat callback, "when the cloud queries, the
gateway actively queries the state of the sub-device" (`main.c:700`), submits its
queries to the same pool, and so does the periodic synchronisation. They stay in
the queue of the pool for ever, unless the bus monitor fails or `key_scan` could
not open its device. Without `di_scan` one worker is left and every job starts.

**No group** (`GroupsReached`, run MCMainGroups). `ModbusDevGroup` (`main.c:2093`) searches the Modbus list with the text of a key,
but `ModbusDevIdMatch` (`modbusHandle.c:25`) compares `devId` with the first four
bytes it is given, which are characters of the MAC. No group of
`ObjectModel.xml` is ever formed, so a command reaches the owner only. The same
mistake in `main.c:2049` keeps `associateKnxDev` from linking anything, and in
`main.c:627` makes the online check of a Modbus device impossible to switch off;
`DumpMbusDevInfo` (2526) finds nothing. (The group is in `ObjectModel.xml:485-492`;
the air conditioners it names are commented out there, and the run has them.)

### Seen while modelling, without a run of their own

What the models show or the code says, and no property claims otherwise: where
one of these touches a property, the property names the exception.

*Queue.* `queue_get_filtered` of the last of several elements leaves `last_el` at
freed memory (`queue_internal.c:201`); the next put is counted and unreachable
(the gateway does not call it; `CountMatchesList` is checked without it, and the
theorem states the condition). A flush wakes no putter; `queue_put` on a full
queue returns -7, where `queue.h:210` says "> 0 if max_elements is reached". When
two threads set `new_data` at once, wakeups can be lost; a woken putter whose
malloc fails passes none on. A consumer woken by `queue_destroy` may lock a
mutex that has been freed.

*Pool.* `thpool_wait` is woken by one signal: a second waiting thread stays. The
last worker unlocks a mutex of a pool that may be freed (388 against 249), which
`DestroyedIsQuiet` allows it. A worker stopped by `thpool_pause` may hold `rwmutex`.
A SIGUSR1 that arrives after `thpool_resume` sets `threads_on_hold` again
(`thpool.c:307-314`), so a resumed pool may stop once more and stay so, and a
pool that stays paused cannot be destroyed: `DestroyReturns` and
`ImplementsLivePool` are conditional on `Unpaused`. The gateway destroys and
pauses no pool.

*KNX.* Five report functions leave their loop at an unbound master
(`knxHandle.c:963, 1160, 1229, 1297, 1347`) where `Knx_VentReport` (1070)
continues: one unbound device silences bound ones behind it (`shadowed`).
`Knx_CurtainCtrl` writes to the curtain's own group (its `pCtrl` shares the memory
of the `pGroup` that `ParseKnxCurtainCfg` makes), but with the opposite polarity: it
sends 0 for open and 1 for close (897-904), while `Knx_CurtainReport` (1431-1445) and
`ObjectModel.xml:411-412` (`open value="1"`, an attribute nobody reads) have 1
for open. The curtain moves against the command, and the cloud, told the
command first, is then told what the curtain does; so `AtRestSynced`, which compares
the cloud with the bus, holds. `Knx_CurtainReport` has no binding test.
`Knx_RequestHB` asks only for the first key of a panel: what is lost of another
key stays wrong until it is used again. Brightness is scaled by 255/max and
back, both truncating (791). `Knx_HeatReport` uses `pIf` without testing it
(1172). A rejected telegram in `Knx_DimmerReport` passes a group address where
`KnxGroupWrite` expects a device key. `KNX_ParsePacket` accepts lines of other
kinds with value 0. A debounced telegram is copied and not freed (1551);
`KnxGroupRead` leaks its connection on failure (1694). The watchdog would start
`KNX_DevWriteEntry` on the wrong queue (2020), and two of its entries have no pool
(2223, 2228); neither thread can end. `Knx_SmartPanelModeReport` has no caller.

*Modbus.* For a device that does not answer, the value is reported to cloud and
panel although the frame was lost (`modbusHandle.c:120`). `Mbus_RequestHB` passes
the callback's string to a job that runs later (782); `ModbusDevMonitor` returns
for good on a key without number (215). The walk over group members opens the
member's port but sends on the owner's, and returns with a port locked when a
frame cannot be built (150-177); no group is ever formed, so it is not reached.

*Callbacks.* Deleting one sub-device unbinds every device of its protocol
(`_misc_dev_del_cb`). After a restart every bound device is watched, also those
configured without online check (1017-1034). A refused unbind is repeated at
once and without limit (362, 421). A Zigbee cell without `SharedLibrary` makes
`LoadZ3Plugin` call `strlen(NULL)` (1671); the model has no such cell. `pPosQueue` holds pointers into a stack frame that
is gone (346, 387), of which only the arrival is used; `pBindPosQueue` holds
descriptors of devices that may be unbound by the time they are reported (612,
2314). `associateModbusDev` frees the foreign key's text and keeps the pointer
beside the new one (2074). `ModbusDevGroup` stops at the first group whose owner
is missing (2094) and spins at a member that is missing (2101).
`LoadModbusPlugin` and `LoadKnxPlugin` close an incomplete library and keep the
interface (1757, 1815), and leave a library open whose name has no dot.
`di_scan` reads the entries of digital outputs as inputs and never repeats a
change that fell into an outage (2381). `engineer` is never assigned, so
`flashLight` never blinks; the counter of short presses is never reset, so
five presses over any time change the mode (1605).

*Plugins.* `DefectivePoints`, `SignLost`, `TrustAnyAck`, `Deaf` and `Unreadable` in
`PluginLine` name what the properties leave out: no KNX plugin reports a
temperature below zero, because `ConvetUint162Temp` does not extend the sign
(`KNX_Aircondition_STEC.c:59-73` and the same in every other), although their
headers give ranges from -20 or -10 (at -5 the cloud is shown a positive value); ZhongHong's acknowledgement swaps low and
high speed; TG's switch is shifted out of its register; ERDH's branches for set
and clear are reversed; Dooya echoes the raw action; a late acknowledgement of
Broan reports values not yet executed; noah and BinThen look for no address, so
a late answer is taken for the asker's; polls of TG and DTouch are not
understood. Further: a Daikin switch command before the first poll clears the fan
speed; SPTC's poll counter is shared by its units; most plugins check no
checksum; Ohosure's air sensor reports under points of a floor heating;
`Mbus_Curtain_HeChuang.c:188` exports `Mbus_Curtain_HeChaung`, so its symbol is
never found.

*Configuration.* An empty element crashes every parser; nested content makes
several loops spin. Copies of a ventilation or a floor heating template lack
points (`parseXML.c:950`); AQI and Panel copies read the wrong record (1937, 3011);
a wrong gateway attribute falls through to reset (217-226). Log lines read a
point that may be missing (1319, 1346, 1373, 1400, 1427, 1860); a cell without
foreign key inherits the last one's, into memory it does not have (5254, 5523,
6024, 6431, 6589): `Fragile` and the parts of `DevicesFaithful` name these.
`ParseGroupCfg` with member_sum 0 writes before its array (6745) and does not
bound the members (6775). `UpdateKnxSmartPanelMode` rewrites the only copy of the
configuration in place (5557).

*Update.* `upgrade.c` keeps two slots and a rollback flag, but nothing refers to
it: the callback in force (`main.c:435`) unpacks the archive over the root.

## 4. Proofs

Eight modules hold the proofs, one per component. Each theorem is about every
value of the constants its model allows: any numbers of threads, devices, ports,
groups and values, any limits and bounds. The named `ASSUME`s of a model are all
that is used of its constants, and the runs evaluate them. Liveness is not
among the results, so fairness plays no part in any of them.

### `MsgQueueProofs`

Any finite set of threads, any integer values, any limit, order and assignment
of calls. The assumption that is more than a type is `DestroyAssumption`: the
thread that destroys the queue is the only one to open, close or destroy it, as
the exit handlers of the gateway do.

| theorem | argument |
|---|---|
| `TypeCorrect` | inductive as it stands; needs that `Unlink` runs only with `num_els # 0` |
| `CapacityHolds` | each action adds at most one element, and only after the test on the current counter; with `UINTX_MAX` the counter cannot wrap |
| `CountIsLength` | for queues that are sorted or never filtered (`ListIsMaintained`); strengthened by `CountInv`, which adds that `last_el` is the last element |
| `ClosedReleasesSleepers` | `ClosedInv`: while a closed queue has sleepers, some thread is between the unlock and the broadcast that wakes them |
| `GetWakeupsSuffice` | counts threads: a put adds one element and one woken getter, a woken getter removes both; needs `CountInv` and cardinalities of sets of threads |
| `DestroyIsSafe` | `DestroyInv`: from the moment the destroyer has closed the queue nobody can open it, and it stays closed and empty |
| `OrderIsKept` | `SortedOrder` is inductive once it is known what the operators do: the position `SortedPos` finds has no larger neighbour before it and no smaller one after it (`SortedPosFits`), so inserting there keeps the order (`InsertSorted`), and so does taking any element out (`RemoveSorted`) |
| `PutWakeupsSuffice` | the counterpart of `GetWakeupsSuffice` for room instead of elements; needs `Capacity`, `ClosedInv`, `DestroyInv` and that only controllers are in `queue_set_new_data` |
| `Refinement` | `Spec => ImplementsBuffer` where the list is maintained; `BufferInv` joins `CountInv` (the counter that `Full` tests is the length of the list, and a put appends behind the last element), `Capacity`, `SortedOrder` and `DestroyInv` (a queue is dropped only when closed). A call is a step of the buffer when it links or unlinks an element, and invisible while it sleeps, is woken or returns (`BufferStep`) |

`PutWakeupsSuffice` is stated under `PuttersProtected`, and each part of it names
something the code does: `queue_flush` makes room and wakes nobody; a woken put
whose `malloc` fails returns and passes its wakeup on to nobody; and a thread
that opens the queue between another one's unlock and its second look at
`new_data` suppresses the broadcast. Without any one of the three TLC finds a
putter that is left asleep. Run MCMsgQueueBlocking satisfies them all, and so do the queues of the
gateway but for the `malloc`.

### `VentSyncProofs`

Any values, queue limits, numbers of commands and `MBUS_FORCE_SYNC_NUM`, under
`SyncAssumption`. `AtRestAgree` says nothing of states with something under way,
so it is not inductive. `SyncInv` follows the newest value: the end of `rq` is the
state of the device, and with `rq` empty the cloud can be ahead of it only while
the command it was told of is in its session (`DeviceKnown`), the end of `wq` is the value forwarded last
(`PanelDriven`), and a panel that shows anything else has its telegram on the way
to the device or the reply on the way back (`PanelChased`). For a device that
answers, `ModbusDevWrite` ends with the session (`NoTail`). Theorems:
`TypeCorrect`, `RestMeansAgreement`.

### `ThreadPoolProofs`

Any workers, clients and jobs. The invariant `IInv` has six parts.

| part | says | why it is needed |
|---|---|---|
| `TypeOK` | types | |
| `Counted` | `alive` and `working` are the numbers of workers between the lines that change them | `thpool_wait` and `thpool_destroy` read only the counters |
| `Phase` | nobody uses the pool before every worker reported in; none but the destroyer is in a call once `threads_keepalive` is cleared; a freed pool has no worker | the calls rely on the order of the phases |
| `OwnInv` | a worker has a job from the pull to its end; `rwmutex` is owned by who posts | a post happens inside the mutex |
| `WayInv` | a queued job has the semaphore set for it or somebody on the way; a semaphore set beside a sleeper is about to be taken | `NoStrandedJob` speaks of both at once and is not inductive |
| `JobInv` | every submitted job is queued, held by one worker, or finished | `thpool_wait` concludes it from two counters |

Theorems: `TypeCorrect`; `NoJobIsStranded` (from `WayInv`); `DestroyIsQuiet` (from
`Phase` and `OwnInv`); `WaitIsSound` (the queue is empty and nobody works, so
`JobInv` leaves only "finished"); and `Refinement`, `Spec => ImplementsPool`: the
initial states map to those of `JobPool`, and under `IInv` each action is one of
its steps or leaves the mapped variables alone. `SIGUSR1` may stop a worker
anywhere; a stopped worker takes no step, so pausing needs no case of its own.
`ImplementsLivePool` adds the liveness of `JobPool` and stays with TLC.

### `GatewayThreadsProofs`

Any size of the pool, with and without digital inputs. `OneBusMonitor` counts
notes and monitors; by itself it does not exclude a step of a monitor that no
worker runs, so `BusRuns` ties the variable of the monitor to the pool. The other
part is that the running jobs are a finite set, so `FreeWorkers` counts.
Theorems: `TypeCorrect`, `OneBusMonitorHolds`.

### `SerialBusProofs`

Any ports, lines, devices, callers and receivers. `PortDiscipline` counts the
owners of a port, and a count does not say which of them leaves. `OwnInv` names
them: no two owners (caller in a session, device waiting for a receiver,
receiver at work) have the same port, every owner's port is locked, and every
locked port has an owner. `FdInv` does the same for the descriptors: a session
that has opened its line finds it open, and an open line belongs to one. The
counts follow from both. Theorem: `PortDisciplineHolds`.

### `KnxMonitorProofs`

Any groups, debounce table, expiries and queue limit. `ScanInv`: an item that the
pass has still to visit is not done and has been quiet, since nobody touches an
item while the pass holds `kv_lock`; this gives `QuietBeforeEveryReport`.
`OrderInv` orders the five places a telegram can be in: reported, in the hand of
the device monitor, queued, waiting in the table, in the hand of the bus monitor.
It has a part for each place saying that what is behind it is newer
(`AfterReported` ... `UpToBus`), and it needs that a value in the table counts only
until it is marked done. Theorems: `TypeCorrect`, `QuietBeforeEveryReport`,
`ReportsInOrder`.

### `KnxDevicesProofs`

Any list of devices of any kinds, any points and limits, under
`DevicesAssumption`: devices are listed once and share no points, as
an installation gives every group address to one point; `"mode"`, the name a smart panel's mode has in a
command, is not the name of a point; and `None` is no command (both are choices
of names in the model). `AtRestSynced` says nothing while anything is under way.
`IInv` is about one point at a time and about all states: the newest telegram of
the point under way tells its state (`LastTold`); a point for which nothing is
under way and nothing is excused is in step, whatever is under way for others
(`Even`); and a controller whose report function hands nothing on is always among
the excused (`MuteExcused`). `TypeCorrect` needs more than the types: that
`PutAll` takes of a device's points what there is room for (`PutAllFits`), that a
job is inside the list whenever it is under way (`WalkInv`), and from `IInv` that
the command in hand is for a point. Theorems: `AtRestInStep`, `TypeCorrect`.

### `HomeProofs`

About `MainSpec`, the whole of `main`: the parser and the loading of plugins leave
the variables of `Home` alone, which is proved rather than assumed.

* `InputIsShown`, `GlitchIsIgnored`, for every `retryNum` and either trigger level,
  from `InputInv`. The level last read and `retryCnt` move together: a level read k
  times in a row has moved the counter at least k - 1 places from the middle
  (`Driven`) and at most k (`Paced`). The first bounds the delay, the second shows
  that a shorter disturbance is not recorded.
* `PositionsAreKnown`, for any lists of devices, from `PosInv`: while the gateway
  is online, every bound device is known, was refused, or is owed a report by a
  note, by the walk that has not come to it, or by the queue of fresh bindings.
* `LinksAreMutual`, `InterfacesAreLive` and `NoGroupForms`, for any document with
  different keys, from `BootInv`. Its parts are loop invariants of the six walks:
  the masters before the node `at` are linked (`LinkInv`), the devices the walks
  have passed are as `InterfacesLive` says and the others have no interface yet
  (`LoadInv`), and no device is chained (`Unchained`). A turn may disturb what
  earlier turns did, since all of them write the same maps: `LinkTurn` shows that
  it takes a KNX device away only from a master that names the same device,
  `LoadTurn` that it neither closes a library nor touches another key. For the
  plugin that lacks a function, `HeldOpen` says which libraries are open: one that
  is not Zigbee's is closed by the turn that opened it (`CheckedIsClosed`), and one
  that is stays open (`HeldKept`).
  `NoGroupForms` is the finding for every configuration: it rests only on
  `MacWord` being no `devId`.
* `RemovalIsComplete`, from `Walking`: while a removal or reset is under way,
  every bound device is in hand or still to be returned by the traversal, and a
  walk with nothing in hand has nothing left. That no device is bound in the
  meantime comes from the library, which makes its callbacks one at a time.
* `DeletionUnbinds`: a device the app deletes is unbound unless the library
  refuses. It needs from `PosInv` that bound devices are devices of the lists, and
  from the document that a device's protocol leads to its list
  (`UnbindsEveryKind`).

### Only model-checked

* All liveness properties and `ImplementsLivePool`: liveness under fairness is
  beyond the prover.
* `TrueReports`, `ForeignIgnored` and `OthersKept` of `PluginLine`: what a plugin does
  with a frame is a statement about its tables, which TLC enumerates
  completely; a proof would be the same enumeration.
* `DevicesFaithful` and `LegalDocumentsLoad` of `ConfigParser`: they compare what a
  parser makes of a section with tables of fixed rules, element by element, over
  every form of every element. That is a finite enumeration, which TLC does
  completely, folded over sequences, about which the provers have no induction.

## 5. Plan

Every invariant and every refinement of the runs that is about interleavings,
limits or loops has its theorem; what is left to TLC is named above. What would
be worth doing next is more model rather than more proof: the Zigbee callbacks,
once their handlers use the device instead of the list node; scenes and the
brightness of dimmers in `KnxDevices`; and the health counters of Modbus devices.

## 6. Not modelled

* **Zigbee** callbacks (`main.c:766-940`; `ConfigKnx` reads the configuration and
  `Boot` loads the plugins): the shipped configurations
  disable the module, the repository has no Zigbee plugin, and the handlers use
  a list node as if it were the device (503, 721, 781, 861), so what they do
  after a join is undefined memory accesses.
* **Local server** (`fakeServer.c`): feeds hand-written telegrams into the queues
  for tests on the bench.
* **Software update**: runs shell commands on an archive (`main.c:435`);
  `upgrade.c` has no caller.
* **Production data and network drivers** (`production_utils.c`, `hal_wifi.c`,
  `hal_wired.c`): answers to the cloud library from flash, ioctl and `/proc`.
* **Helpers** (`common.c`, `crc16.c`, `enum2str.c`, `knxAtrr.c`, `logo.c`), LEDs,
  crash dumps, command line: no state that anything else reads.
* **list.c** beyond the search: the gateway appends while it starts and walks
  afterwards; lists are sequences in the models.
* **Scenes, brightness, the stop of a curtain, full-duplex lines, the health
  counters of Modbus devices**: parts of modelled components, named in
  `PROJECT.json`. Of `ReportPosThread` and `ReportBindPosThread` the modes of smart
  panels they report along (`main.c:2275-2296`, `2321-2342`).
* **Auxiliary programs** (`sub/`, `test/`): not part of the gateway.
