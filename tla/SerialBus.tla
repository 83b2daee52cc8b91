------------------------------ MODULE SerialBus -----------------------------
(***************************************************************************)
(* The RS485 ports of source/serialHandle.c and the Modbus sessions of     *)
(* source/modbusHandle.c that use them.                                    *)
(*                                                                         *)
(* A line is one SerialParam_t: every device of a configuration block      *)
(* shares it, with its descriptor sfd.  Several lines may use one port,    *)
(* and a port has one mutex.  A session begins when a caller (the cloud    *)
(* callback or the KNX monitor in ModbusDevWrite, a pool thread in         *)
(* Modbus_DevHealth or Mbus_SyncAllDevStatus) locks the mutex.  If an      *)
(* answer is expected the session is then handed, still locked, to a       *)
(* receiver thread of the serial pool, which closes the port and unlocks   *)
(* the mutex that another thread locked.                                   *)
(*                                                                         *)
(* Left out: full-duplex lines (no configuration has one), the settings of *)
(* a line, the bytes sent and received (module VentSync has their effect), *)
(* group members (pNext is never set), a failing thpool_add_work (malloc). *)
(* The flag bRcvRun only matters on full-duplex lines.                     *)
(***************************************************************************)
EXTENDS Naturals, Sequences, FiniteSets

CONSTANTS
  Ports,     \* the port mutexes
  Lines,     \* the SerialParam_t objects
  PortOf,    \* the port of a line, SetPort()
  Devices,   \* the Modbus devices
  LineOf,    \* the line of a device
  Feedback,  \* the devices with bFeedback: a control command is answered
  DevList,   \* pMbusDevList
  Callers,   \* the threads that start sessions
  Kind,      \* "write", "health" or "sync": what a caller does
  Workers,   \* the threads of the serial pool
  NoDevice   \* a receiver without a session

ASSUME SerialAssumption ==
  /\ PortOf \in [Lines -> Ports] /\ LineOf \in [Devices -> Lines]
  /\ Feedback \subseteq Devices /\ DevList \in Seq(Devices) /\ NoDevice \notin Devices
  /\ Kind \in [Callers -> {"write", "health", "sync"}]
  /\ IsFiniteSet(Callers) /\ IsFiniteSet(Workers) /\ IsFiniteSet(Ports)

VARIABLES
  locked,    \* the port mutexes
  sfd,       \* the lines with an open descriptor (sfd # -1)
  pc, dev,   \* where each caller is, and the device of its session
  left,      \* the devices a Mbus_SyncAllDevStatus has still to visit
  rcvq,      \* the receiver jobs waiting for a thread of the serial pool
  rpc, rdev  \* where each receiver is, and the device it listens to

vars == <<locked, sfd, pc, dev, left, rcvq, rpc, rdev>>
receivers == <<rcvq, rpc, rdev>>

Init ==
  /\ locked = {} /\ sfd = {}
  /\ pc = [c \in Callers |-> "idle"] /\ dev = [c \in Callers |-> NoDevice]
  /\ left = [c \in Callers |-> <<>>]
  /\ rcvq = <<>>
  /\ rpc = [w \in Workers |-> "free"] /\ rdev = [w \in Workers |-> NoDevice]

-----------------------------------------------------------------------------
Line(c) == LineOf[dev[c]]
Port(c) == PortOf[Line(c)]
Goto(c, where) == pc' = [pc EXCEPT ![c] = where]

\* The caller's session is over for it: Mbus_SyncAllDevStatus goes on with the
\* next device, the others return.
EndSession(c) ==
  /\ Goto(c, IF Kind[c] = "sync" THEN "next" ELSE "idle")
  /\ dev' = [dev EXCEPT ![c] = NoDevice]

\* ModbusDevWrite: the device is looked up and its port is wanted.
ModbusDevWrite(c, d) ==
  /\ pc[c] = "idle" /\ Kind[c] = "write"
  /\ Goto(c, "lock") /\ dev' = [dev EXCEPT ![c] = d]
  /\ UNCHANGED <<locked, sfd, left, receivers>>

\* Modbus_DevHealth, for a request that is not ignored: the message is built
\* before the port is opened.
Modbus_DevHealth(c, d) ==
  /\ pc[c] = "idle" /\ Kind[c] = "health"
  /\ Goto(c, "lock") /\ dev' = [dev EXCEPT ![c] = d]
  /\ UNCHANGED <<locked, sfd, left, receivers>>

Mbus_SyncAllDevStatus(c) ==
  /\ pc[c] = "idle" /\ Kind[c] = "sync"
  /\ Goto(c, "next") /\ left' = [left EXCEPT ![c] = DevList]
  /\ UNCHANGED <<locked, sfd, dev, receivers>>

\* The loop of Mbus_SyncAllDevStatus: a device whose message cannot be built
\* is skipped.
SyncNext(c) ==
  /\ pc[c] = "next"
  /\ \/ left[c] = <<>> /\ Goto(c, "idle") /\ UNCHANGED <<dev, left>>
     \/ /\ left[c] # <<>> /\ left' = [left EXCEPT ![c] = Tail(@)]
        /\ \/ UNCHANGED <<pc, dev>>
           \/ Goto(c, "lock") /\ dev' = [dev EXCEPT ![c] = Head(left[c])]
  /\ UNCHANGED <<locked, sfd, receivers>>

\* SerialOpen: pthread_mutex_lock
Lock(c) ==
  /\ pc[c] = "lock" /\ Port(c) \notin locked
  /\ locked' = locked \cup {Port(c)} /\ Goto(c, "open")
  /\ UNCHANGED <<sfd, dev, left, receivers>>

\* SerialOpen: open()
OpenFd(c) ==
  /\ pc[c] = "open"
  /\ \/ sfd' = sfd \cup {Line(c)} /\ Goto(c, "configure") /\ UNCHANGED <<locked, dev>>
     \/ sfd' = sfd \ {Line(c)} /\ locked' = locked \ {Port(c)} /\ EndSession(c)
  /\ UNCHANGED <<left, receivers>>

\* SerialOpen: tcsetattr and epoll_ctl, each with its error path
Configure(c) ==
  /\ pc[c] = "configure"
  /\ \/ Goto(c, IF Kind[c] = "write" THEN "build" ELSE "send") /\ UNCHANGED <<sfd, locked, dev>>
     \/ sfd' = sfd \ {Line(c)} /\ locked' = locked \ {Port(c)} /\ EndSession(c)
  /\ UNCHANGED <<left, receivers>>

\* ModbusDevWrite builds its message with the port open, and closes it when
\* there is nothing to send.
Build(c) ==
  /\ pc[c] = "build"
  /\ Goto(c, "send") \/ Goto(c, "close")
  /\ UNCHANGED <<locked, sfd, dev, left, receivers>>

\* SerialWrite (its result is ignored); a health request always waits for the
\* answer, the others do when the device answers commands.
Send(c) ==
  /\ pc[c] = "send"
  /\ Goto(c, IF Kind[c] = "health" \/ dev[c] \in Feedback THEN "recv" ELSE "close")
  /\ UNCHANGED <<locked, sfd, dev, left, receivers>>

\* (fault) the caller closes the port although a receiver will
RecvThenClose(c) ==
  /\ pc[c] = "recv"
  /\ rcvq' = Append(rcvq, dev[c]) /\ Goto(c, "close")
  /\ UNCHANGED <<locked, sfd, dev, left, rpc, rdev>>

\* SerialRead: the session is handed to a thread of the serial pool.
Recv(c) ==
  /\ pc[c] = "recv"
  /\ rcvq' = Append(rcvq, dev[c]) /\ EndSession(c)
  /\ UNCHANGED <<locked, sfd, left, rpc, rdev>>

\* SerialClose by the caller.  A descriptor found closed is an early return
\* that leaves the mutex locked.
Close(c) ==
  /\ pc[c] = "close"
  /\ IF Line(c) \in sfd THEN Goto(c, "unlock") /\ UNCHANGED dev ELSE EndSession(c)
  /\ sfd' = sfd \ {Line(c)}
  /\ UNCHANGED <<locked, left, receivers>>

Unlock(c) ==
  /\ pc[c] = "unlock"
  /\ locked' = locked \ {Port(c)} /\ EndSession(c)
  /\ UNCHANGED <<sfd, left, receivers>>

-----------------------------------------------------------------------------
(* SerialRcvEntry, run by the serial pool *)

RcvStart(w) ==
  /\ rpc[w] = "free" /\ rcvq # <<>>
  /\ rpc' = [rpc EXCEPT ![w] = "loop"] /\ rdev' = [rdev EXCEPT ![w] = Head(rcvq)]
  /\ rcvq' = Tail(rcvq)
  /\ UNCHANGED <<locked, sfd, pc, dev, left>>

\* (fault) a receiver that times out queues itself again and keeps the port
RcvEndsRetry(w) ==
  /\ rpc[w] = "loop"
  /\ \/ rpc' = [rpc EXCEPT ![w] = "close"] /\ UNCHANGED <<rcvq, rdev>>
     \/ /\ rpc' = [rpc EXCEPT ![w] = "free"] /\ rdev' = [rdev EXCEPT ![w] = NoDevice]
        /\ rcvq' = Append(rcvq, rdev[w])
  /\ UNCHANGED <<locked, sfd, pc, dev, left>>

\* On a half-duplex line every outcome ends the loop: 500 ms without data, an
\* error, an answer that cannot be parsed, or one that is put in the queue.
RcvEnds(w) ==
  /\ rpc[w] = "loop"
  /\ rpc' = [rpc EXCEPT ![w] = "close"]
  /\ UNCHANGED <<locked, sfd, pc, dev, left, rcvq, rdev>>

\* SerialClose by the receiver
RcvClose(w) ==
  /\ rpc[w] = "close"
  /\ rpc' = [rpc EXCEPT ![w] = IF LineOf[rdev[w]] \in sfd THEN "unlock" ELSE "free"]
  /\ rdev' = IF LineOf[rdev[w]] \in sfd THEN rdev ELSE [rdev EXCEPT ![w] = NoDevice]
  /\ sfd' = sfd \ {LineOf[rdev[w]]}
  /\ UNCHANGED <<locked, pc, dev, left, rcvq>>

RcvUnlock(w) ==
  /\ rpc[w] = "unlock"
  /\ locked' = locked \ {PortOf[LineOf[rdev[w]]]}
  /\ rpc' = [rpc EXCEPT ![w] = "free"] /\ rdev' = [rdev EXCEPT ![w] = NoDevice]
  /\ UNCHANGED <<sfd, pc, dev, left, rcvq>>

-----------------------------------------------------------------------------
Session(c) == OpenFd(c) \/ Configure(c) \/ Build(c) \/ Send(c) \/ Recv(c) \/ Close(c) \/ Unlock(c)
Receiver(w) == RcvStart(w) \/ RcvEnds(w) \/ RcvClose(w) \/ RcvUnlock(w)

Next ==
  \/ \E c \in Callers :
       \/ \E d \in Devices : ModbusDevWrite(c, d) \/ Modbus_DevHealth(c, d)
       \/ Mbus_SyncAllDevStatus(c) \/ SyncNext(c) \/ Lock(c) \/ Session(c)
  \/ \E w \in Workers : Receiver(w)

Spec == Init /\ [][Next]_vars

\* Threads are scheduled, and the serial pool starts queued receivers.  A
\* mutex promises no order, so nothing is assumed of Lock.
Fairness == /\ \A c \in Callers : WF_vars(Session(c))
            /\ \A w \in Workers : WF_vars(Receiver(w))
FairSpec == Spec /\ Fairness

-----------------------------------------------------------------------------
(* Properties *)

InSession == {"open", "configure", "build", "send", "recv", "close", "unlock"}

TypeOK ==
  /\ locked \subseteq Ports /\ sfd \subseteq Lines
  /\ pc \in [Callers -> {"idle", "next", "lock"} \cup InSession]
  /\ dev \in [Callers -> Devices \cup {NoDevice}]
  /\ \A c \in Callers : pc[c] \in InSession \cup {"lock"} <=> dev[c] # NoDevice
  /\ left \in [Callers -> Seq(Devices)] /\ rcvq \in Seq(Devices)
  /\ rpc \in [Workers -> {"free", "loop", "close", "unlock"}]
  /\ rdev \in [Workers -> Devices \cup {NoDevice}]
  /\ \A w \in Workers : rpc[w] # "free" <=> rdev[w] # NoDevice

\* The parties that believe to own port p: a caller in a session, a receiver
\* job waiting in the serial pool, a running receiver.
CallersOf(p) == {c \in Callers : pc[c] \in InSession /\ Port(c) = p}
QueuedOf(p) == {i \in DOMAIN rcvq : PortOf[LineOf[rcvq[i]]] = p}
ReceiversOf(p) == {w \in Workers : rpc[w] # "free" /\ PortOf[LineOf[rdev[w]]] = p}
Owners(p) == Cardinality(CallersOf(p)) + Cardinality(QueuedOf(p)) + Cardinality(ReceiversOf(p))

\* At every moment a locked port has exactly one owner who will unlock it, and
\* a free port has none who still believes to own it.
PortHasOneOwner == \A p \in Ports : Owners(p) = IF p \in locked THEN 1 ELSE 0

\* Two lines of one port are never open at the same time.
PortExclusive == \A k, l \in sfd : PortOf[k] = PortOf[l] => k = l

\* A descriptor is open while the caller builds, sends or hands over and while
\* a receiver waits or listens, and open() never overwrites an open one.
SessionKeepsDescriptor ==
  /\ \A c \in Callers :
       /\ pc[c] \in {"configure", "build", "send", "recv", "close"} => Line(c) \in sfd
       /\ pc[c] = "open" => Line(c) \notin sfd
  /\ \A i \in DOMAIN rcvq : LineOf[rcvq[i]] \in sfd
  /\ \A w \in Workers : rpc[w] \in {"loop", "close"} => LineOf[rdev[w]] \in sfd

\* The port mutex is locked by the thread in SerialOpen and unlocked by a
\* receiver of the serial pool (serialHandle.c:366).  Through the hand-over, and
\* on every error path, the port has one owner; two configurations of one RS485
\* port are never open together; and a descriptor lives as long as its session,
\* so no SerialClose takes its early return, which would leave the port locked.
\* As every receiver owns a port of its own, the serial pool never holds more
\* receivers than there are ports, and its 30 threads suffice.
PortDiscipline == TypeOK /\ PortHasOneOwner /\ PortExclusive /\ SessionKeepsDescriptor

\* Every session ends, whichever error path it takes: a port does not stay
\* locked.
PortsReleased == \A p \in Ports : []<>(p \notin locked)
=============================================================================
