--------------------------- MODULE SerialBusProofs --------------------------
(***************************************************************************)
(* PortDiscipline of SerialBus, for any ports, lines, devices, callers and *)
(* receivers.  The counts of PortHasOneOwner are not inductive by          *)
(* themselves; OwnInv says the same with the owners named: no two of them  *)
(* have the same port, and the locked ports are those that have one.       *)
(***************************************************************************)
EXTENDS SerialBus, FiniteSetTheorems, TLAPS

USE SerialAssumption

\* The port of a device
P(d) == PortOf[LineOf[d]]
In(c) == pc[c] \in InSession
Busy(w) == rpc[w] # "free"

CallersApart == \A c, e \in Callers : In(c) /\ In(e) /\ P(dev[c]) = P(dev[e]) => c = e
QueuedApart == \A i, j \in DOMAIN rcvq : P(rcvq[i]) = P(rcvq[j]) => i = j
ReceiversApart == \A v, w \in Workers : Busy(v) /\ Busy(w) /\ P(rdev[v]) = P(rdev[w]) => v = w
CallerQueued == \A c \in Callers, i \in DOMAIN rcvq : In(c) => P(dev[c]) # P(rcvq[i])
CallerReceiver == \A c \in Callers, w \in Workers : In(c) /\ Busy(w) => P(dev[c]) # P(rdev[w])
QueuedReceiver == \A i \in DOMAIN rcvq, w \in Workers : Busy(w) => P(rcvq[i]) # P(rdev[w])
Apart == CallersApart /\ QueuedApart /\ ReceiversApart /\ CallerQueued /\ CallerReceiver /\ QueuedReceiver

\* Who owns a port owns a locked one, and a locked one has an owner.
OwnersLock ==
  /\ \A c \in Callers : In(c) => P(dev[c]) \in locked
  /\ \A i \in DOMAIN rcvq : P(rcvq[i]) \in locked
  /\ \A w \in Workers : Busy(w) => P(rdev[w]) \in locked
LockOwned ==
  \A p \in locked : \/ \E c \in Callers : In(c) /\ P(dev[c]) = p
                    \/ \E i \in DOMAIN rcvq : P(rcvq[i]) = p
                    \/ \E w \in Workers : Busy(w) /\ P(rdev[w]) = p
OwnInv == Apart /\ OwnersLock /\ LockOwned

\* An open descriptor belongs to a session that has opened its line.
WithFd == {"configure", "build", "send", "recv", "close"}
Open(c) == pc[c] \in WithFd
Listens(w) == rpc[w] \in {"loop", "close"}
FdOwned ==
  \A l \in sfd : \/ \E c \in Callers : Open(c) /\ LineOf[dev[c]] = l
                 \/ \E i \in DOMAIN rcvq : LineOf[rcvq[i]] = l
                 \/ \E w \in Workers : Listens(w) /\ LineOf[rdev[w]] = l
\* And those sessions find it open.
FdHeld ==
  /\ \A c \in Callers : Open(c) => LineOf[dev[c]] \in sfd
  /\ \A i \in DOMAIN rcvq : LineOf[rcvq[i]] \in sfd
  /\ \A w \in Workers : Listens(w) => LineOf[rdev[w]] \in sfd
FdInv == FdOwned /\ FdHeld

IInv == TypeOK /\ OwnInv /\ FdInv

-----------------------------------------------------------------------------
LEMMA TypeInit == Init => TypeOK
  BY DEF Init, TypeOK, InSession

\* The steps keep the types.
LEMMA TypeStep == TypeOK /\ [Next]_vars => TypeOK'
<1> SUFFICES ASSUME TypeOK, [Next]_vars PROVE TypeOK'
  OBVIOUS
<1> USE DEF TypeOK, InSession, Goto, EndSession, receivers
<1>1. ASSUME NEW c \in Callers, NEW d \in Devices, ModbusDevWrite(c, d) \/ Modbus_DevHealth(c, d)
      PROVE  TypeOK'
  <2>1. /\ pc' = [pc EXCEPT ![c] = "lock"] /\ dev' = [dev EXCEPT ![c] = d]
        /\ UNCHANGED <<locked, sfd, left, receivers>>
    BY <1>1 DEF ModbusDevWrite, Modbus_DevHealth
  <2> QED
    BY <2>1
<1>2. ASSUME NEW c \in Callers, Mbus_SyncAllDevStatus(c) PROVE TypeOK'
  BY <1>2 DEF Mbus_SyncAllDevStatus
<1>3. ASSUME NEW c \in Callers, SyncNext(c) PROVE TypeOK'
  <2> USE <1>3 DEF SyncNext
  <2>1. CASE left[c] = <<>>
    <3>1. Goto(c, "idle") /\ UNCHANGED <<locked, sfd, dev, left, receivers>> /\ pc[c] = "next"
      BY <2>1
    <3> QED
      BY <3>1
  <2>2. CASE left[c] # <<>> /\ UNCHANGED <<pc, dev>>
    <3>1. left' = [left EXCEPT ![c] = Tail(left[c])] /\ UNCHANGED <<locked, sfd, receivers>>
      BY <2>2
    <3>2. Tail(left[c]) \in Seq(Devices)
      BY <2>2
    <3>3. left' \in [Callers -> Seq(Devices)]
      BY <3>1, <3>2
    <3> QED
      BY <2>2, <3>1, <3>3
  <2>3. CASE left[c] # <<>> /\ Goto(c, "lock") /\ dev' = [dev EXCEPT ![c] = Head(left[c])]
    <3>1. left' = [left EXCEPT ![c] = Tail(left[c])] /\ UNCHANGED <<locked, sfd, receivers>>
      BY <2>3
    <3>2. Tail(left[c]) \in Seq(Devices) /\ Head(left[c]) \in Devices
      BY <2>3
    <3> QED
      BY <2>3, <3>1, <3>2
  <2> QED
    BY <2>1, <2>2, <2>3
<1>4. ASSUME NEW c \in Callers, Lock(c) PROVE TypeOK'
  BY <1>4 DEF Lock, Port, Line
<1>5. ASSUME NEW c \in Callers, OpenFd(c) PROVE TypeOK'
  <2>1. CASE sfd' = sfd \cup {Line(c)} /\ Goto(c, "configure") /\ UNCHANGED <<locked, dev>>
    BY <1>5, <2>1 DEF OpenFd, Line
  <2>2. CASE sfd' = sfd \ {Line(c)} /\ locked' = locked \ {Port(c)} /\ EndSession(c)
    BY <1>5, <2>2 DEF OpenFd
  <2> QED
    BY <1>5, <2>1, <2>2 DEF OpenFd
<1>6. ASSUME NEW c \in Callers, Configure(c) PROVE TypeOK'
  <2>1. UNCHANGED <<left, receivers>> /\ pc[c] = "configure"
    BY <1>6 DEF Configure
  <2>2. CASE \E to \in {"build", "send"} : Goto(c, to) /\ UNCHANGED <<sfd, locked, dev>>
    BY <2>1, <2>2
  <2>3. CASE sfd' = sfd \ {Line(c)} /\ locked' = locked \ {Port(c)} /\ EndSession(c)
    BY <2>1, <2>3
  <2> QED
    BY <1>6, <2>2, <2>3 DEF Configure
<1>7. ASSUME NEW c \in Callers, Build(c) \/ Send(c) PROVE TypeOK'
  <2>1. UNCHANGED <<locked, sfd, dev, left, receivers>> /\ pc[c] \in {"build", "send"}
    BY <1>7 DEF Build, Send
  <2>2. PICK to \in {"send", "recv", "close"} : Goto(c, to)
    BY <1>7 DEF Build, Send
  <2> QED
    BY <2>1, <2>2
<1>8. ASSUME NEW c \in Callers, Recv(c) PROVE TypeOK'
  BY <1>8 DEF Recv
<1>9. ASSUME NEW c \in Callers, Close(c) \/ Unlock(c) PROVE TypeOK'
  <2>1. CASE Close(c) /\ Line(c) \in sfd
    BY <2>1 DEF Close
  <2>2. CASE Close(c) /\ Line(c) \notin sfd
    <3>1. EndSession(c) /\ sfd' \subseteq Lines /\ UNCHANGED <<locked, left, receivers>>
      BY <2>2 DEF Close
    <3> QED
      BY <3>1
  <2>3. CASE Unlock(c)
    BY <2>3 DEF Unlock
  <2> QED
    BY <1>9, <2>1, <2>2, <2>3
<1>10. ASSUME NEW w \in Workers, RcvStart(w) PROVE TypeOK'
  BY <1>10 DEF RcvStart
<1>11. ASSUME NEW w \in Workers, RcvEnds(w) PROVE TypeOK'
  BY <1>11 DEF RcvEnds
<1>12. ASSUME NEW w \in Workers, RcvClose(w) PROVE TypeOK'
  BY <1>12 DEF RcvClose
<1>13. ASSUME NEW w \in Workers, RcvUnlock(w) PROVE TypeOK'
  BY <1>13 DEF RcvUnlock
<1>14. CASE UNCHANGED vars
  BY <1>14 DEF vars
<1> QED
  BY <1>1, <1>2, <1>3, <1>4, <1>5, <1>6, <1>7, <1>8, <1>9, <1>10, <1>11, <1>12, <1>13, <1>14
     DEF Next, Session, Receiver

\* No descriptor is open on the line of a session that has none.
LEMMA NotYetOpen ==
  ASSUME TypeOK, OwnInv, FdInv, NEW c \in Callers, In(c), ~Open(c)
  PROVE  LineOf[dev[c]] \notin sfd
<1> SUFFICES ASSUME LineOf[dev[c]] \in sfd PROVE FALSE
  OBVIOUS
<1> USE DEF OwnInv, Apart, P
<1>1. ASSUME NEW e \in Callers, Open(e), LineOf[dev[e]] = LineOf[dev[c]] PROVE FALSE
  <2>1. In(e)
    BY <1>1 DEF Open, In, WithFd, InSession
  <2> QED
    BY <1>1, <2>1 DEF CallersApart
<1>2. ASSUME NEW i \in DOMAIN rcvq, LineOf[rcvq[i]] = LineOf[dev[c]] PROVE FALSE
  BY <1>2 DEF CallerQueued
<1>3. ASSUME NEW w \in Workers, Listens(w), LineOf[rdev[w]] = LineOf[dev[c]] PROVE FALSE
  <2>1. Busy(w)
    BY <1>3 DEF Listens, Busy
  <2> QED
    BY <1>3, <2>1 DEF CallerReceiver
<1> QED
  BY <1>1, <1>2, <1>3 DEF FdInv, FdOwned

-----------------------------------------------------------------------------
(* What a step does to the owners of the ports *)

SameCaller(c) == (In(c)' <=> In(c)) /\ (In(c) => dev'[c] = dev[c])
SameReceiver(w) == (Busy(w)' <=> Busy(w)) /\ (Busy(w) => rdev'[w] = rdev[w])
CallersBut(c) == \A e \in Callers \ {c} : SameCaller(e)
ReceiversBut(w) == \A v \in Workers \ {w} : SameReceiver(v)
AllCallers == \A e \in Callers : SameCaller(e)
AllReceivers == \A v \in Workers : SameReceiver(v)

Keeps == AllCallers /\ AllReceivers /\ rcvq' = rcvq /\ locked' = locked
Acquires(c) ==
  /\ ~In(c) /\ In(c)' /\ dev'[c] = dev[c] /\ dev[c] \in Devices
  /\ P(dev[c]) \notin locked /\ locked' = locked \cup {P(dev[c])}
  /\ CallersBut(c) /\ AllReceivers /\ rcvq' = rcvq
Releases(c) ==
  /\ In(c) /\ ~In(c)' /\ locked' = locked \ {P(dev[c])}
  /\ CallersBut(c) /\ AllReceivers /\ rcvq' = rcvq
HandsOver(c) ==
  /\ In(c) /\ ~In(c)' /\ rcvq' = Append(rcvq, dev[c]) /\ locked' = locked
  /\ CallersBut(c) /\ AllReceivers
Starts(w) ==
  /\ ~Busy(w) /\ Busy(w)' /\ rcvq # <<>> /\ rdev'[w] = Head(rcvq) /\ rcvq' = Tail(rcvq)
  /\ AllCallers /\ ReceiversBut(w) /\ locked' = locked
Frees(w) ==
  /\ Busy(w) /\ ~Busy(w)' /\ locked' = locked \ {P(rdev[w])}
  /\ AllCallers /\ ReceiversBut(w) /\ rcvq' = rcvq
OwnerStep ==
  \/ Keeps
  \/ \E c \in Callers : Acquires(c) \/ Releases(c) \/ HandsOver(c)
  \/ \E w \in Workers : Starts(w) \/ Frees(w)

\* Every step of SerialBus is one of these.  SerialClose does not take its early
\* return, because the descriptor is open.
LEMMA OwnerSteps == IInv /\ [Next]_vars => OwnerStep
<1> SUFFICES ASSUME IInv, [Next]_vars PROVE OwnerStep
  OBVIOUS
<1> USE DEF IInv, TypeOK, InSession, Goto, EndSession, receivers, SameCaller, SameReceiver, In, Busy
<1>1. ASSUME NEW c \in Callers, NEW d \in Devices, ModbusDevWrite(c, d) \/ Modbus_DevHealth(c, d)
      PROVE  Keeps
  BY <1>1 DEF ModbusDevWrite, Modbus_DevHealth, Keeps, AllCallers, AllReceivers
<1>2. ASSUME NEW c \in Callers, Mbus_SyncAllDevStatus(c) \/ SyncNext(c) PROVE Keeps
  BY <1>2 DEF Mbus_SyncAllDevStatus, SyncNext, Keeps, AllCallers, AllReceivers
<1>3. ASSUME NEW c \in Callers, Lock(c) PROVE Acquires(c)
  BY <1>3 DEF Lock, Acquires, CallersBut, AllReceivers, Port, Line, P
<1>4. ASSUME NEW c \in Callers, OpenFd(c) PROVE Keeps \/ Releases(c)
  BY <1>4 DEF OpenFd, Keeps, Releases, CallersBut, AllCallers, AllReceivers, Port, Line, P
<1>5. ASSUME NEW c \in Callers, Configure(c) PROVE Keeps \/ Releases(c)
  BY <1>5 DEF Configure, Keeps, Releases, CallersBut, AllCallers, AllReceivers, Port, Line, P
<1>6. ASSUME NEW c \in Callers, Build(c) \/ Send(c) PROVE Keeps
  BY <1>6 DEF Build, Send, Keeps, AllCallers, AllReceivers
<1>7. ASSUME NEW c \in Callers, Recv(c) PROVE HandsOver(c)
  BY <1>7 DEF Recv, HandsOver, CallersBut, AllReceivers
<1>8. ASSUME NEW c \in Callers, Close(c) PROVE Keeps
  <2>1. Line(c) \in sfd
    BY <1>8 DEF Close, FdInv, FdHeld, Open, WithFd, Line
  <2> QED
    BY <1>8, <2>1 DEF Close, Keeps, AllCallers, AllReceivers
<1>9. ASSUME NEW c \in Callers, Unlock(c) PROVE Releases(c)
  BY <1>9 DEF Unlock, Releases, CallersBut, AllReceivers, Port, Line, P
<1>10. ASSUME NEW w \in Workers, RcvStart(w) PROVE Starts(w)
  BY <1>10 DEF RcvStart, Starts, AllCallers, ReceiversBut
<1>11. ASSUME NEW w \in Workers, RcvEnds(w) PROVE Keeps
  BY <1>11 DEF RcvEnds, Keeps, AllCallers, AllReceivers
<1>12. ASSUME NEW w \in Workers, RcvClose(w) PROVE Keeps
  <2>1. LineOf[rdev[w]] \in sfd
    BY <1>12 DEF RcvClose, FdInv, FdHeld, Listens
  <2> QED
    BY <1>12, <2>1 DEF RcvClose, Keeps, AllCallers, AllReceivers
<1>13. ASSUME NEW w \in Workers, RcvUnlock(w) PROVE Frees(w)
  BY <1>13 DEF RcvUnlock, Frees, AllCallers, ReceiversBut, P
<1>14. ASSUME UNCHANGED vars PROVE Keeps
  BY <1>14 DEF vars, Keeps, AllCallers, AllReceivers
<1> QED
  BY <1>1, <1>2, <1>3, <1>4, <1>5, <1>6, <1>7, <1>8, <1>9, <1>10, <1>11, <1>12, <1>13, <1>14
     DEF Next, Session, Receiver, OwnerStep

\* Nobody becomes the owner of a port that has one, nobody unlocks the port of
\* another owner, and a locked port keeps an owner.
LEMMA OwnStep == TypeOK /\ OwnInv /\ OwnerStep => OwnInv'
<1> SUFFICES ASSUME TypeOK, OwnInv, OwnerStep PROVE OwnInv'
  OBVIOUS
<1>0. /\ rcvq \in Seq(Devices) /\ \A c \in Callers : dev[c] \in Devices \cup {NoDevice}
      /\ \A c \in Callers : In(c) => dev[c] \in Devices
      /\ \A w \in Workers : Busy(w) => rdev[w] \in Devices
  BY DEF TypeOK, In, Busy
<1> USE <1>0 DEF OwnInv, Apart, CallersApart, QueuedApart, ReceiversApart, CallerQueued, CallerReceiver,
          QueuedReceiver, OwnersLock, LockOwned, SameCaller, SameReceiver, AllCallers, AllReceivers,
          CallersBut, ReceiversBut
<1>1. CASE Keeps
  BY <1>1 DEF Keeps
<1>2. ASSUME NEW c \in Callers, Acquires(c) PROVE OwnInv'
  <2> USE <1>2 DEF Acquires
  <2>1. CallersApart'
    OBVIOUS
  <2>2. QueuedApart' /\ ReceiversApart' /\ QueuedReceiver'
    OBVIOUS
  <2>3. CallerQueued'
    OBVIOUS
  <2>4. CallerReceiver'
    OBVIOUS
  <2>5. OwnersLock'
    OBVIOUS
  <2>6. LockOwned'
    OBVIOUS
  <2> QED
    BY <2>1, <2>2, <2>3, <2>4, <2>5, <2>6
<1>3. ASSUME NEW c \in Callers, Releases(c) PROVE OwnInv'
  BY <1>3 DEF Releases
<1>4. ASSUME NEW c \in Callers, HandsOver(c) PROVE OwnInv'
  <2> USE DEF HandsOver
  <2> DEFINE n == Len(rcvq)
  <2>0. /\ n \in Nat /\ DOMAIN rcvq = 1..n /\ DOMAIN rcvq' = 1..(n + 1) /\ rcvq'[n + 1] = dev[c]
        /\ \A i \in 1..n : rcvq'[i] = rcvq[i]
    BY <1>4
  <2> HIDE DEF n
  <2>1. CallersApart'
    BY <1>4
  <2>7. ReceiversApart'
    BY <1>4
  <2>8. CallerReceiver'
    BY <1>4
  <2>2. QueuedApart'
    BY <1>4, <2>0
  <2>3. CallerQueued'
    BY <1>4, <2>0
  <2>4. QueuedReceiver'
    BY <1>4, <2>0
  <2>5. OwnersLock'
    BY <1>4, <2>0
  <2>6. LockOwned'
    <3> SUFFICES ASSUME NEW p \in locked
                 PROVE  \/ \E e \in Callers : In(e)' /\ P(dev'[e]) = p
                        \/ \E i \in DOMAIN rcvq' : P(rcvq'[i]) = p
                        \/ \E v \in Workers : Busy(v)' /\ P(rdev'[v]) = p
      BY <1>4
    <3>1. CASE In(c) /\ P(dev[c]) = p
      BY <2>0, <3>1
    <3>2. CASE \E e \in Callers \ {c} : In(e) /\ P(dev[e]) = p
      BY <1>4, <3>2
    <3>3. CASE \E v \in Workers : Busy(v) /\ P(rdev[v]) = p
      BY <1>4, <3>3
    <3>4. CASE \E i \in 1..n : P(rcvq[i]) = p
      BY <2>0, <3>4
    <3> QED
      BY <2>0, <3>1, <3>2, <3>3, <3>4
  <2> QED
    BY <2>1, <2>2, <2>3, <2>4, <2>5, <2>6, <2>7, <2>8
<1>5. ASSUME NEW w \in Workers, Starts(w) PROVE OwnInv'
  <2> USE DEF Starts
  <2> DEFINE n == Len(rcvq)
  <2>0. /\ n \in Nat \ {0} /\ DOMAIN rcvq = 1..n /\ DOMAIN rcvq' = 1..(n - 1) /\ rdev'[w] = rcvq[1]
        /\ \A i \in 1..(n - 1) : rcvq'[i] = rcvq[i + 1]
    BY <1>5
  <2> HIDE DEF n
  <2>1. CallersApart' /\ CallerQueued'
    BY <1>5, <2>0
  <2>2. QueuedApart'
    BY <1>5, <2>0
  <2>3. ReceiversApart'
    BY <1>5, <2>0
  <2>4. CallerReceiver'
    BY <1>5, <2>0
  <2>5. QueuedReceiver'
    <3> SUFFICES ASSUME NEW i \in 1..(n - 1), NEW v \in Workers, Busy(v)'
                 PROVE  P(rcvq'[i]) # P(rdev'[v])
      BY <2>0
    <3>1. i + 1 \in 1..n /\ 1 \in 1..n /\ i + 1 # 1 /\ rcvq'[i] = rcvq[i + 1]
      BY <2>0
    <3>2. CASE v = w
      <4>1. P(rcvq[i + 1]) # P(rcvq[1])
        BY <2>0, <3>1
      <4> QED
        BY <2>0, <3>1, <3>2, <4>1
    <3>3. CASE v # w
      <4>1. Busy(v) /\ rdev'[v] = rdev[v]
        BY <1>5, <3>3
      <4>2. P(rcvq[i + 1]) # P(rdev[v])
        BY <2>0, <3>1, <4>1
      <4> QED
        BY <3>1, <4>1, <4>2
    <3> QED
      BY <3>2, <3>3
  <2>6. OwnersLock'
    <3>1. \A c \in Callers : In(c)' => P(dev'[c]) \in locked'
      BY <1>5
    <3>2. \A i \in DOMAIN rcvq' : P(rcvq'[i]) \in locked'
      <4> SUFFICES ASSUME NEW i \in 1..(n - 1) PROVE P(rcvq'[i]) \in locked
        BY <1>5, <2>0
      <4>1. i + 1 \in 1..n /\ rcvq'[i] = rcvq[i + 1]
        BY <2>0
      <4> QED
        BY <2>0, <4>1
    <3>3. \A v \in Workers : Busy(v)' => P(rdev'[v]) \in locked'
      <4>1. P(rdev'[w]) \in locked'
        <5>1. 1 \in DOMAIN rcvq /\ rdev'[w] = rcvq[1] /\ locked' = locked
          BY <1>5, <2>0
        <5> QED
          BY <5>1
      <4> QED
        BY <1>5, <4>1
    <3> QED
      BY <3>1, <3>2, <3>3
  <2>7. LockOwned'
    <3> SUFFICES ASSUME NEW p \in locked
                 PROVE  \/ \E c \in Callers : In(c)' /\ P(dev'[c]) = p
                        \/ \E i \in DOMAIN rcvq' : P(rcvq'[i]) = p
                        \/ \E v \in Workers : Busy(v)' /\ P(rdev'[v]) = p
      BY <1>5
    <3>1. CASE \E c \in Callers : In(c) /\ P(dev[c]) = p
      BY <1>5, <3>1
    <3>2. CASE \E v \in Workers : Busy(v) /\ P(rdev[v]) = p
      BY <1>5, <3>2
    <3>3. ASSUME NEW i \in 1..n, P(rcvq[i]) = p
          PROVE  \/ \E j \in DOMAIN rcvq' : P(rcvq'[j]) = p
                 \/ Busy(w)' /\ P(rdev'[w]) = p
      <4>1. CASE i = 1
        BY <1>5, <2>0, <3>3, <4>1
      <4>2. CASE i # 1
        <5> DEFINE j == i - 1
        <5>0. j \in 1..(n - 1) /\ j + 1 = i
          BY <2>0, <4>2
        <5> HIDE DEF j
        <5>1. j \in DOMAIN rcvq' /\ rcvq'[j] = rcvq[i]
          BY <2>0, <5>0
        <5> QED
          BY <2>0, <3>3, <5>1
      <4> QED
        BY <4>1, <4>2
    <3> QED
      BY <2>0, <3>1, <3>2, <3>3
  <2> QED
    BY <2>1, <2>2, <2>3, <2>4, <2>5, <2>6, <2>7
<1>6. ASSUME NEW w \in Workers, Frees(w) PROVE OwnInv'
  <2> USE DEF Frees
  <2>1. Apart'
    <3>1. CallersApart' /\ QueuedApart' /\ CallerQueued'
      BY <1>6
    <3>2. ReceiversApart'
      BY <1>6
    <3>3. CallerReceiver'
      BY <1>6
    <3>4. QueuedReceiver'
      BY <1>6
    <3> QED
      BY <3>1, <3>2, <3>3, <3>4
  <2>2. OwnersLock'
    <3>1. \A c \in Callers : In(c)' => P(dev'[c]) \in locked'
      BY <1>6
    <3>2. \A i \in DOMAIN rcvq' : P(rcvq'[i]) \in locked'
      BY <1>6
    <3>3. \A v \in Workers : Busy(v)' => P(rdev'[v]) \in locked'
      BY <1>6
    <3> QED
      BY <3>1, <3>2, <3>3
  <2>3. LockOwned'
    BY <1>6
  <2> QED
    BY <2>1, <2>2, <2>3
<1> QED
  BY <1>1, <1>2, <1>3, <1>4, <1>5, <1>6 DEF OwnerStep

-----------------------------------------------------------------------------
(* What a step does to the descriptors *)

SameFd(c) == (Open(c)' <=> Open(c)) /\ (Open(c) => dev'[c] = dev[c])
SameListener(w) == (Listens(w)' <=> Listens(w)) /\ (Listens(w) => rdev'[w] = rdev[w])
FdsBut(c) == \A e \in Callers \ {c} : SameFd(e)
ListenersBut(w) == \A v \in Workers \ {w} : SameListener(v)
AllFds == \A e \in Callers : SameFd(e)
AllListeners == \A v \in Workers : SameListener(v)

FdKeeps == AllFds /\ AllListeners /\ rcvq' = rcvq /\ sfd' = sfd
FdOpens(c) ==
  /\ ~Open(c) /\ Open(c)' /\ dev'[c] = dev[c] /\ sfd' = sfd \cup {LineOf[dev[c]]}
  /\ FdsBut(c) /\ AllListeners /\ rcvq' = rcvq
FdCloses(c) ==
  /\ Open(c) /\ ~Open(c)' /\ sfd' = sfd \ {LineOf[dev[c]]}
  /\ FdsBut(c) /\ AllListeners /\ rcvq' = rcvq
FdHandsOver(c) ==
  /\ Open(c) /\ ~Open(c)' /\ rcvq' = Append(rcvq, dev[c]) /\ sfd' = sfd
  /\ FdsBut(c) /\ AllListeners
FdStarts(w) ==
  /\ ~Listens(w) /\ Listens(w)' /\ rcvq # <<>> /\ rdev'[w] = Head(rcvq) /\ rcvq' = Tail(rcvq)
  /\ AllFds /\ ListenersBut(w) /\ sfd' = sfd
FdFrees(w) ==
  /\ Listens(w) /\ ~Listens(w)' /\ sfd' = sfd \ {LineOf[rdev[w]]}
  /\ AllFds /\ ListenersBut(w) /\ rcvq' = rcvq
FdStep ==
  \/ FdKeeps
  \/ \E c \in Callers : FdOpens(c) \/ FdCloses(c) \/ FdHandsOver(c)
  \/ \E w \in Workers : FdStarts(w) \/ FdFrees(w)

\* Every step is one of these.  An open() that fails sets sfd to -1, which it
\* was before.
LEMMA FdSteps == IInv /\ [Next]_vars => FdStep
<1> SUFFICES ASSUME IInv, [Next]_vars PROVE FdStep
  OBVIOUS
<1> USE DEF IInv, TypeOK, InSession, Goto, EndSession, receivers, SameFd, SameListener, Open, Listens, WithFd
<1>1. ASSUME NEW c \in Callers, NEW d \in Devices, ModbusDevWrite(c, d) \/ Modbus_DevHealth(c, d)
      PROVE  FdKeeps
  BY <1>1 DEF ModbusDevWrite, Modbus_DevHealth, FdKeeps, AllFds, AllListeners
<1>2. ASSUME NEW c \in Callers, Mbus_SyncAllDevStatus(c) \/ SyncNext(c) PROVE FdKeeps
  BY <1>2 DEF Mbus_SyncAllDevStatus, SyncNext, FdKeeps, AllFds, AllListeners
<1>3. ASSUME NEW c \in Callers, Lock(c) PROVE FdKeeps
  BY <1>3 DEF Lock, FdKeeps, AllFds, AllListeners
<1>4. ASSUME NEW c \in Callers, OpenFd(c) PROVE FdKeeps \/ FdOpens(c)
  <2>1. Line(c) \notin sfd
    <3>1. In(c) /\ ~Open(c)
      BY <1>4 DEF OpenFd, In
    <3> QED
      BY <3>1, NotYetOpen DEF Line
  <2>2. CASE sfd' = sfd \cup {Line(c)} /\ Goto(c, "configure") /\ UNCHANGED <<locked, dev>>
    BY <1>4, <2>2 DEF OpenFd, FdOpens, FdsBut, AllListeners, Line
  <2>3. CASE sfd' = sfd \ {Line(c)} /\ EndSession(c)
    BY <1>4, <2>1, <2>3 DEF OpenFd, FdKeeps, AllFds, AllListeners
  <2> QED
    BY <1>4, <2>2, <2>3 DEF OpenFd
<1>5. ASSUME NEW c \in Callers, Configure(c) PROVE FdKeeps \/ FdCloses(c)
  BY <1>5 DEF Configure, FdKeeps, FdCloses, FdsBut, AllFds, AllListeners, Line
<1>6. ASSUME NEW c \in Callers, Build(c) \/ Send(c) PROVE FdKeeps
  BY <1>6 DEF Build, Send, FdKeeps, AllFds, AllListeners
<1>7. ASSUME NEW c \in Callers, Recv(c) PROVE FdHandsOver(c)
  BY <1>7 DEF Recv, FdHandsOver, FdsBut, AllListeners
<1>8. ASSUME NEW c \in Callers, Close(c) PROVE FdCloses(c)
  BY <1>8 DEF Close, FdCloses, FdsBut, AllListeners, Line
<1>9. ASSUME NEW c \in Callers, Unlock(c) PROVE FdKeeps
  BY <1>9 DEF Unlock, FdKeeps, AllFds, AllListeners
<1>10. ASSUME NEW w \in Workers, RcvStart(w) PROVE FdStarts(w)
  BY <1>10 DEF RcvStart, FdStarts, AllFds, ListenersBut
<1>11. ASSUME NEW w \in Workers, RcvEnds(w) PROVE FdKeeps
  BY <1>11 DEF RcvEnds, FdKeeps, AllFds, AllListeners
<1>12. ASSUME NEW w \in Workers, RcvClose(w) PROVE FdFrees(w)
  BY <1>12 DEF RcvClose, FdFrees, AllFds, ListenersBut
<1>13. ASSUME NEW w \in Workers, RcvUnlock(w) PROVE FdKeeps
  BY <1>13 DEF RcvUnlock, FdKeeps, AllFds, AllListeners
<1>14. ASSUME UNCHANGED vars PROVE FdKeeps
  BY <1>14 DEF vars, FdKeeps, AllFds, AllListeners
<1> QED
  BY <1>1, <1>2, <1>3, <1>4, <1>5, <1>6, <1>7, <1>8, <1>9, <1>10, <1>11, <1>12, <1>13, <1>14
     DEF Next, Session, Receiver, FdStep

\* Who closes a descriptor closes its own: the other sessions have other ports,
\* so other lines.
LEMMA FdInvStep == TypeOK /\ OwnInv /\ FdInv /\ FdStep => FdInv'
<1> SUFFICES ASSUME TypeOK, OwnInv, FdInv, FdStep PROVE FdInv'
  OBVIOUS
<1>0. /\ rcvq \in Seq(Devices) /\ sfd \subseteq Lines
      /\ \A c \in Callers : Open(c) => dev[c] \in Devices /\ In(c)
      /\ \A w \in Workers : Listens(w) => rdev[w] \in Devices /\ Busy(w)
  BY DEF TypeOK, Open, Listens, In, Busy, WithFd, InSession
<1>a. /\ \A c, e \in Callers : Open(c) /\ Open(e) /\ c # e => LineOf[dev[c]] # LineOf[dev[e]]
      /\ \A c \in Callers, i \in DOMAIN rcvq : Open(c) => LineOf[dev[c]] # LineOf[rcvq[i]]
      /\ \A c \in Callers, w \in Workers : Open(c) /\ Listens(w) => LineOf[dev[c]] # LineOf[rdev[w]]
      /\ \A i \in DOMAIN rcvq, w \in Workers : Listens(w) => LineOf[rcvq[i]] # LineOf[rdev[w]]
      /\ \A v, w \in Workers : Listens(v) /\ Listens(w) /\ v # w => LineOf[rdev[v]] # LineOf[rdev[w]]
  BY <1>0 DEF OwnInv, Apart, CallersApart, ReceiversApart, CallerQueued, CallerReceiver, QueuedReceiver, P
<1> USE <1>0 DEF FdInv, FdOwned, FdHeld, SameFd, SameListener, FdsBut, ListenersBut, AllFds, AllListeners
<1>1. CASE FdKeeps
  BY <1>1 DEF FdKeeps
<1>2. ASSUME NEW c \in Callers, FdOpens(c) PROVE FdInv'
  <2>1. FdHeld'
    BY <1>2 DEF FdOpens
  <2>2. ASSUME NEW l \in sfd
        PROVE  \/ \E e \in Callers : Open(e)' /\ LineOf[dev'[e]] = l
               \/ \E i \in DOMAIN rcvq' : LineOf[rcvq'[i]] = l
               \/ \E v \in Workers : Listens(v)' /\ LineOf[rdev'[v]] = l
    BY <1>2 DEF FdOpens
  <2>3. Open(c)' /\ sfd' = sfd \cup {LineOf[dev'[c]]}
    BY <1>2 DEF FdOpens
  <2> QED
    BY <2>1, <2>2, <2>3
<1>3. ASSUME NEW c \in Callers, FdCloses(c) PROVE FdInv'
  <2>1. FdHeld'
    BY <1>3, <1>a DEF FdCloses
  <2>2. FdOwned'
    <3> SUFFICES ASSUME NEW l \in sfd, l # LineOf[dev[c]]
                 PROVE  \/ \E e \in Callers : Open(e)' /\ LineOf[dev'[e]] = l
                        \/ \E i \in DOMAIN rcvq' : LineOf[rcvq'[i]] = l
                        \/ \E v \in Workers : Listens(v)' /\ LineOf[rdev'[v]] = l
      BY <1>3 DEF FdCloses
    <3>1. CASE \E e \in Callers : Open(e) /\ LineOf[dev[e]] = l
      BY <1>3, <3>1 DEF FdCloses
    <3>2. CASE \E i \in DOMAIN rcvq : LineOf[rcvq[i]] = l
      BY <1>3, <3>2 DEF FdCloses
    <3>3. CASE \E v \in Workers : Listens(v) /\ LineOf[rdev[v]] = l
      BY <1>3, <3>3 DEF FdCloses
    <3> QED
      BY <3>1, <3>2, <3>3
  <2> QED
    BY <2>1, <2>2
<1>4. ASSUME NEW c \in Callers, FdHandsOver(c) PROVE FdInv'
  <2> USE DEF FdHandsOver
  <2> DEFINE n == Len(rcvq)
  <2>0. /\ n \in Nat /\ DOMAIN rcvq = 1..n /\ DOMAIN rcvq' = 1..(n + 1) /\ rcvq'[n + 1] = dev[c]
        /\ \A i \in 1..n : rcvq'[i] = rcvq[i]
    BY <1>4
  <2> HIDE DEF n
  <2>1. FdHeld'
    <3>1. \A e \in Callers : Open(e)' => LineOf[dev'[e]] \in sfd'
      BY <1>4
    <3>2. \A i \in DOMAIN rcvq' : LineOf[rcvq'[i]] \in sfd'
      <4>1. LineOf[rcvq'[n + 1]] \in sfd'
        BY <1>4, <2>0
      <4>2. \A i \in 1..n : LineOf[rcvq'[i]] \in sfd'
        BY <1>4, <2>0
      <4>3. \A i \in 1..(n + 1) : i = n + 1 \/ i \in 1..n
        BY <2>0
      <4> QED
        BY <2>0, <4>1, <4>2, <4>3
    <3>3. \A v \in Workers : Listens(v)' => LineOf[rdev'[v]] \in sfd'
      BY <1>4
    <3> QED
      BY <3>1, <3>2, <3>3
  <2>2. FdOwned'
    <3> SUFFICES ASSUME NEW l \in sfd
                 PROVE  \/ \E e \in Callers : Open(e)' /\ LineOf[dev'[e]] = l
                        \/ \E i \in DOMAIN rcvq' : LineOf[rcvq'[i]] = l
                        \/ \E v \in Workers : Listens(v)' /\ LineOf[rdev'[v]] = l
      BY <1>4
    <3>1. CASE LineOf[dev[c]] = l
      BY <2>0, <3>1
    <3>2. CASE \E e \in Callers \ {c} : Open(e) /\ LineOf[dev[e]] = l
      BY <1>4, <3>2
    <3>3. CASE \E v \in Workers : Listens(v) /\ LineOf[rdev[v]] = l
      BY <1>4, <3>3
    <3>4. CASE \E i \in 1..n : LineOf[rcvq[i]] = l
      BY <2>0, <3>4
    <3> QED
      BY <2>0, <3>1, <3>2, <3>3, <3>4
  <2> QED
    BY <2>1, <2>2
<1>5. ASSUME NEW w \in Workers, FdStarts(w) PROVE FdInv'
  <2> USE DEF FdStarts
  <2> DEFINE n == Len(rcvq)
  <2>0. /\ n \in Nat \ {0} /\ DOMAIN rcvq = 1..n /\ DOMAIN rcvq' = 1..(n - 1) /\ rdev'[w] = rcvq[1]
        /\ \A i \in 1..(n - 1) : rcvq'[i] = rcvq[i + 1]
    BY <1>5
  <2> HIDE DEF n
  <2>1. FdHeld'
    <3>1. \A i \in DOMAIN rcvq' : LineOf[rcvq'[i]] \in sfd'
      <4> SUFFICES ASSUME NEW i \in 1..(n - 1) PROVE LineOf[rcvq'[i]] \in sfd
        BY <1>5, <2>0
      <4>1. i + 1 \in 1..n /\ rcvq'[i] = rcvq[i + 1]
        BY <2>0
      <4> QED
        BY <2>0, <4>1
    <3>2. LineOf[rdev'[w]] \in sfd'
      BY <1>5, <2>0
    <3> QED
      BY <1>5, <3>1, <3>2
  <2>2. FdOwned'
    <3> SUFFICES ASSUME NEW l \in sfd
                 PROVE  \/ \E e \in Callers : Open(e)' /\ LineOf[dev'[e]] = l
                        \/ \E i \in DOMAIN rcvq' : LineOf[rcvq'[i]] = l
                        \/ \E v \in Workers : Listens(v)' /\ LineOf[rdev'[v]] = l
      BY <1>5
    <3>1. CASE \E e \in Callers : Open(e) /\ LineOf[dev[e]] = l
      BY <1>5, <3>1
    <3>2. CASE \E v \in Workers : Listens(v) /\ LineOf[rdev[v]] = l
      BY <1>5, <3>2
    <3>3. ASSUME NEW i \in 1..n, LineOf[rcvq[i]] = l
          PROVE  \/ \E j \in DOMAIN rcvq' : LineOf[rcvq'[j]] = l
                 \/ Listens(w)' /\ LineOf[rdev'[w]] = l
      <4>1. CASE i = 1
        BY <1>5, <2>0, <3>3, <4>1
      <4>2. CASE i # 1
        <5> DEFINE j == i - 1
        <5>0. j \in 1..(n - 1) /\ j + 1 = i
          BY <2>0, <4>2
        <5> HIDE DEF j
        <5>1. j \in DOMAIN rcvq' /\ rcvq'[j] = rcvq[i]
          BY <2>0, <5>0
        <5> QED
          BY <2>0, <3>3, <5>1
      <4> QED
        BY <4>1, <4>2
    <3> QED
      BY <2>0, <3>1, <3>2, <3>3
  <2> QED
    BY <2>1, <2>2
<1>6. ASSUME NEW w \in Workers, FdFrees(w) PROVE FdInv'
  <2> USE DEF FdFrees
  <2>1. FdHeld'
    <3>1. \A e \in Callers : Open(e)' => LineOf[dev'[e]] \in sfd'
      BY <1>6, <1>a
    <3>2. \A i \in DOMAIN rcvq' : LineOf[rcvq'[i]] \in sfd'
      BY <1>6, <1>a
    <3>3. \A v \in Workers : Listens(v)' => LineOf[rdev'[v]] \in sfd'
      BY <1>6, <1>a
    <3> QED
      BY <3>1, <3>2, <3>3
  <2>2. FdOwned'
    <3>1. /\ \A e \in Callers : Open(e) => Open(e)' /\ dev'[e] = dev[e]
          /\ \A v \in Workers \ {w} : Listens(v) => Listens(v)' /\ rdev'[v] = rdev[v]
          /\ rcvq' = rcvq /\ sfd' = sfd \ {LineOf[rdev[w]]}
      BY <1>6
    <3> QED
      BY <3>1
  <2> QED
    BY <2>1, <2>2
<1> QED
  BY <1>1, <1>2, <1>3, <1>4, <1>5, <1>6 DEF FdStep

-----------------------------------------------------------------------------
(* The invariant, and what it says of the counts *)

LEMMA InvInit == Init => IInv
  BY TypeInit DEF Init, IInv, OwnInv, Apart, CallersApart, QueuedApart, ReceiversApart, CallerQueued,
     CallerReceiver, QueuedReceiver, OwnersLock, LockOwned, FdInv, FdOwned, FdHeld, In, Busy, Open, Listens,
     WithFd, InSession

LEMMA InvStep == IInv /\ [Next]_vars => IInv'
<1> SUFFICES ASSUME IInv, [Next]_vars PROVE IInv'
  OBVIOUS
<1>1. TypeOK'
  BY TypeStep DEF IInv
<1>2. OwnInv'
  BY OwnerSteps, OwnStep DEF IInv
<1>3. FdInv'
  BY FdSteps, FdInvStep DEF IInv
<1> QED
  BY <1>1, <1>2, <1>3 DEF IInv

\* A set with at most one element has cardinality 0 or 1.
LEMMA AtMostOne ==
  ASSUME NEW S, \A x, y \in S : x = y
  PROVE  Cardinality(S) = IF S = {} THEN 0 ELSE 1
<1>1. CASE S = {}
  BY <1>1, FS_EmptySet
<1>2. CASE S # {}
  <2>1. PICK x \in S : TRUE
    BY <1>2
  <2>2. S = {x}
    BY <2>1
  <2> QED
    BY <1>2, <2>2, FS_Singleton
<1> QED
  BY <1>1, <1>2

\* The named owners, counted.
LEMMA OneOwner == TypeOK /\ OwnInv => PortHasOneOwner
<1> SUFFICES ASSUME TypeOK, OwnInv, NEW p \in Ports
             PROVE  Owners(p) = IF p \in locked THEN 1 ELSE 0
  BY DEF PortHasOneOwner
<1> DEFINE C == CallersOf(p)
           Q == QueuedOf(p)
           R == ReceiversOf(p)
<1>1. /\ \A c : c \in C <=> c \in Callers /\ In(c) /\ P(dev[c]) = p
      /\ \A i : i \in Q <=> i \in DOMAIN rcvq /\ P(rcvq[i]) = p
      /\ \A w : w \in R <=> w \in Workers /\ Busy(w) /\ P(rdev[w]) = p
  BY DEF CallersOf, QueuedOf, ReceiversOf, In, Busy, P, Port, Line
<1> HIDE DEF C, Q, R
<1>2. /\ \A x, y \in C : x = y
      /\ \A x, y \in Q : x = y
      /\ \A x, y \in R : x = y
  BY <1>1 DEF OwnInv, Apart, CallersApart, QueuedApart, ReceiversApart
<1>3. /\ C = {} \/ Q = {}
      /\ C = {} \/ R = {}
      /\ Q = {} \/ R = {}
  BY <1>1 DEF OwnInv, Apart, CallerQueued, CallerReceiver, QueuedReceiver
<1>4. p \in locked <=> C # {} \/ Q # {} \/ R # {}
  <2>1. ASSUME p \in locked PROVE C # {} \/ Q # {} \/ R # {}
    BY <1>1, <2>1 DEF OwnInv, LockOwned
  <2>2. ASSUME C # {} \/ Q # {} \/ R # {} PROVE p \in locked
    BY <1>1, <2>2 DEF OwnInv, OwnersLock
  <2> QED
    BY <2>1, <2>2
<1>5. /\ Cardinality(C) = IF C = {} THEN 0 ELSE 1
      /\ Cardinality(Q) = IF Q = {} THEN 0 ELSE 1
      /\ Cardinality(R) = IF R = {} THEN 0 ELSE 1
  BY <1>2, AtMostOne
<1>6. Owners(p) = Cardinality(C) + Cardinality(Q) + Cardinality(R)
  BY DEF Owners, C, Q, R
<1> QED
  BY <1>3, <1>4, <1>5, <1>6

\* A port has one owner, an open line belongs to the session of an owner, and a
\* session has one line.
LEMMA OneLine == TypeOK /\ OwnInv /\ FdInv => PortExclusive
<1> SUFFICES ASSUME TypeOK, OwnInv, FdInv, NEW k \in sfd, NEW l \in sfd, PortOf[k] = PortOf[l]
             PROVE  k = l
  BY DEF PortExclusive
<1> DEFINE C(m) == \E c \in Callers : In(c) /\ LineOf[dev[c]] = m
           Q(m) == \E i \in DOMAIN rcvq : LineOf[rcvq[i]] = m
           R(m) == \E w \in Workers : Busy(w) /\ LineOf[rdev[w]] = m
<1>1. \A m \in sfd : C(m) \/ Q(m) \/ R(m)
  BY DEF FdInv, FdOwned, Open, In, WithFd, InSession, Listens, Busy
<1> USE DEF OwnInv, Apart, P
<1>2. CASE C(k) /\ C(l)
  BY <1>2 DEF CallersApart
<1>3. CASE Q(k) /\ Q(l)
  BY <1>3 DEF QueuedApart
<1>4. CASE R(k) /\ R(l)
  BY <1>4 DEF ReceiversApart
<1>5. ~(C(k) /\ Q(l)) /\ ~(C(l) /\ Q(k))
  BY DEF CallerQueued
<1>6. ~(C(k) /\ R(l)) /\ ~(C(l) /\ R(k))
  BY DEF CallerReceiver
<1>7. ~(Q(k) /\ R(l)) /\ ~(Q(l) /\ R(k))
  BY DEF QueuedReceiver
<1> HIDE DEF C, Q, R
<1> QED
  BY <1>1, <1>2, <1>3, <1>4, <1>5, <1>6, <1>7

LEMMA InvImplies == IInv => PortDiscipline
<1> SUFFICES ASSUME IInv PROVE PortDiscipline
  OBVIOUS
<1>1. SessionKeepsDescriptor
  <2>1. \A c \in Callers : pc[c] = "open" => In(c) /\ ~Open(c)
    BY DEF In, Open, WithFd, InSession
  <2> QED
    BY <2>1, NotYetOpen DEF IInv, FdInv, FdHeld, SessionKeepsDescriptor, Line, Open, WithFd, Listens
<1> QED
  BY <1>1, OneOwner, OneLine DEF IInv, PortDiscipline

\* SerialOpen, SerialRead and SerialClose (serialHandle.c) keep the discipline
\* of the port mutexes and descriptors through every hand-over and error path,
\* whatever the number of ports, lines, devices and threads: a locked port has
\* one owner, two lines of one port are never open together, and a session
\* finds its descriptor open until it closes it.
THEOREM PortDisciplineHolds == Spec => []PortDiscipline
<1>1. Init => IInv
  BY InvInit
<1>2. IInv /\ [Next]_vars => IInv'
  BY InvStep
<1>3. IInv => PortDiscipline
  BY InvImplies
<1> QED
  BY <1>1, <1>2, <1>3, PTL DEF Spec
=============================================================================
