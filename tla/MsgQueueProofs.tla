--------------------------- MODULE MsgQueueProofs ---------------------------
(***************************************************************************)
(* Proofs about MsgQueue for every set of threads, values, limits and      *)
(* assignment of calls to threads.                                         *)
(***************************************************************************)
EXTENDS MsgQueue, FiniteSetTheorems, SequenceTheorems, WellFoundedInduction, TLAPS

-----------------------------------------------------------------------------
(* The helpers *)

\* pthread_cond_signal changes at most one thread, and that one was asleep.
LEMMA SignalledCases ==
  ASSUME NEW p \in [Threads -> PCs], NEW from \in PCs, NEW to \in PCs,
         NEW q \in Signalled(p, from, to)
  PROVE  \/ q = p /\ \A t \in Threads : p[t] # from
         \/ \E u \in Threads : p[u] = from /\ q = [p EXCEPT ![u] = to]
  BY DEF Signalled

LEMMA SignalledType ==
  ASSUME NEW p \in [Threads -> PCs], NEW from \in PCs, NEW to \in PCs,
         NEW q \in Signalled(p, from, to)
  PROVE  q \in [Threads -> PCs]
  BY SignalledCases

LEMMA ConcatLength ==
  ASSUME NEW S, NEW a \in Seq(S), NEW b \in Seq(S)
  PROVE  a \o b \in Seq(S) /\ Len(a \o b) = Len(a) + Len(b)
  BY ConcatProperties

\* InsertAfter adds one element ...
LEMMA InsertLength ==
  ASSUME NEW S, NEW s \in Seq(S), NEW i \in 0..Len(s), NEW v \in S
  PROVE  InsertAfter(s, i, v) \in Seq(S) /\ Len(InsertAfter(s, i, v)) = Len(s) + 1
<1> DEFINE front == SubSeq(s, 1, i)
           back == SubSeq(s, i + 1, Len(s))
           most == front \o <<v>>
<1>1. Len(s) \in Nat
  BY LenProperties
<1>2. front \in Seq(S) /\ Len(front) = i
  BY <1>1, SubSeqProperties
<1>3. back \in Seq(S) /\ Len(back) = Len(s) - i
  BY <1>1, SubSeqProperties
<1>4. <<v>> \in Seq(S) /\ Len(<<v>>) = 1
  OBVIOUS
<1> HIDE DEF front, back
<1>5. most \in Seq(S) /\ Len(most) = i + 1
  BY <1>1, <1>2, <1>4, ConcatLength
<1> HIDE DEF most
<1>6. most \o back \in Seq(S) /\ Len(most \o back) = Len(most) + Len(back)
  BY <1>3, <1>5, ConcatLength
<1>7. Len(most \o back) = Len(s) + 1
  BY <1>1, <1>3, <1>5, <1>6
<1>8. InsertAfter(s, i, v) = most \o back
  BY DEF InsertAfter, front, back, most
<1> QED
  BY <1>6, <1>7, <1>8

\* ... and leaving one out removes one.
LEMMA RemoveLength ==
  ASSUME NEW S, NEW s \in Seq(S), NEW i \in 1..Len(s)
  PROVE  /\ SubSeq(s, 1, i - 1) \o SubSeq(s, i + 1, Len(s)) \in Seq(S)
         /\ Len(SubSeq(s, 1, i - 1) \o SubSeq(s, i + 1, Len(s))) = Len(s) - 1
<1> DEFINE front == SubSeq(s, 1, i - 1)
           back == SubSeq(s, i + 1, Len(s))
<1>1. Len(s) \in Nat
  BY LenProperties
<1>2. front \in Seq(S) /\ Len(front) = i - 1
  BY <1>1, SubSeqProperties
<1>3. back \in Seq(S) /\ Len(back) = Len(s) - i
  BY <1>1, SubSeqProperties
<1> HIDE DEF front, back
<1>4. front \o back \in Seq(S) /\ Len(front \o back) = Len(front) + Len(back)
  BY <1>2, <1>3, ConcatLength
<1>5. Len(front \o back) = Len(s) - 1
  BY <1>1, <1>2, <1>3, <1>4
<1> QED
  BY <1>4, <1>5 DEF front, back

\* A set of natural numbers has a least one.
LEMMA LeastNat ==
  ASSUME NEW N \in SUBSET Nat, N # {}
  PROVE  \E i \in N : \A j \in N : i <= j
<1>1. PICK i \in N : \A j \in N : ~ (<<j, i>> \in OpToRel(<, Nat))
  BY NatLessThanWellFounded, WFMin
<1>2. \A j \in N : ~ (j < i)
  BY <1>1, Zenon DEF OpToRel
<1> QED
  BY <1>2

\* SortedPos is a position at which InsertAfter can insert.
LEMMA SortedPosRange ==
  ASSUME NEW s \in Seq(Values), s # <<>>, NEW v \in Values
  PROVE  SortedPos(s, v) \in 0..Len(s)
<1> DEFINE fits == {i \in 1..(Len(s) - 1) : InOrder(s[i], v) /\ InOrder(v, s[i + 1])}
<1>1. Len(s) \in Nat
  BY LenProperties
<1>2. CASE InOrder(v, s[1])
  BY <1>1, <1>2 DEF SortedPos
<1>3. CASE ~InOrder(v, s[1]) /\ fits = {}
  BY <1>1, <1>3 DEF SortedPos
<1>4. CASE ~InOrder(v, s[1]) /\ fits # {}
  <2>1. \E i \in fits : \A j \in fits : i <= j
    <3>1. fits \in SUBSET Nat
      BY <1>1
    <3> QED
      BY <1>4, <3>1, LeastNat
  <2>2. SortedPos(s, v) \in fits
    BY <1>4, <2>1 DEF SortedPos
  <2> QED
    BY <1>1, <2>2
<1> QED
  BY <1>2, <1>3, <1>4

\* Linking an element in keeps the list a sequence and, as long as last_el is
\* the last element, adds exactly one to its length.
LEMMA LinkType ==
  ASSUME TypeOK, NEW v \in Values, Link(v)
  PROVE  /\ els' \in Seq(Values) /\ linked' \in BOOLEAN /\ num_els' \in Nat
         /\ num_els' = num_els + 1
         /\ linked \/ (Sort # "none" /\ els # <<>>) => Len(els') = Len(els) + 1
         /\ linked => linked'
         /\ (els = <<>> => linked) => (els' = <<>> => linked')
<1>1. els \in Seq(Values) /\ linked \in BOOLEAN /\ num_els \in Nat
  BY DEF TypeOK
<1>2. num_els' = num_els + 1 /\ num_els' \in Nat
  BY <1>1 DEF Link
<1>3. CASE Sort = "none" \/ els = <<>>
  <2>1. /\ linked' = linked
        /\ els' = IF linked THEN Append(els, v) ELSE els
    BY <1>3 DEF Link
  <2>2. /\ Append(els, v) \in Seq(Values) /\ Append(els, v) # <<>>
        /\ Len(Append(els, v)) = Len(els) + 1
    BY <1>1, AppendProperties
  <2> QED
    BY <1>1, <1>2, <1>3, <2>1, <2>2, Zenon
<1>4. CASE ~(Sort = "none" \/ els = <<>>)
  <2> DEFINE i == SortedPos(els, v)
  <2>1. i \in 0..Len(els) /\ Len(els) \in Nat
    BY <1>1, <1>4, SortedPosRange, LenProperties
  <2> HIDE DEF i
  <2>2. els' = InsertAfter(els, i, v) /\ linked' = (linked \/ i = Len(els))
    BY <1>4, Zenon DEF Link, i
  <2>3. els' \in Seq(Values) /\ Len(els') = Len(els) + 1
    BY <1>1, <2>1, <2>2, InsertLength
  <2>4. els' # <<>>
    BY <2>1, <2>3
  <2> QED
    BY <1>1, <1>2, <2>2, <2>3, <2>4, Zenon
<1> QED
  BY <1>3, <1>4

\* Taking the element at position i out removes exactly one.
LEMMA UnlinkType ==
  ASSUME TypeOK, num_els # 0, NEW i \in 1..Len(els), Unlink(i)
  PROVE  /\ els' \in Seq(Values) /\ linked' \in BOOLEAN /\ num_els' \in Nat
         /\ num_els' = num_els - 1
         /\ Len(els') = Len(els) - 1
         /\ linked /\ i = 1 => linked'
         /\ els' = <<>> => linked'
<1>1. els \in Seq(Values) /\ linked \in BOOLEAN /\ num_els \in Nat /\ Len(els) \in Nat
  BY LenProperties DEF TypeOK
<1>2. els' \in Seq(Values) /\ Len(els') = Len(els) - 1
  BY <1>1, RemoveLength DEF Unlink
<1>3. num_els' = num_els - 1 /\ num_els' \in Nat
  BY <1>1 DEF Unlink
<1>4. linked' = IF i = 1 THEN linked \/ Len(els) = 1 ELSE linked /\ i # Len(els)
  BY DEF Unlink
<1>5. els' = <<>> => Len(els) = 1 /\ i = 1
  BY <1>1, <1>2
<1> QED
  BY <1>1, <1>2, <1>3, <1>4, <1>5, Zenon

-----------------------------------------------------------------------------
(* Type correctness *)

DataType == els \in Seq(Values) /\ linked \in BOOLEAN /\ num_els \in Nat

LEMMA ReturnType ==
  ASSUME TypeOK, NEW t \in Threads, NEW code \in Codes, Return(t, code)
  PROVE  pc' \in [Threads -> PCs] /\ ret' \in [Threads -> Codes]
  BY DEF Return, TypeOK, PCs

LEMMA ReturnSignalType ==
  ASSUME TypeOK, NEW t \in Threads, NEW from \in PCs, NEW to \in PCs,
         ReturnSignal(t, from, to)
  PROVE  pc' \in [Threads -> PCs] /\ ret' \in [Threads -> Codes]
<1>1. [pc EXCEPT ![t] = "idle"] \in [Threads -> PCs]
  BY DEF TypeOK, PCs
<1>2. pc' \in [Threads -> PCs]
  BY <1>1, SignalledType DEF ReturnSignal
<1> QED
  BY <1>2 DEF ReturnSignal, TypeOK, Codes

LEMMA StoreType ==
  ASSUME TypeOK, NEW t \in Threads, NEW v \in Values, Store(t, v)
  PROVE  /\ DataType' /\ pc' \in [Threads -> PCs] /\ ret' \in [Threads -> Codes]
<1>1. CASE Link(v) /\ ReturnSignal(t, "get_blocked", "get_woken")
  BY <1>1, LinkType, ReturnSignalType DEF DataType, PCs
<1>2. CASE Return(t, Q_ERR_MEM) /\ UNCHANGED data
  BY <1>2, ReturnType DEF DataType, data, Codes, TypeOK
<1> QED
  BY <1>1, <1>2 DEF Store

LEMMA TakeType ==
  ASSUME TypeOK, num_els # 0, NEW t \in Threads, NEW i \in 0..Len(els), Take(t, i)
  PROVE  /\ DataType' /\ pc' \in [Threads -> PCs] /\ ret' \in [Threads -> Codes]
<1>1. CASE i # 0 /\ Unlink(i) /\ ReturnSignal(t, "put_blocked", "put_woken")
  <2>1. i \in 1..Len(els)
    BY <1>1, LenProperties DEF TypeOK
  <2>2. DataType'
    BY <1>1, <2>1, UnlinkType DEF DataType
  <2> QED
    BY <1>1, <2>2, ReturnSignalType DEF PCs
<1>2. CASE Return(t, Q_ERR_INVALID_ELEMENT) /\ UNCHANGED data
  BY <1>2, ReturnType DEF DataType, data, Codes, TypeOK
<1> QED
  BY <1>1, <1>2 DEF Take

LEMMA FirstRange ==
  ASSUME TypeOK PROVE First \in 0..Len(els)
<1>1. els # <<>> => Len(els) >= 1
  BY LenProperties DEF TypeOK
<1> QED
  BY <1>1, LenProperties DEF First, TypeOK

LEMMA EmptiedType == ASSUME Emptied PROVE DataType'
  BY DEF Emptied, DataType

LEMMA GetOrSleepType ==
  ASSUME TypeOK, NEW t \in Threads, GetOrSleep(t)
  PROVE  /\ DataType' /\ pc' \in [Threads -> PCs] /\ ret' \in [Threads -> Codes]
<1>1. CASE Sleep(t, "get_blocked")
  BY <1>1 DEF Sleep, DataType, TypeOK, data, PCs
<1>2. CASE Return(t, Q_ERR_NONEWDATA) /\ UNCHANGED data
  BY <1>2, ReturnType DEF DataType, data, Codes, TypeOK
<1>3. CASE num_els # 0 /\ Take(t, First)
  BY <1>3, TakeType, FirstRange
<1> QED
  BY <1>1, <1>2, <1>3 DEF GetOrSleep

\* Every step keeps the variables in their types: the counter stays a natural
\* number because it is decremented only where an element was found.
LEMMA TypeStep == TypeOK /\ [Next]_vars => TypeOK'
<1> SUFFICES ASSUME TypeOK, [Next]_vars PROVE TypeOK'
  OBVIOUS
<1>1. CASE UNCHANGED vars
  BY <1>1 DEF TypeOK, vars
<1>2. ASSUME NEW t \in Threads, NEW v \in Values, Put(t, v) PROVE TypeOK'
  <2>1. /\ DataType' /\ pc' \in [Threads -> PCs] /\ ret' \in [Threads -> Codes]
    <3>1. CASE Return(t, Q_ERR_NONEWDATA) /\ UNCHANGED data
      BY <3>1, ReturnType DEF DataType, data, Codes, TypeOK
    <3>2. CASE Return(t, Q_ERR_NUM_ELEMENTS) /\ UNCHANGED data
      BY <3>2, ReturnType DEF DataType, data, Codes, TypeOK
    <3>3. CASE Store(t, v)
      BY <3>3, StoreType
    <3> QED
      BY <1>2, <3>1, <3>2, <3>3 DEF Put
  <2> QED
    BY <1>2, <2>1 DEF Put, TypeOK, DataType
<1>3. ASSUME NEW t \in Threads, NEW v \in Values, PutWait(t, v) PROVE TypeOK'
  <2>1. /\ DataType' /\ pc' \in [Threads -> PCs] /\ ret' \in [Threads -> Codes]
    <3>1. CASE Return(t, Q_ERR_NONEWDATA) /\ UNCHANGED data
      BY <3>1, ReturnType DEF DataType, data, Codes, TypeOK
    <3>2. CASE Sleep(t, "put_blocked")
      BY <3>2 DEF Sleep, DataType, TypeOK, data, PCs
    <3>3. CASE Store(t, v)
      BY <3>3, StoreType
    <3> QED
      BY <1>3, <3>1, <3>2, <3>3 DEF PutWait
  <2>2. arg' \in [Threads -> Values]
    BY <1>3 DEF PutWait, TypeOK
  <2> QED
    BY <1>3, <2>1, <2>2 DEF PutWait, TypeOK, DataType
<1>4. ASSUME NEW t \in Threads, NEW v \in Values, FlushPut(t, v) PROVE TypeOK'
  <2>1. /\ DataType' /\ pc' \in [Threads -> PCs] /\ ret' \in [Threads -> Codes]
    <3>1. CASE Emptied /\ Return(t, Q_ERR_NONEWDATA)
      BY <3>1, ReturnType, EmptiedType DEF Codes
    <3>2. CASE /\ els' = <<v>> /\ linked' = TRUE /\ num_els' = 1
               /\ ReturnSignal(t, "get_blocked", "get_woken")
      BY <3>2, ReturnSignalType DEF DataType, PCs
    <3>3. CASE Emptied /\ Return(t, Q_ERR_MEM)
      BY <3>3, ReturnType, EmptiedType DEF Codes
    <3> QED
      BY <1>4, <3>1, <3>2, <3>3 DEF FlushPut
  <2> QED
    BY <1>4, <2>1 DEF FlushPut, TypeOK, DataType
<1>5. ASSUME NEW t \in Threads, PutResume(t) PROVE TypeOK'
  <2>1. /\ DataType' /\ pc' \in [Threads -> PCs] /\ ret' \in [Threads -> Codes]
    <3>1. CASE Return(t, Q_ERR_NONEWDATA) /\ UNCHANGED data
      BY <3>1, ReturnType DEF DataType, data, Codes, TypeOK
    <3>2. CASE Sleep(t, "put_blocked")
      BY <3>2 DEF Sleep, DataType, TypeOK, data, PCs
    <3>3. CASE Store(t, arg[t])
      BY <3>3, StoreType DEF TypeOK
    <3> QED
      BY <1>5, <3>1, <3>2, <3>3 DEF PutResume
  <2> QED
    BY <1>5, <2>1 DEF PutResume, TypeOK, DataType
<1>6. ASSUME NEW t \in Threads, Get(t) PROVE TypeOK'
  <2>1. /\ DataType' /\ pc' \in [Threads -> PCs] /\ ret' \in [Threads -> Codes]
    <3>1. CASE Return(t, Q_ERR_NUM_ELEMENTS) /\ UNCHANGED data
      BY <3>1, ReturnType DEF DataType, data, Codes, TypeOK
    <3>2. CASE num_els # 0 /\ Take(t, First)
      BY <3>2, TakeType, FirstRange
    <3> QED
      BY <1>6, <3>1, <3>2 DEF Get
  <2> QED
    BY <1>6, <2>1 DEF Get, TypeOK, DataType
<1>7. ASSUME NEW t \in Threads, GetWait(t) \/ GetResume(t) PROVE TypeOK'
  BY <1>7, GetOrSleepType DEF GetWait, GetResume, TypeOK, DataType
<1>8. ASSUME NEW t \in Threads, GetFiltered(t) PROVE TypeOK'
  <2>1. /\ DataType' /\ pc' \in [Threads -> PCs] /\ ret' \in [Threads -> Codes]
    <3>1. CASE Return(t, Q_ERR_NUM_ELEMENTS) /\ UNCHANGED data
      BY <3>1, ReturnType DEF DataType, data, Codes, TypeOK
    <3>2. CASE num_els # 0 /\ \E i \in 0..Len(els) : Take(t, i)
      BY <3>2, TakeType
    <3> QED
      BY <1>8, <3>1, <3>2 DEF GetFiltered
  <2> QED
    BY <1>8, <2>1 DEF GetFiltered, TypeOK, DataType
<1>9. ASSUME NEW t \in Threads, Flush(t) PROVE TypeOK'
  <2>1. /\ DataType' /\ pc' \in [Threads -> PCs] /\ ret' \in [Threads -> Codes]
    BY <1>9, EmptiedType, ReturnType DEF Flush, Codes
  <2> QED
    BY <1>9, <2>1 DEF Flush, TypeOK, DataType
<1>10. ASSUME NEW t \in Threads, Open(t) \/ Close(t) \/ Destroy(t) PROVE TypeOK'
  BY <1>10 DEF Open, Close, Destroy, TypeOK, PCs, data
<1>11. ASSUME NEW t \in Threads, SetReread(t) PROVE TypeOK'
  BY <1>11 DEF SetReread, SetReturn, TypeOK, PCs, Codes, data
<1>12. ASSUME NEW t \in Threads, BroadcastGet(t) PROVE TypeOK'
  BY <1>12 DEF BroadcastGet, Broadcast, TypeOK, PCs, data
<1>13. ASSUME NEW t \in Threads, BroadcastPut(t) PROVE TypeOK'
  BY <1>13 DEF BroadcastPut, Broadcast, SetReturn, TypeOK, PCs, Codes, data
<1>14. ASSUME NEW t \in Threads, DestroyLocked(t) PROVE TypeOK'
  BY <1>14, EmptiedType DEF DestroyLocked, TypeOK, PCs, DataType
<1>15. ASSUME NEW t \in Threads, DestroyFree(t) PROVE TypeOK'
  BY <1>15, ReturnType DEF DestroyFree, TypeOK, Codes, data
<1>16. ASSUME NEW t \in Threads, SpuriousWakeup(t) PROVE TypeOK'
  BY <1>16 DEF SpuriousWakeup, TypeOK, PCs, data
<1> QED
  BY <1>1, <1>2, <1>3, <1>4, <1>5, <1>6, <1>7, <1>8, <1>9, <1>10, <1>11, <1>12,
     <1>13, <1>14, <1>15, <1>16 DEF Next, Resume, SetFinish, DestroyFinish

\* The variables of the queue keep their types in every behaviour.
THEOREM TypeCorrect == Spec => []TypeOK
<1>1. Init => TypeOK
  BY ValuesAssumption DEF Init, TypeOK, PCs, Codes
<1> QED
  BY <1>1, TypeStep, PTL DEF Spec

-----------------------------------------------------------------------------
(* The counter *)

\* The calls that are one critical section of queue_put_internal,
\* queue_get_internal or queue_flush_internal.
Ordinary(t) ==
  \/ \E v \in Values : Put(t, v) \/ PutWait(t, v) \/ FlushPut(t, v)
  \/ Get(t) \/ GetWait(t) \/ GetFiltered(t) \/ Flush(t) \/ Resume(t)

\* The other steps: closing, opening and destroying the queue.
Administrative(t) ==
  \/ Open(t) \/ Close(t) \/ Destroy(t)
  \/ SetFinish(t) \/ DestroyFinish(t) \/ SpuriousWakeup(t)

LEMMA NextCases ==
  ASSUME [Next]_vars
  PROVE  \/ \E t \in Threads : Ordinary(t) \/ Administrative(t)
         \/ UNCHANGED vars
  BY DEF Next, Ordinary, Administrative

\* A step adds one element when the queue is not full, or leaves one after a
\* flush, or adds none.
CountEffect ==
  \/ num_els' <= num_els
  \/ ~Full /\ num_els' = num_els + 1
  \/ num_els' = 1

LEMMA OrdinaryCount ==
  ASSUME TypeOK, NEW t \in Threads, Ordinary(t)
  PROVE  CountEffect
<1>1. num_els \in Nat
  BY DEF TypeOK
<1>2. ASSUME NEW v \in Values, Store(t, v), ~Full PROVE CountEffect
  BY <1>1, <1>2 DEF Store, Link, CountEffect, data
<1>3. ASSUME NEW i \in 0..Len(els), Take(t, i) PROVE CountEffect
  <2>1. num_els' = num_els - 1 \/ num_els' = num_els
    BY <1>3, Zenon DEF Take, Unlink, data
  <2> QED
    BY <1>1, <2>1 DEF CountEffect
<1>4. ASSUME UNCHANGED data PROVE CountEffect
  BY <1>1, <1>4 DEF CountEffect, data
<1>5. ASSUME Emptied PROVE CountEffect
  BY <1>1, <1>5 DEF CountEffect, Emptied
<1>6. ASSUME NEW v \in Values, Put(t, v) \/ PutWait(t, v) PROVE CountEffect
  BY <1>2, <1>4, <1>6 DEF Put, PutWait, Sleep, data
<1>7. ASSUME PutResume(t) PROVE CountEffect
  BY <1>2, <1>4, <1>7 DEF PutResume, Sleep, data, TypeOK
<1>8. ASSUME NEW v \in Values, FlushPut(t, v) PROVE CountEffect
  BY <1>5, <1>8 DEF FlushPut, CountEffect
<1>9. ASSUME Get(t) \/ GetWait(t) \/ GetResume(t) PROVE CountEffect
  BY <1>3, <1>4, <1>9, FirstRange DEF Get, GetWait, GetResume, GetOrSleep, Sleep, data
<1>10. ASSUME GetFiltered(t) PROVE CountEffect
  BY <1>3, <1>4, <1>10 DEF GetFiltered
<1>11. ASSUME Flush(t) PROVE CountEffect
  BY <1>5, <1>11 DEF Flush
<1> QED
  BY <1>6, <1>7, <1>8, <1>9, <1>10, <1>11 DEF Ordinary, Resume

LEMMA AdministrativeCount ==
  ASSUME TypeOK, NEW t \in Threads, Administrative(t)
  PROVE  UNCHANGED data \/ Emptied
  BY DEF Administrative, Open, Close, Destroy, SetFinish, SetReread, BroadcastGet,
     BroadcastPut, DestroyFinish, DestroyLocked, DestroyFree, SpuriousWakeup

LEMMA CapacityStep == TypeOK /\ Capacity /\ [Next]_vars => Capacity'
<1> SUFFICES ASSUME TypeOK, Capacity, [Next]_vars PROVE Capacity'
  OBVIOUS
<1>1. num_els \in Nat /\ Limit \in Nat /\ 1 <= Limit
  BY BoundsAssumption DEF TypeOK, Limit
<1>2. CountEffect
  <2>1. CASE UNCHANGED vars
    BY <1>1, <2>1 DEF vars, CountEffect
  <2>2. CASE \E t \in Threads : Ordinary(t)
    BY <2>2, OrdinaryCount
  <2>3. CASE \E t \in Threads : Administrative(t)
    <3>1. num_els' = num_els \/ num_els' = 0
      BY <2>3, AdministrativeCount, Zenon DEF data, Emptied
    <3> QED
      BY <1>1, <3>1 DEF CountEffect
  <2> QED
    BY <2>1, <2>2, <2>3, NextCases
<1>3. ~Full => num_els + 1 <= Limit
  BY <1>1, BoundsAssumption DEF Full, Limit, Capacity
<1>4. num_els' \in Nat
  BY TypeStep DEF TypeOK
<1>5. Limit' = Limit
  BY DEF Limit
<1> QED
  BY <1>1, <1>2, <1>3, <1>4, <1>5 DEF Capacity, CountEffect

\* Whatever the threads do, num_els stays within the limit of the queue and
\* below UINTX_MAX, so num_els++ in queue_put_internal never wraps.
THEOREM CapacityHolds == Spec => [](Capacity /\ num_els < UintxMax)
<1>1. Init => TypeOK
  BY ValuesAssumption DEF Init, TypeOK, PCs, Codes
<1>2. Init => Capacity
  BY BoundsAssumption DEF Init, Capacity, Limit
<1>3. TypeOK /\ Capacity => num_els < UintxMax
  BY BoundsAssumption DEF TypeOK, Capacity, Limit
<1> QED
  BY <1>1, <1>2, <1>3, TypeStep, CapacityStep, PTL DEF Spec

-----------------------------------------------------------------------------
(* The counter and the list *)

\* last_el is maintained by everything but queue_get_filtered, and a sorted
\* queue uses it only when it is empty.
ListIsMaintained ==
  Sort # "none" \/ \A t \in Threads : "get_filtered" \notin Calls[t]

CountInv ==
  /\ num_els = Len(els)
  /\ els = <<>> => linked
  /\ Sort = "none" => linked

LEMMA CountInvStep ==
  ASSUME ListIsMaintained PROVE TypeOK /\ CountInv /\ [Next]_vars => CountInv'
<1> SUFFICES ASSUME TypeOK, CountInv, [Next]_vars PROVE CountInv'
  OBVIOUS
<1>1. num_els \in Nat /\ els \in Seq(Values) /\ Len(els) \in Nat
  BY LenProperties DEF TypeOK
<1>2. ASSUME UNCHANGED data PROVE CountInv'
  BY <1>2 DEF CountInv, data
<1>3. ASSUME Emptied PROVE CountInv'
  BY <1>3 DEF CountInv, Emptied
<1>4. ASSUME NEW t \in Threads, NEW v \in Values, Store(t, v) PROVE CountInv'
  <2>1. CASE Link(v)
    <3>1. Len(els') = Len(els) + 1 /\ num_els' = num_els + 1
      BY <2>1, LinkType DEF CountInv
    <3>2. (els' = <<>> => linked') /\ (Sort = "none" => linked')
      BY <2>1, LinkType DEF CountInv
    <3> QED
      BY <3>1, <3>2 DEF CountInv
  <2> QED
    BY <1>2, <1>4, <2>1 DEF Store
<1>5. ASSUME NEW t \in Threads, NEW i \in 0..Len(els), Take(t, i), num_els # 0,
             Sort = "none" => i \in {0, 1}
      PROVE CountInv'
  <2>1. CASE i # 0 /\ Unlink(i)
    <3>1. i \in 1..Len(els)
      BY <1>1, <2>1
    <3>2. Len(els') = Len(els) - 1 /\ num_els' = num_els - 1
      BY <1>5, <2>1, <3>1, UnlinkType
    <3>3. els' = <<>> => linked'
      BY <1>5, <2>1, <3>1, UnlinkType
    <3>4. Sort = "none" => linked'
      BY <1>5, <2>1, <3>1, UnlinkType DEF CountInv
    <3> QED
      BY <3>2, <3>3, <3>4 DEF CountInv
  <2> QED
    BY <1>2, <1>5, <2>1 DEF Take
<1>6. First \in {0, 1}
  BY DEF First
<1>7. ASSUME NEW t \in Threads, Ordinary(t) PROVE CountInv'
  <2>1. ASSUME NEW v \in Values, Put(t, v) \/ PutWait(t, v) PROVE CountInv'
    BY <1>2, <1>4, <2>1 DEF Put, PutWait, Sleep, data
  <2>2. ASSUME PutResume(t) PROVE CountInv'
    BY <1>2, <1>4, <2>2 DEF PutResume, Sleep, data, TypeOK
  <2>3. ASSUME NEW v \in Values, FlushPut(t, v) PROVE CountInv'
    BY <1>3, <2>3 DEF FlushPut, CountInv
  <2>4. ASSUME Get(t) \/ GetWait(t) \/ GetResume(t) PROVE CountInv'
    BY <1>2, <1>5, <1>6, <2>4, FirstRange DEF Get, GetWait, GetResume, GetOrSleep, Sleep, data
  <2>5. ASSUME GetFiltered(t) PROVE CountInv'
    <3>1. Sort # "none"
      BY <2>5 DEF ListIsMaintained, GetFiltered, Invoke
    <3> QED
      BY <1>2, <1>5, <2>5, <3>1 DEF GetFiltered
  <2>6. ASSUME Flush(t) PROVE CountInv'
    BY <1>3, <2>6 DEF Flush
  <2> QED
    BY <1>7, <2>1, <2>2, <2>3, <2>4, <2>5, <2>6 DEF Ordinary, Resume
<1>8. CASE UNCHANGED vars
  BY <1>2, <1>8 DEF vars, data
<1> QED
  BY <1>2, <1>3, <1>7, <1>8, NextCases, AdministrativeCount

\* queue_elements() is the number of elements in the list of every queue that
\* is sorted or whose elements are never removed by queue_get_filtered.
THEOREM CountIsLength == ASSUME ListIsMaintained PROVE Spec => []CountMatchesList
<1>1. Init => TypeOK /\ CountInv
  BY ValuesAssumption DEF Init, TypeOK, PCs, Codes, CountInv
<1>2. CountInv => CountMatchesList
  BY DEF CountInv, CountMatchesList
<1>3. TypeOK /\ CountInv /\ [Next]_vars => CountInv'
  BY CountInvStep
<1> QED
  BY <1>1, <1>2, <1>3, TypeStep, PTL DEF Spec

-----------------------------------------------------------------------------
(* Sleepers of a closed queue *)

\* What one critical section does to the program counters: the caller returns
\* or, on an open queue, falls asleep; sleepers may be woken; nobody else moves.
WakesOnly(u) ==
  \/ pc'[u] = pc[u]
  \/ pc[u] = "get_blocked" /\ pc'[u] = "get_woken"
  \/ pc[u] = "put_blocked" /\ pc'[u] = "put_woken"

OrdinaryEffect(t) ==
  /\ pc[t] \in {"idle", "get_woken", "put_woken"}
  /\ pc'[t] = "idle" \/ (new_data /\ pc'[t] \in {"get_blocked", "put_blocked"})
  /\ \A u \in Threads \ {t} : WakesOnly(u)
  /\ new_data' = new_data /\ life' = life

LEMMA ReturnEffect ==
  ASSUME TypeOK, NEW t \in Threads, NEW code, Return(t, code)
  PROVE  pc'[t] = "idle" /\ \A u \in Threads \ {t} : WakesOnly(u)
  BY DEF Return, TypeOK, WakesOnly

LEMMA ReturnSignalEffect ==
  ASSUME TypeOK, NEW t \in Threads, NEW from, NEW to, ReturnSignal(t, from, to),
         \/ from = "get_blocked" /\ to = "get_woken"
         \/ from = "put_blocked" /\ to = "put_woken"
  PROVE  pc'[t] = "idle" /\ \A u \in Threads \ {t} : WakesOnly(u)
<1> DEFINE p == [pc EXCEPT ![t] = "idle"]
<1>1. p \in [Threads -> PCs] /\ from \in PCs /\ to \in PCs
  BY DEF TypeOK, PCs
<1>2. pc' \in Signalled(p, from, to)
  BY DEF ReturnSignal
<1>3. CASE pc' = p
  BY <1>3 DEF WakesOnly, TypeOK
<1>4. CASE \E u \in Threads : p[u] = from /\ pc' = [p EXCEPT ![u] = to]
  BY <1>4 DEF WakesOnly, TypeOK
<1> HIDE DEF p
<1> QED
  BY <1>1, <1>2, <1>3, <1>4, SignalledCases

LEMMA OrdinaryPc ==
  ASSUME TypeOK, NEW t \in Threads, Ordinary(t)
  PROVE  OrdinaryEffect(t)
<1> DEFINE Moves == /\ pc'[t] = "idle" \/ (new_data /\ pc'[t] \in {"get_blocked", "put_blocked"})
                    /\ \A u \in Threads \ {t} : WakesOnly(u)
<1>1. ASSUME NEW code, Return(t, code) PROVE Moves
  BY <1>1, ReturnEffect
<1>2. ASSUME ReturnSignal(t, "get_blocked", "get_woken") PROVE Moves
  BY <1>2, ReturnSignalEffect
<1>3. ASSUME ReturnSignal(t, "put_blocked", "put_woken") PROVE Moves
  BY <1>3, ReturnSignalEffect
<1>4. ASSUME NEW where \in {"get_blocked", "put_blocked"}, new_data, Sleep(t, where)
      PROVE Moves
  BY <1>4 DEF Sleep, WakesOnly, TypeOK
<1> HIDE DEF Moves
<1>5. ASSUME NEW v, Store(t, v) PROVE Moves
  BY <1>1, <1>2, <1>5 DEF Store
<1>6. ASSUME NEW i, Take(t, i) PROVE Moves
  BY <1>1, <1>3, <1>6 DEF Take
<1>7. ASSUME GetOrSleep(t) PROVE Moves
  BY <1>1, <1>4, <1>6, <1>7 DEF GetOrSleep
<1>8. Moves
  <2>1. ASSUME NEW v \in Values, Put(t, v) PROVE Moves
    BY <1>1, <1>5, <2>1 DEF Put
  <2>2. ASSUME NEW v \in Values, PutWait(t, v) PROVE Moves
    BY <1>1, <1>4, <1>5, <2>2 DEF PutWait
  <2>3. ASSUME NEW v \in Values, FlushPut(t, v) PROVE Moves
    BY <1>1, <1>2, <2>3 DEF FlushPut
  <2>4. ASSUME PutResume(t) PROVE Moves
    BY <1>1, <1>4, <1>5, <2>4 DEF PutResume
  <2>5. ASSUME Get(t) \/ GetFiltered(t) \/ Flush(t) PROVE Moves
    BY <1>1, <1>6, <2>5 DEF Get, GetFiltered, Flush
  <2>6. ASSUME GetWait(t) \/ GetResume(t) PROVE Moves
    BY <1>7, <2>6 DEF GetWait, GetResume
  <2> QED
    BY <2>1, <2>2, <2>3, <2>4, <2>5, <2>6 DEF Ordinary, Resume
<1>9. pc[t] \in {"idle", "get_woken", "put_woken"} /\ new_data' = new_data /\ life' = life
  BY DEF Ordinary, Resume, Put, PutWait, FlushPut, Get, GetWait, GetFiltered, Flush,
     PutResume, GetResume, Invoke
<1> QED
  BY <1>8, <1>9 DEF OrdinaryEffect, Moves

\* A sleeper of a closed queue has a thread ahead that will broadcast to it.
ClosedInv ==
  ~new_data =>
    /\ \A u \in Threads : pc[u] = "get_blocked" =>
         \E s \in Threads : pc[s] \in {"set_unlocked", "bcast_get",
                                       "close_unlocked", "close_bcast_get"}
    /\ \A u \in Threads : pc[u] = "put_blocked" =>
         \E s \in Threads : pc[s] \in {"set_unlocked", "bcast_get", "bcast_put",
                                       "close_unlocked", "close_bcast_get", "close_bcast_put"}

LEMMA ClosedInvStep == TypeOK /\ ClosedInv /\ [Next]_vars => ClosedInv'
<1> SUFFICES ASSUME TypeOK, ClosedInv, [Next]_vars PROVE ClosedInv'
  OBVIOUS
<1>1. CASE UNCHANGED vars
  BY <1>1 DEF vars, ClosedInv
<1>2. ASSUME NEW t \in Threads, Ordinary(t) PROVE ClosedInv'
  <2>1. OrdinaryEffect(t)
    BY <1>2, OrdinaryPc
  <2>2. CASE new_data
    BY <2>1, <2>2 DEF OrdinaryEffect, ClosedInv
  <2>3. CASE ~new_data
    <3>1. \A u \in Threads : pc'[u] \in {"get_blocked", "put_blocked"} => pc[u] = pc'[u]
      BY <2>1, <2>3 DEF OrdinaryEffect, WakesOnly
    <3>2. \A s \in Threads : pc[s] \notin {"idle", "get_woken", "put_woken", "get_blocked", "put_blocked"}
                               => pc'[s] = pc[s]
      BY <2>1 DEF OrdinaryEffect, WakesOnly
    <3> QED
      BY <2>3, <3>1, <3>2 DEF ClosedInv
  <2> QED
    BY <2>2, <2>3
<1>3. ASSUME NEW t \in Threads, Open(t) PROVE ClosedInv'
  BY <1>3 DEF Open, ClosedInv
<1>4. ASSUME NEW t \in Threads, Close(t) \/ Destroy(t) PROVE ClosedInv'
  BY <1>4 DEF Close, Destroy, ClosedInv, TypeOK
<1>5. ASSUME NEW t \in Threads, SetReread(t) PROVE ClosedInv'
  BY <1>5 DEF SetReread, SetReturn, ClosedInv, TypeOK
<1>6. ASSUME NEW t \in Threads, BroadcastGet(t) PROVE ClosedInv'
  BY <1>6 DEF BroadcastGet, Broadcast, ClosedInv, TypeOK
<1>7. ASSUME NEW t \in Threads, BroadcastPut(t) PROVE ClosedInv'
  BY <1>7 DEF BroadcastPut, Broadcast, SetReturn, ClosedInv, TypeOK
<1>8. ASSUME NEW t \in Threads, DestroyFinish(t) PROVE ClosedInv'
  BY <1>8 DEF DestroyFinish, DestroyLocked, DestroyFree, Return, ClosedInv, TypeOK
<1>9. ASSUME NEW t \in Threads, SpuriousWakeup(t) PROVE ClosedInv'
  BY <1>9 DEF SpuriousWakeup, ClosedInv, TypeOK
<1> QED
  BY <1>1, <1>2, <1>3, <1>4, <1>5, <1>6, <1>7, <1>8, <1>9, NextCases
     DEF Administrative, SetFinish

\* When a queue has been closed and every queue_set_new_data has returned,
\* no thread is left asleep in queue_get_wait or queue_put_wait.
THEOREM ClosedReleasesSleepers == Spec => []ClosedHasNoSleeper
<1>1. Init => TypeOK /\ ClosedInv
  BY ValuesAssumption DEF Init, TypeOK, PCs, Codes, ClosedInv
<1>2. ClosedInv => ClosedHasNoSleeper
  BY DEF ClosedInv, ClosedHasNoSleeper, Setting, At
<1> QED
  BY <1>1, <1>2, TypeStep, ClosedInvStep, PTL DEF Spec

-----------------------------------------------------------------------------
(* Lost wakeups of getters *)

Woken == At("get_woken")
Asleep == At("get_blocked")

LEMMA WokenFinite == IsFiniteSet(Woken) /\ Cardinality(Woken) \in Nat
  BY ThreadsAssumption, FS_Subset, FS_CardinalityType DEF Woken, At

\* A thread that was not woken returns and one sleeper, if there is one, is
\* woken: either nobody sleeps, or there is one more woken thread.
LEMMA SignalAddsOne ==
  ASSUME TypeOK, NEW t \in Threads, pc[t] \in {"idle", "put_woken"},
         ReturnSignal(t, "get_blocked", "get_woken")
  PROVE  Asleep' = {} \/ Cardinality(Woken') = Cardinality(Woken) + 1
<1> DEFINE p == [pc EXCEPT ![t] = "idle"]
<1>1. p \in [Threads -> PCs] /\ "get_blocked" \in PCs /\ "get_woken" \in PCs
  BY DEF TypeOK, PCs
<1>2. pc' \in Signalled(p, "get_blocked", "get_woken")
  BY DEF ReturnSignal
<1>3. CASE pc' = p /\ \A u \in Threads : p[u] # "get_blocked"
  BY <1>3 DEF Asleep, At
<1>4. CASE \E u \in Threads : p[u] = "get_blocked" /\ pc' = [p EXCEPT ![u] = "get_woken"]
  <2>1. PICK u \in Threads : p[u] = "get_blocked" /\ pc' = [p EXCEPT ![u] = "get_woken"]
    BY <1>4
  <2>2. Woken' = Woken \cup {u} /\ u \notin Woken
    BY <2>1 DEF Woken, At, TypeOK
  <2> QED
    BY <2>2, WokenFinite, FS_AddElement
<1> HIDE DEF p
<1> QED
  BY <1>1, <1>2, <1>3, <1>4, SignalledCases

\* A thread that takes an element was idle or woken; sleepers stay asleep.
LEMMA TakeRemovesOne ==
  ASSUME TypeOK, NEW t \in Threads, pc[t] \in {"idle", "get_woken"},
         ReturnSignal(t, "put_blocked", "put_woken")
  PROVE  Asleep' = Asleep /\ Cardinality(Woken') >= Cardinality(Woken) - 1
<1> DEFINE p == [pc EXCEPT ![t] = "idle"]
<1>1. p \in [Threads -> PCs] /\ "put_blocked" \in PCs /\ "put_woken" \in PCs
  BY DEF TypeOK, PCs
<1>2. pc' \in Signalled(p, "put_blocked", "put_woken")
  BY DEF ReturnSignal
<1>3. Asleep' = Asleep /\ Woken' = Woken \ {t}
  <2>1. CASE pc' = p
    BY <2>1 DEF Asleep, Woken, At, TypeOK
  <2>2. CASE \E u \in Threads : p[u] = "put_blocked" /\ pc' = [p EXCEPT ![u] = "put_woken"]
    BY <2>2 DEF Asleep, Woken, At, TypeOK
  <2> HIDE DEF p
  <2> QED
    BY <1>1, <1>2, <2>1, <2>2, SignalledCases
<1>4. Cardinality(Woken \ {t}) = IF t \in Woken THEN Cardinality(Woken) - 1 ELSE Cardinality(Woken)
  BY WokenFinite, FS_RemoveElement
<1> HIDE DEF p
<1> QED
  BY <1>3, <1>4, WokenFinite

LEMMA GetWakeupStep ==
  ASSUME TypeOK, CountInv, NoLostGetWakeup, [Next]_vars, TypeOK'
  PROVE  NoLostGetWakeup'
<1>1. num_els \in Nat /\ num_els' \in Nat /\ Cardinality(Woken) \in Nat
  BY WokenFinite DEF TypeOK
<1>2. Cardinality(Woken') \in Nat
  <2>1. Woken' \in SUBSET Threads
    BY DEF Woken, At
  <2> QED
    BY <2>1, ThreadsAssumption, FS_Subset, FS_CardinalityType
<1>3. NoLostGetWakeup <=> (Asleep # {} => num_els <= Cardinality(Woken))
  BY DEF NoLostGetWakeup, Asleep, Woken
<1>4. NoLostGetWakeup' <=> (Asleep' # {} => num_els' <= Cardinality(Woken'))
  BY DEF NoLostGetWakeup, Asleep, Woken
<1>5. ASSUME num_els' = 0 PROVE NoLostGetWakeup'
  BY <1>2, <1>4, <1>5
<1>6. ASSUME Asleep' = Asleep, Woken' = Woken, num_els' = num_els PROVE NoLostGetWakeup'
  BY <1>3, <1>4, <1>6
<1>7. ASSUME NEW t \in Threads, pc[t] \in {"idle", "put_woken"}, NEW code, Return(t, code),
             UNCHANGED data
      PROVE NoLostGetWakeup'
  <2>1. Asleep' = Asleep /\ Woken' = Woken
    BY <1>7 DEF Return, Asleep, Woken, At, TypeOK
  <2> QED
    BY <1>6, <1>7, <2>1 DEF data
<1>8. ASSUME NEW t \in Threads, pc[t] \in {"idle", "put_woken"}, NEW v, Store(t, v)
      PROVE NoLostGetWakeup'
  <2>1. CASE Link(v) /\ ReturnSignal(t, "get_blocked", "get_woken")
    <3>1. num_els' = num_els + 1
      BY <2>1 DEF Link
    <3>2. Asleep' # {} => Asleep # {}
      BY <1>8, <2>1, ReturnSignalEffect DEF Asleep, At, WakesOnly, TypeOK
    <3>3. Asleep' = {} \/ Cardinality(Woken') = Cardinality(Woken) + 1
      BY <1>8, <2>1, SignalAddsOne
    <3> QED
      BY <1>1, <1>3, <1>4, <3>1, <3>2, <3>3
  <2> QED
    BY <1>7, <1>8, <2>1 DEF Store
<1>9. ASSUME NEW t \in Threads, NEW where \in {"get_blocked", "put_blocked"},
             Sleep(t, where), where = "put_blocked" \/ num_els = 0, pc[t] # "get_woken" \/ num_els = 0,
             pc[t] # "get_blocked"
      PROVE NoLostGetWakeup'
  <2>1. num_els' = num_els
    BY <1>9 DEF Sleep, data
  <2>2. CASE num_els = 0
    BY <1>5, <2>1, <2>2
  <2>3. CASE where = "put_blocked" /\ pc[t] # "get_woken"
    <3>1. Asleep' = Asleep /\ Woken' = Woken
      BY <1>9, <2>3 DEF Sleep, Asleep, Woken, At, TypeOK
    <3> QED
      BY <1>6, <2>1, <3>1
  <2> QED
    BY <1>9, <2>2, <2>3
<1>10. ASSUME NEW t \in Threads, pc[t] \in {"idle", "get_woken"}, NEW i, Take(t, i),
              i = 0 => pc[t] = "idle"
       PROVE NoLostGetWakeup'
  <2>1. CASE Unlink(i) /\ ReturnSignal(t, "put_blocked", "put_woken")
    <3>1. num_els' = num_els - 1
      BY <2>1 DEF Unlink
    <3>2. Asleep' = Asleep /\ Cardinality(Woken') >= Cardinality(Woken) - 1
      BY <1>10, <2>1, TakeRemovesOne
    <3> QED
      BY <1>1, <1>2, <1>3, <1>4, <3>1, <3>2
  <2>2. CASE i = 0 /\ Return(t, Q_ERR_INVALID_ELEMENT) /\ UNCHANGED data
    BY <1>7, <1>10, <2>2
  <2> QED
    BY <1>10, <2>1, <2>2 DEF Take
<1>11. num_els # 0 => First # 0
  <2>1. num_els # 0 => els # <<>>
    BY DEF CountInv
  <2> QED
    BY <2>1 DEF First
<1>12. ASSUME NEW t \in Threads, pc[t] \in {"idle", "get_woken"}, GetOrSleep(t)
       PROVE NoLostGetWakeup'
  <2>1. CASE num_els = 0 /\ Sleep(t, "get_blocked")
    BY <1>9, <1>12, <2>1
  <2>2. CASE num_els = 0 /\ UNCHANGED data
    BY <1>5, <2>2 DEF data
  <2>3. CASE num_els # 0 /\ Take(t, First)
    BY <1>10, <1>11, <1>12, <2>3
  <2> QED
    BY <1>12, <2>1, <2>2, <2>3 DEF GetOrSleep
<1>13. ASSUME NEW t \in Threads, Ordinary(t) PROVE NoLostGetWakeup'
  <2>1. ASSUME NEW v \in Values, Put(t, v) PROVE NoLostGetWakeup'
    BY <1>7, <1>8, <2>1 DEF Put, Invoke
  <2>2. ASSUME NEW v \in Values, PutWait(t, v) PROVE NoLostGetWakeup'
    BY <1>7, <1>8, <1>9, <2>2 DEF PutWait, Invoke
  <2>3. ASSUME PutResume(t) PROVE NoLostGetWakeup'
    BY <1>7, <1>8, <1>9, <2>3 DEF PutResume
  <2>4. ASSUME NEW v \in Values, FlushPut(t, v) PROVE NoLostGetWakeup'
    <3>1. CASE Emptied
      BY <1>5, <3>1 DEF Emptied
    <3>2. CASE num_els' = 1 /\ ReturnSignal(t, "get_blocked", "get_woken")
      <4>1. Asleep' = {} \/ Cardinality(Woken') = Cardinality(Woken) + 1
        BY <2>4, <3>2, SignalAddsOne DEF FlushPut, Invoke
      <4> QED
        BY <1>1, <1>4, <3>2, <4>1
    <3> QED
      BY <2>4, <3>1, <3>2 DEF FlushPut
  <2>5. ASSUME Get(t) PROVE NoLostGetWakeup'
    BY <1>7, <1>10, <2>5 DEF Get, Invoke
  <2>6. ASSUME GetFiltered(t) PROVE NoLostGetWakeup'
    BY <1>7, <1>10, <2>6 DEF GetFiltered, Invoke
  <2>7. ASSUME GetWait(t) \/ GetResume(t) PROVE NoLostGetWakeup'
    BY <1>12, <2>7 DEF GetWait, GetResume, Invoke
  <2>8. ASSUME Flush(t) PROVE NoLostGetWakeup'
    BY <1>5, <2>8 DEF Flush, Emptied
  <2> QED
    BY <1>13, <2>1, <2>2, <2>3, <2>4, <2>5, <2>6, <2>7, <2>8 DEF Ordinary, Resume
<1>14. ASSUME NEW t \in Threads, Open(t) \/ Close(t) \/ Destroy(t) \/ SetReread(t)
       PROVE NoLostGetWakeup'
  <2>1. Asleep' = Asleep /\ Woken' = Woken
    BY <1>14 DEF Open, Close, Destroy, SetReread, SetReturn, Invoke, Asleep, Woken, At, TypeOK
  <2>2. num_els' = num_els
    BY <1>14 DEF Open, Close, Destroy, SetReread, data
  <2> QED
    BY <1>6, <2>1, <2>2
<1>15. ASSUME NEW t \in Threads, BroadcastGet(t) PROVE NoLostGetWakeup'
  <2>1. Asleep' = {}
    BY <1>15 DEF BroadcastGet, Broadcast, Asleep, At, TypeOK
  <2> QED
    BY <1>4, <2>1
<1>16. ASSUME NEW t \in Threads, BroadcastPut(t) PROVE NoLostGetWakeup'
  <2>1. Asleep' = Asleep /\ Woken' = Woken
    BY <1>16 DEF BroadcastPut, Broadcast, SetReturn, Asleep, Woken, At, TypeOK
  <2>2. num_els' = num_els
    BY <1>16 DEF BroadcastPut, data
  <2> QED
    BY <1>6, <2>1, <2>2
<1>17. ASSUME NEW t \in Threads, DestroyFinish(t) PROVE NoLostGetWakeup'
  <2>1. CASE DestroyLocked(t)
    BY <1>5, <2>1 DEF DestroyLocked, Emptied
  <2>2. CASE DestroyFree(t)
    <3>1. Asleep' = Asleep /\ Woken' = Woken
      BY <2>2 DEF DestroyFree, Return, Asleep, Woken, At, TypeOK
    <3> QED
      BY <1>6, <2>2, <3>1 DEF DestroyFree, data
  <2> QED
    BY <1>17, <2>1, <2>2 DEF DestroyFinish
<1>18. ASSUME NEW t \in Threads, SpuriousWakeup(t) PROVE NoLostGetWakeup'
  <2>1. num_els' = num_els
    BY <1>18 DEF SpuriousWakeup, data
  <2>2. CASE pc[t] = "get_blocked" /\ pc' = [pc EXCEPT ![t] = "get_woken"]
    <3>1. Woken' = Woken \cup {t} /\ t \notin Woken /\ t \in Asleep
      BY <2>2 DEF Woken, Asleep, At, TypeOK
    <3>2. Cardinality(Woken') = Cardinality(Woken) + 1
      BY <3>1, WokenFinite, FS_AddElement
    <3> QED
      BY <1>1, <1>3, <1>4, <2>1, <3>1, <3>2
  <2>3. CASE pc[t] = "put_blocked" /\ pc' = [pc EXCEPT ![t] = "put_woken"]
    <3>1. Asleep' = Asleep /\ Woken' = Woken
      BY <2>3 DEF Asleep, Woken, At, TypeOK
    <3> QED
      BY <1>6, <2>1, <3>1
  <2> QED
    BY <1>18, <2>2, <2>3 DEF SpuriousWakeup
<1>19. CASE UNCHANGED vars
  BY <1>6, <1>19 DEF vars, Asleep, Woken, At
<1> QED
  BY <1>13, <1>14, <1>15, <1>16, <1>17, <1>18, <1>19, NextCases DEF Administrative, SetFinish

\* With one pthread_cond_signal per element no wakeup of a getter is lost:
\* while one sleeps, every element has a woken getter on its way to it.
THEOREM GetWakeupsSuffice == ASSUME ListIsMaintained PROVE Spec => []NoLostGetWakeup
<1>1. Init => TypeOK /\ CountInv /\ NoLostGetWakeup
  BY ValuesAssumption DEF Init, TypeOK, PCs, Codes, CountInv, NoLostGetWakeup, At
<1>2. TypeOK /\ CountInv /\ [Next]_vars => CountInv'
  BY CountInvStep
<1>3. TypeOK /\ CountInv /\ NoLostGetWakeup /\ [Next]_vars => NoLostGetWakeup'
  BY TypeStep, GetWakeupStep
<1> QED
  BY <1>1, <1>2, <1>3, TypeStep, PTL DEF Spec

-----------------------------------------------------------------------------
(* Destruction *)

DestroyPCs == {"close_unlocked", "close_bcast_get", "close_bcast_put", "destroy", "destroy_free"}

NobodyAsleep == \A u \in Threads : pc[u] \notin {"get_blocked", "put_blocked"}

\* How far queue_destroy_internal came, and what can no longer happen there:
\* the queue it closed stays closed, so the sleepers it woke stay awake.
DestroyInv ==
  /\ \A t \in Threads : pc[t] \in DestroyPCs => "destroy" \in Calls[t] /\ ~new_data
  /\ \A t \in Threads : pc[t] = "close_bcast_put" =>
       \A u \in Threads : pc[u] # "get_blocked"
  /\ \A t \in Threads : pc[t] \in {"destroy", "destroy_free"} => NobodyAsleep
  /\ life # "alive" => NobodyAsleep /\ ~new_data /\ num_els = 0
  /\ life = "conds_freed" => \E t \in Threads : pc[t] = "destroy_free"
  /\ \A t \in Threads : pc[t] = "destroy_free" => life # "alive"

\* A closed empty queue stays empty.
LEMMA ClosedStaysEmpty ==
  ASSUME TypeOK, ~new_data, num_els = 0, NEW t \in Threads, Ordinary(t)
  PROVE  num_els' = 0
  BY DEF Ordinary, Resume, Put, PutWait, FlushPut, Get, GetWait, GetFiltered, Flush,
     PutResume, GetResume, GetOrSleep, Emptied, data

LEMMA DestroyInvStep == TypeOK /\ DestroyInv /\ [Next]_vars => DestroyInv'
<1> SUFFICES ASSUME TypeOK, DestroyInv, [Next]_vars PROVE DestroyInv'
  OBVIOUS
<1>1. CASE UNCHANGED vars
  BY <1>1 DEF vars, DestroyInv, NobodyAsleep
<1>2. ASSUME NEW t \in Threads, Ordinary(t) PROVE DestroyInv'
  <2>1. OrdinaryEffect(t)
    BY <1>2, OrdinaryPc
  <2>2. \A u \in Threads : pc'[u] \in DestroyPCs => pc'[u] = pc[u]
    BY <2>1 DEF OrdinaryEffect, WakesOnly, DestroyPCs
  <2>3. \A u \in Threads : pc[u] = "destroy_free" => pc'[u] = "destroy_free"
    BY <2>1 DEF OrdinaryEffect, WakesOnly
  <2>4. ~new_data => \A u \in Threads : pc'[u] \in {"get_blocked", "put_blocked"} => pc[u] = pc'[u]
    BY <2>1 DEF OrdinaryEffect, WakesOnly
  <2>5. ~new_data /\ num_els = 0 => num_els' = 0
    BY <1>2, ClosedStaysEmpty
  <2>6. new_data' = new_data /\ life' = life
    BY <2>1 DEF OrdinaryEffect
  <2> QED
    BY <2>2, <2>3, <2>4, <2>5, <2>6 DEF DestroyInv, NobodyAsleep, DestroyPCs
<1>3. ASSUME NEW t \in Threads, Open(t) PROVE DestroyInv'
  <2>1. \A u \in Threads : pc[u] \notin DestroyPCs
    <3> SUFFICES ASSUME NEW u \in Threads, pc[u] \in DestroyPCs PROVE FALSE
      OBVIOUS
    <3>1. u # t /\ "open" \in Calls[t] /\ "destroy" \in Calls[u]
      BY <1>3 DEF Open, Invoke, DestroyInv, DestroyPCs
    <3> QED
      BY <3>1, DestroyAssumption
  <2>2. life = "alive"
    BY <1>3, <2>1 DEF Open, Invoke, DestroyInv, DestroyPCs, TypeOK
  <2> QED
    BY <1>3, <2>1, <2>2 DEF Open, DestroyInv, DestroyPCs, TypeOK
<1>4. ASSUME NEW t \in Threads, Close(t) PROVE DestroyInv'
  BY <1>4 DEF Close, Invoke, DestroyInv, DestroyPCs, NobodyAsleep, TypeOK, data
<1>5. ASSUME NEW t \in Threads, Destroy(t) PROVE DestroyInv'
  BY <1>5 DEF Destroy, Invoke, DestroyInv, DestroyPCs, NobodyAsleep, TypeOK, data
<1>6. ASSUME NEW t \in Threads, SetReread(t) PROVE DestroyInv'
  BY <1>6 DEF SetReread, SetReturn, DestroyInv, DestroyPCs, NobodyAsleep, TypeOK, data
<1>7. ASSUME NEW t \in Threads, BroadcastGet(t) PROVE DestroyInv'
  BY <1>7 DEF BroadcastGet, Broadcast, DestroyInv, DestroyPCs, NobodyAsleep, TypeOK, data
<1>8. ASSUME NEW t \in Threads, BroadcastPut(t) PROVE DestroyInv'
  BY <1>8 DEF BroadcastPut, Broadcast, SetReturn, DestroyInv, DestroyPCs, NobodyAsleep, TypeOK, data
<1>9. ASSUME NEW t \in Threads, DestroyLocked(t) PROVE DestroyInv'
  BY <1>9 DEF DestroyLocked, Emptied, DestroyInv, DestroyPCs, NobodyAsleep, TypeOK
<1>10. ASSUME NEW t \in Threads, DestroyFree(t) PROVE DestroyInv'
  <2>1. NobodyAsleep /\ ~new_data
    BY <1>10 DEF DestroyFree, DestroyInv, DestroyPCs
  <2>2. num_els' = num_els /\ new_data' = new_data /\ life' = "freed"
        /\ pc' = [pc EXCEPT ![t] = "idle"]
    BY <1>10 DEF DestroyFree, Return, data
  <2>3. num_els = 0
    BY <1>10 DEF DestroyFree, DestroyInv
  <2> QED
    BY <2>1, <2>2, <2>3 DEF DestroyInv, DestroyPCs, NobodyAsleep, TypeOK
<1>11. ASSUME NEW t \in Threads, SpuriousWakeup(t) PROVE DestroyInv'
  BY <1>11 DEF SpuriousWakeup, DestroyInv, DestroyPCs, NobodyAsleep, TypeOK, data
<1> QED
  BY <1>1, <1>2, <1>3, <1>4, <1>5, <1>6, <1>7, <1>8, <1>9, <1>10, <1>11, NextCases
     DEF Administrative, SetFinish, DestroyFinish

\* When queue_destroy frees the condition variables nobody sleeps on them, and
\* nobody will sleep on them or signal them again.
THEOREM DestroyIsSafe == Spec => []FreedCondsUnused
<1>1. Init => TypeOK /\ DestroyInv
  BY ValuesAssumption DEF Init, TypeOK, PCs, Codes, DestroyInv, DestroyPCs
<1>2. DestroyInv => FreedCondsUnused
  BY DEF DestroyInv, NobodyAsleep, FreedCondsUnused, At
<1> QED
  BY <1>1, <1>2, TypeStep, DestroyInvStep, PTL DEF Spec

-----------------------------------------------------------------------------
(* The order of a sorted queue *)

\* What InsertAfter leaves at each position ...
LEMMA InsertElements ==
  ASSUME NEW S, NEW s \in Seq(S), NEW i \in 0..Len(s), NEW v \in S, NEW k \in 1..(Len(s) + 1)
  PROVE  InsertAfter(s, i, v)[k] = IF k <= i THEN s[k] ELSE IF k = i + 1 THEN v ELSE s[k - 1]
<1> DEFINE front == SubSeq(s, 1, i)
           back == SubSeq(s, i + 1, Len(s))
           most == front \o <<v>>
<1>1. Len(s) \in Nat
  BY LenProperties
<1>2. front \in Seq(S) /\ Len(front) = i /\ \A j \in 1..i : front[j] = s[j]
  BY <1>1, SubSeqProperties
<1>3. back \in Seq(S) /\ Len(back) = Len(s) - i /\ \A j \in 1..(Len(s) - i) : back[j] = s[i + j]
  BY <1>1, SubSeqProperties
<1>4. <<v>> \in Seq(S) /\ Len(<<v>>) = 1 /\ <<v>>[1] = v
  OBVIOUS
<1> HIDE DEF front, back
<1>5. /\ most \in Seq(S) /\ Len(most) = i + 1
      /\ \A j \in 1..(i + 1) : most[j] = IF j <= i THEN front[j] ELSE <<v>>[j - i]
  BY <1>1, <1>2, <1>4, ConcatProperties
<1> HIDE DEF most
<1>6. k \in 1..(Len(most) + Len(back))
  BY <1>1, <1>3, <1>5
<1>7. (most \o back)[k] = IF k <= Len(most) THEN most[k] ELSE back[k - Len(most)]
  BY <1>3, <1>5, <1>6, ConcatProperties
<1>8. InsertAfter(s, i, v) = most \o back
  BY DEF InsertAfter, front, back, most
<1>9. CASE k <= i
  BY <1>1, <1>2, <1>5, <1>7, <1>8, <1>9
<1>10. CASE k = i + 1
  BY <1>1, <1>4, <1>5, <1>7, <1>8, <1>10
<1>11. CASE k > i + 1
  <2>1. PICK j \in 1..(Len(s) - i) : j = k - (i + 1) /\ i + j = k - 1
    BY <1>1, <1>11
  <2>2. InsertAfter(s, i, v)[k] = back[j]
    <3>1. ~(k <= Len(most)) /\ k - Len(most) = j
      BY <1>1, <1>5, <1>11, <2>1
    <3> QED
      BY <1>7, <1>8, <3>1
  <2>3. back[j] = s[k - 1]
    BY <1>3, <2>1
  <2> QED
    BY <1>1, <1>11, <2>2, <2>3
<1> QED
  BY <1>1, <1>9, <1>10, <1>11

\* ... and what leaving one out does.
LEMMA RemoveElements ==
  ASSUME NEW S, NEW s \in Seq(S), NEW i \in 1..Len(s), NEW k \in 1..(Len(s) - 1)
  PROVE  (SubSeq(s, 1, i - 1) \o SubSeq(s, i + 1, Len(s)))[k] = IF k < i THEN s[k] ELSE s[k + 1]
<1> DEFINE front == SubSeq(s, 1, i - 1)
           back == SubSeq(s, i + 1, Len(s))
<1>1. Len(s) \in Nat
  BY LenProperties
<1>2. front \in Seq(S) /\ Len(front) = i - 1 /\ \A j \in 1..(i - 1) : front[j] = s[j]
  BY <1>1, SubSeqProperties
<1>3. back \in Seq(S) /\ Len(back) = Len(s) - i /\ \A j \in 1..(Len(s) - i) : back[j] = s[i + j]
  BY <1>1, SubSeqProperties
<1> HIDE DEF front, back
<1>4. k \in 1..(Len(front) + Len(back))
  BY <1>1, <1>2, <1>3
<1>5. (front \o back)[k] = IF k <= Len(front) THEN front[k] ELSE back[k - Len(front)]
  BY <1>2, <1>3, <1>4, ConcatProperties
<1>6. ASSUME k < i PROVE (front \o back)[k] = s[k]
  <2>1. k <= Len(front) /\ k \in 1..(i - 1)
    BY <1>1, <1>2, <1>6
  <2> QED
    BY <1>2, <1>5, <2>1
<1>7. ASSUME k >= i PROVE (front \o back)[k] = s[k + 1]
  <2>1. PICK j \in 1..(Len(s) - i) : j = k - (i - 1) /\ i + j = k + 1
    BY <1>1, <1>7
  <2>2. ~(k <= Len(front)) /\ k - Len(front) = j
    BY <1>1, <1>2, <1>7, <2>1
  <2> QED
    BY <1>3, <1>5, <2>1, <2>2
<1>8. (front \o back)[k] = IF k < i THEN s[k] ELSE s[k + 1]
  <2>1. k < i \/ k >= i
    BY <1>1
  <2> QED
    BY <1>6, <1>7, <2>1, Zenon
<1> QED
  BY <1>8 DEF front, back

\* The comparator is a total order.
LEMMA InOrderTotal == \A a, b \in Int : InOrder(a, b) \/ InOrder(b, a)
  BY DEF InOrder
LEMMA InOrderTransitive == \A a, b, c \in Int : InOrder(a, b) /\ InOrder(b, c) => InOrder(a, c)
  BY DEF InOrder

Sorted(s) == \A i \in 1..(Len(s) - 1) : InOrder(s[i], s[i + 1])

\* The walk of queue_put_internal ends at a place where v fits: behind an element
\* it may follow and in front of one that may follow it.
LEMMA SortedPosFits ==
  ASSUME NEW s \in Seq(Values), s # <<>>, NEW v \in Values, NEW i, i = SortedPos(s, v)
  PROVE  /\ i \in 0..Len(s)
         /\ i > 0 => InOrder(s[i], v)
         /\ i < Len(s) => InOrder(v, s[i + 1])
<1> DEFINE fits == {j \in 1..(Len(s) - 1) : InOrder(s[j], v) /\ InOrder(v, s[j + 1])}
<1>1. Len(s) \in Nat /\ Len(s) > 0 /\ v \in Int /\ \A j \in 1..Len(s) : s[j] \in Int
  <2>1. Len(s) \in Nat /\ Len(s) # 0 /\ \A j \in 1..Len(s) : s[j] \in Values
    BY LenProperties, EmptySeq, ElementOfSeq
  <2>2. Len(s) > 0
    BY <2>1
  <2> QED
    BY <2>1, <2>2, ValuesAssumption
<1>2. i \in 0..Len(s)
  BY SortedPosRange
<1>3. CASE InOrder(v, s[1])
  BY <1>1, <1>3 DEF SortedPos
<1>4. CASE ~InOrder(v, s[1]) /\ fits = {}
  <2>1. i = Len(s)
    BY <1>4 DEF SortedPos
  <2>2. ASSUME ~InOrder(s[Len(s)], v) PROVE FALSE
    <3> DEFINE late == {j \in 1..Len(s) : ~InOrder(s[j], v)}
    <3>1. late \in SUBSET Nat /\ Len(s) \in late
      BY <1>1, <2>2
    <3>2. PICK j \in late : \A k \in late : j <= k
      BY <3>1, LeastNat
    <3>3. j \in 2..Len(s)
      BY <1>1, <1>4, <3>2, InOrderTotal
    <3>4. j - 1 \in 1..(Len(s) - 1) /\ InOrder(s[j - 1], v) /\ (j - 1) + 1 = j
      BY <1>1, <3>2, <3>3
    <3>5. InOrder(v, s[j])
      BY <1>1, <3>2, <3>3, InOrderTotal
    <3>6. j - 1 \in fits
      BY <3>4, <3>5
    <3> QED
      BY <1>4, <3>6
  <2> QED
    BY <1>1, <2>1, <2>2
<1>5. CASE ~InOrder(v, s[1]) /\ fits # {}
  <2>1. fits \in SUBSET Nat
    BY <1>1
  <2>2. \E j \in fits : \A k \in fits : j <= k
    BY <1>5, <2>1, LeastNat
  <2>3. i \in fits
    BY <1>5, <2>2 DEF SortedPos
  <2> QED
    BY <1>2, <2>3
<1> QED
  BY <1>3, <1>4, <1>5

LEMMA InsertSorted ==
  ASSUME NEW s \in Seq(Values), s # <<>>, Sorted(s), NEW v \in Values
  PROVE  Sorted(InsertAfter(s, SortedPos(s, v), v))
<1> DEFINE i == SortedPos(s, v)
           r == InsertAfter(s, i, v)
<1>1. /\ i \in 0..Len(s) /\ (i > 0 => InOrder(s[i], v)) /\ (i < Len(s) => InOrder(v, s[i + 1]))
      /\ Len(s) \in Nat
  BY SortedPosFits, LenProperties
<1> HIDE DEF i
<1>2. /\ Len(r) = Len(s) + 1
      /\ \A k \in 1..(Len(s) + 1) : r[k] = IF k <= i THEN s[k] ELSE IF k = i + 1 THEN v ELSE s[k - 1]
  BY <1>1, InsertLength, InsertElements
<1> HIDE DEF r
<1>3. ASSUME NEW k \in 1..(Len(r) - 1) PROVE InOrder(r[k], r[k + 1])
  <2>1. k \in 1..Len(s) /\ k \in 1..(Len(s) + 1) /\ k + 1 \in 1..(Len(s) + 1)
    BY <1>1, <1>2, <1>3
  <2>2. CASE k < i
    <3>1. r[k] = s[k] /\ r[k + 1] = s[k + 1] /\ k \in 1..(Len(s) - 1)
      BY <1>1, <1>2, <2>1, <2>2
    <3> QED
      BY <3>1 DEF Sorted
  <2>3. CASE k = i
    <3>1. r[k] = s[k] /\ r[k + 1] = v
      BY <1>1, <1>2, <2>1, <2>3
    <3> QED
      BY <1>1, <2>1, <2>3, <3>1
  <2>4. CASE k = i + 1
    <3>1. r[k] = v /\ r[k + 1] = s[k]
      BY <1>1, <1>2, <2>1, <2>4
    <3> QED
      BY <1>1, <2>1, <2>4, <3>1
  <2>5. CASE k > i + 1
    <3>1. r[k] = s[k - 1] /\ r[k + 1] = s[k] /\ k - 1 \in 1..(Len(s) - 1) /\ (k - 1) + 1 = k
      BY <1>1, <1>2, <2>1, <2>5
    <3> QED
      BY <3>1 DEF Sorted
  <2> QED
    BY <1>1, <2>1, <2>2, <2>3, <2>4, <2>5
<1> QED
  BY <1>3 DEF Sorted, r, i

LEMMA RemoveSorted ==
  ASSUME NEW s \in Seq(Values), Sorted(s), NEW i \in 1..Len(s)
  PROVE  Sorted(SubSeq(s, 1, i - 1) \o SubSeq(s, i + 1, Len(s)))
<1> DEFINE r == SubSeq(s, 1, i - 1) \o SubSeq(s, i + 1, Len(s))
<1>1. Len(s) \in Nat /\ \A j \in 1..Len(s) : s[j] \in Int
  BY LenProperties, ValuesAssumption
<1>2. Len(r) = Len(s) - 1 /\ \A k \in 1..(Len(s) - 1) : r[k] = IF k < i THEN s[k] ELSE s[k + 1]
  BY RemoveLength, RemoveElements
<1> HIDE DEF r
<1>3. ASSUME NEW k \in 1..(Len(r) - 1) PROVE InOrder(r[k], r[k + 1])
  <2>1. /\ k \in 1..(Len(s) - 1) /\ k + 1 \in 1..(Len(s) - 1) /\ {k, k + 1, k + 2} \subseteq 1..Len(s)
        /\ (k + 1) + 1 = k + 2
    BY <1>1, <1>2, <1>3
  <2>2. InOrder(s[k], s[k + 1]) /\ InOrder(s[k + 1], s[k + 2])
    BY <2>1 DEF Sorted
  <2>3. InOrder(s[k], s[k + 2])
    BY <1>1, <2>1, <2>2, InOrderTransitive
  <2>4. r[k] \in {s[k], s[k + 1]} /\ r[k + 1] \in {s[k + 1], s[k + 2]} /\ (r[k] = s[k + 1] => r[k + 1] = s[k + 2] \/ k < i)
    BY <1>2, <2>1
  <2>5. CASE k < i
    <3>1. r[k] = s[k]
      BY <1>2, <2>1, <2>5
    <3> QED
      BY <2>2, <2>3, <2>4, <3>1
  <2>6. CASE ~(k < i)
    <3>1. r[k] = s[k + 1] /\ r[k + 1] = s[k + 2]
      BY <1>2, <2>1, <2>6
    <3> QED
      BY <2>2, <3>1
  <2> QED
    BY <2>5, <2>6
<1> QED
  BY <1>3 DEF Sorted, r

LEMMA SortedStep == TypeOK /\ SortedOrder /\ [Next]_vars => SortedOrder'
<1> SUFFICES ASSUME TypeOK, SortedOrder, [Next]_vars, Sort # "none" PROVE Sorted(els)'
  BY DEF SortedOrder, Sorted
<1>1. els \in Seq(Values) /\ Len(els) \in Nat /\ Sorted(els)
  BY LenProperties DEF TypeOK, SortedOrder, Sorted
<1>2. ASSUME UNCHANGED data PROVE Sorted(els)'
  BY <1>1, <1>2 DEF data, Sorted
<1>3. ASSUME Emptied PROVE Sorted(els)'
  BY <1>3 DEF Emptied, Sorted
<1>4. ASSUME NEW t \in Threads, NEW v \in Values, Store(t, v) PROVE Sorted(els)'
  <2>1. CASE Link(v) /\ els # <<>>
    <3>1. els' = InsertAfter(els, SortedPos(els, v), v)
      BY <2>1 DEF Link
    <3>2. Sorted(els')
      BY <1>1, <2>1, <3>1, InsertSorted
    <3> QED
      BY <3>2 DEF Sorted
  <2>2. CASE Link(v) /\ els = <<>>
    <3>1. els' = Append(els, v) \/ els' = els
      BY <2>2 DEF Link
    <3>2. Len(els') \in {0, 1}
      BY <2>2, <3>1
    <3> QED
      BY <3>2 DEF Sorted
  <2> QED
    BY <1>2, <1>4, <2>1, <2>2 DEF Store
<1>5. ASSUME NEW t \in Threads, NEW i \in 0..Len(els), Take(t, i) PROVE Sorted(els)'
  <2>1. CASE i # 0 /\ Unlink(i)
    <3>1. i \in 1..Len(els)
      BY <1>1, <2>1
    <3>2. Sorted(els')
      BY <1>1, <2>1, <3>1, RemoveSorted DEF Unlink
    <3> QED
      BY <3>2 DEF Sorted
  <2> QED
    BY <1>2, <1>5, <2>1 DEF Take
<1>6. ASSUME NEW t \in Threads, Ordinary(t) PROVE Sorted(els)'
  <2>1. ASSUME NEW v \in Values, Put(t, v) \/ PutWait(t, v) PROVE Sorted(els)'
    BY <1>2, <1>4, <2>1 DEF Put, PutWait, Sleep, data
  <2>2. ASSUME PutResume(t) PROVE Sorted(els)'
    BY <1>2, <1>4, <2>2 DEF PutResume, Sleep, data, TypeOK
  <2>3. ASSUME NEW v \in Values, FlushPut(t, v) PROVE Sorted(els)'
    <3>1. CASE els' = <<v>>
      <4>1. Len(els') = 1
        BY <3>1
      <4> QED
        BY <4>1 DEF Sorted
    <3> QED
      BY <1>3, <2>3, <3>1 DEF FlushPut
  <2>4. ASSUME Get(t) \/ GetWait(t) \/ GetResume(t) PROVE Sorted(els)'
    BY <1>2, <1>5, <2>4, FirstRange DEF Get, GetWait, GetResume, GetOrSleep, Sleep, data
  <2>5. ASSUME GetFiltered(t) PROVE Sorted(els)'
    BY <1>2, <1>5, <2>5 DEF GetFiltered
  <2>6. ASSUME Flush(t) PROVE Sorted(els)'
    BY <1>3, <2>6 DEF Flush
  <2> QED
    BY <1>6, <2>1, <2>2, <2>3, <2>4, <2>5, <2>6 DEF Ordinary, Resume
<1>7. CASE UNCHANGED vars
  BY <1>2, <1>7 DEF vars, data
<1> QED
  BY <1>2, <1>3, <1>6, <1>7, NextCases, AdministrativeCount

\* A queue with a comparator stays sorted, whichever elements are taken out of
\* it and wherever queue_put_internal puts the new ones.
THEOREM OrderIsKept == Spec => []SortedOrder
<1>1. Init => TypeOK /\ SortedOrder
  BY ValuesAssumption DEF Init, TypeOK, PCs, Codes, SortedOrder
<1> QED
  BY <1>1, TypeStep, SortedStep, PTL DEF Spec

-----------------------------------------------------------------------------
(* Lost wakeups of putters *)

Ready == At("put_woken")
Queued == At("put_blocked")
SetPCs == {"set_unlocked", "bcast_get", "bcast_put", "close_unlocked", "close_bcast_get", "close_bcast_put"}
Controls(t) == {"open", "close", "destroy"} \cap Calls[t] # {}

\* What a sleeping putter relies on.  queue_flush makes room and wakes nobody, a
\* put that was woken and has no memory takes its wakeup with it, and a thread
\* that opens the queue between another one's unlock and its second look at
\* new_data suppresses the broadcast.
PuttersProtected ==
  /\ ~MallocFails
  /\ \A t \in Threads : {"flush", "flush_put"} \cap Calls[t] = {}
  /\ \A t, u \in Threads : "open" \in Calls[t] /\ Controls(u) => t = u

\* Whoever is in queue_set_new_data was allowed to call it.
SettersControl == \A t \in Threads : pc[t] \in SetPCs => Controls(t)

LEMMA SettersStep == TypeOK /\ SettersControl /\ [Next]_vars => SettersControl'
<1> SUFFICES ASSUME TypeOK, SettersControl, [Next]_vars PROVE SettersControl'
  OBVIOUS
<1>1. CASE UNCHANGED vars
  BY <1>1 DEF vars, SettersControl
<1>2. ASSUME NEW t \in Threads, Ordinary(t) PROVE SettersControl'
  BY <1>2, OrdinaryPc DEF OrdinaryEffect, WakesOnly, SettersControl, SetPCs
<1>3. ASSUME NEW t \in Threads, Open(t) \/ Close(t) \/ Destroy(t) PROVE SettersControl'
  <2>1. Controls(t) /\ \A u \in Threads \ {t} : pc'[u] = pc[u]
    BY <1>3 DEF Open, Close, Destroy, Invoke, Controls, TypeOK
  <2> QED
    BY <2>1 DEF SettersControl
<1>4. ASSUME NEW t \in Threads, SetFinish(t) PROVE SettersControl'
  <2>1. pc[t] \in SetPCs /\ \A u \in Threads \ {t} : WakesOnly(u)
    BY <1>4 DEF SetFinish, SetReread, BroadcastGet, BroadcastPut, Broadcast, WakesOnly, SetPCs, TypeOK
  <2> QED
    BY <2>1 DEF SettersControl, WakesOnly, SetPCs
<1>5. ASSUME NEW t \in Threads, DestroyFinish(t) PROVE SettersControl'
  BY <1>5 DEF DestroyFinish, DestroyLocked, DestroyFree, Return, SettersControl, SetPCs, TypeOK
<1>6. ASSUME NEW t \in Threads, SpuriousWakeup(t) PROVE SettersControl'
  BY <1>6 DEF SpuriousWakeup, SettersControl, SetPCs, TypeOK
<1> QED
  BY <1>1, <1>2, <1>3, <1>4, <1>5, <1>6, NextCases DEF Administrative

LEMMA ReadyFinite == IsFiniteSet(Ready) /\ Cardinality(Ready) \in Nat
  BY ThreadsAssumption, FS_Subset, FS_CardinalityType DEF Ready, At

\* The signal of a get: nobody sleeps any more, or one more putter is woken.
LEMMA SignalReadiesOne ==
  ASSUME TypeOK, NEW t \in Threads, pc[t] \in {"idle", "get_woken"},
         ReturnSignal(t, "put_blocked", "put_woken")
  PROVE  Queued' = {} \/ (Queued # {} /\ Cardinality(Ready') = Cardinality(Ready) + 1)
<1> DEFINE p == [pc EXCEPT ![t] = "idle"]
<1>1. p \in [Threads -> PCs] /\ "put_blocked" \in PCs /\ "put_woken" \in PCs
  BY DEF TypeOK, PCs
<1>2. pc' \in Signalled(p, "put_blocked", "put_woken")
  BY DEF ReturnSignal
<1>3. CASE pc' = p /\ \A u \in Threads : p[u] # "put_blocked"
  BY <1>3 DEF Queued, At
<1>4. CASE \E u \in Threads : p[u] = "put_blocked" /\ pc' = [p EXCEPT ![u] = "put_woken"]
  <2>1. PICK u \in Threads : p[u] = "put_blocked" /\ pc' = [p EXCEPT ![u] = "put_woken"]
    BY <1>4
  <2>2. Ready' = Ready \cup {u} /\ u \notin Ready /\ u \in Queued
    BY <2>1 DEF Ready, Queued, At, TypeOK
  <2> QED
    BY <2>2, ReadyFinite, FS_AddElement
<1> HIDE DEF p
<1> QED
  BY <1>1, <1>2, <1>3, <1>4, SignalledCases

\* A put returns: it was idle or woken, and the sleeping putters stay asleep.
LEMMA PutUsesOne ==
  ASSUME TypeOK, NEW t \in Threads, pc[t] \in {"idle", "put_woken"},
         ReturnSignal(t, "get_blocked", "get_woken")
  PROVE  Queued' = Queued /\ Cardinality(Ready') >= Cardinality(Ready) - 1
<1> DEFINE p == [pc EXCEPT ![t] = "idle"]
<1>1. p \in [Threads -> PCs] /\ "get_blocked" \in PCs /\ "get_woken" \in PCs
  BY DEF TypeOK, PCs
<1>2. pc' \in Signalled(p, "get_blocked", "get_woken")
  BY DEF ReturnSignal
<1>3. Queued' = Queued /\ Ready' = Ready \ {t}
  <2>1. CASE pc' = p
    BY <2>1 DEF Queued, Ready, At, TypeOK
  <2>2. CASE \E u \in Threads : p[u] = "get_blocked" /\ pc' = [p EXCEPT ![u] = "get_woken"]
    BY <2>2 DEF Queued, Ready, At, TypeOK
  <2> HIDE DEF p
  <2> QED
    BY <1>1, <1>2, <2>1, <2>2, SignalledCases
<1>4. Cardinality(Ready \ {t}) = IF t \in Ready THEN Cardinality(Ready) - 1 ELSE Cardinality(Ready)
  BY ReadyFinite, FS_RemoveElement
<1> HIDE DEF p
<1> QED
  BY <1>3, <1>4, ReadyFinite

LEMMA PutWakeupStep ==
  ASSUME PuttersProtected, TypeOK, Capacity, ClosedInv, DestroyInv, SettersControl, NoLostPutWakeup,
         [Next]_vars, TypeOK', Capacity'
  PROVE  NoLostPutWakeup'
<1>1. num_els \in Nat /\ num_els' \in Nat /\ Cardinality(Ready) \in Nat /\ Limit \in Nat
  BY ReadyFinite, BoundsAssumption DEF TypeOK, Limit
<1>2. Cardinality(Ready') \in Nat
  <2>1. Ready' \in SUBSET Threads
    BY DEF Ready, At
  <2> QED
    BY <2>1, ThreadsAssumption, FS_Subset, FS_CardinalityType
<1>3. NoLostPutWakeup <=> (new_data /\ Queued # {} => Limit - num_els <= Cardinality(Ready))
  BY DEF NoLostPutWakeup, Queued, Ready
<1>4. NoLostPutWakeup' <=> (new_data' /\ Queued' # {} => Limit - num_els' <= Cardinality(Ready'))
  BY DEF NoLostPutWakeup, Queued, Ready, Limit
<1>5. Full => num_els = Limit
  BY <1>1, BoundsAssumption DEF Full, Limit, Capacity
<1>6. ASSUME Queued' = Queued, Ready' = Ready, num_els' = num_els, new_data' = new_data PROVE NoLostPutWakeup'
  BY <1>3, <1>4, <1>6
<1>7. ASSUME num_els' = Limit PROVE NoLostPutWakeup'
  BY <1>1, <1>2, <1>4, <1>7
<1>8. ASSUME NEW t \in Threads, pc[t] \in {"idle", "get_woken"}, NEW code, Return(t, code), UNCHANGED data,
             new_data' = new_data
      PROVE NoLostPutWakeup'
  <2>1. Queued' = Queued /\ Ready' = Ready
    BY <1>8 DEF Return, Queued, Ready, At, TypeOK
  <2> QED
    BY <1>6, <1>8, <2>1 DEF data
<1>9. ASSUME NEW t \in Threads, pc[t] \in {"idle", "put_woken"}, NEW v, Store(t, v), new_data' = new_data
      PROVE NoLostPutWakeup'
  <2>1. Link(v) /\ ReturnSignal(t, "get_blocked", "get_woken")
    BY <1>9 DEF Store, PuttersProtected
  <2>2. num_els' = num_els + 1
    BY <2>1 DEF Link
  <2>3. Queued' = Queued /\ Cardinality(Ready') >= Cardinality(Ready) - 1
    BY <1>9, <2>1, PutUsesOne
  <2> QED
    BY <1>1, <1>2, <1>3, <1>4, <1>9, <2>2, <2>3
<1>10. ASSUME NEW t \in Threads, pc[t] \in {"idle", "get_woken"}, NEW i, Take(t, i), new_data' = new_data
       PROVE NoLostPutWakeup'
  <2>1. CASE Unlink(i) /\ ReturnSignal(t, "put_blocked", "put_woken")
    <3>1. num_els' = num_els - 1
      BY <2>1 DEF Unlink
    <3>2. Queued' = {} \/ (Queued # {} /\ Cardinality(Ready') = Cardinality(Ready) + 1)
      BY <1>10, <2>1, SignalReadiesOne
    <3> QED
      BY <1>1, <1>2, <1>3, <1>4, <1>10, <3>1, <3>2
  <2> QED
    BY <1>8, <1>10, <2>1 DEF Take
<1>11. ASSUME NEW t \in Threads, pc[t] \in {"idle", "get_woken"}, GetOrSleep(t), new_data' = new_data
       PROVE NoLostPutWakeup'
  <2>1. CASE Sleep(t, "get_blocked")
    <3>1. Queued' = Queued /\ Ready' = Ready
      BY <1>11, <2>1 DEF Sleep, Queued, Ready, At, TypeOK
    <3> QED
      BY <1>6, <1>11, <2>1, <3>1 DEF Sleep, data
  <2> QED
    BY <1>8, <1>10, <1>11, <2>1 DEF GetOrSleep
<1>12. ASSUME NEW t \in Threads, Ordinary(t) PROVE NoLostPutWakeup'
  <2>1. new_data' = new_data
    BY <1>12, OrdinaryPc DEF OrdinaryEffect
  <2>2. ASSUME NEW v \in Values, Put(t, v) PROVE NoLostPutWakeup'
    BY <1>8, <1>9, <2>1, <2>2 DEF Put, Invoke
  <2>3. ASSUME Full, NEW where, Sleep(t, where) PROVE NoLostPutWakeup'
    BY <1>5, <1>7, <2>3 DEF Sleep, data
  <2>4. ASSUME NEW v \in Values, PutWait(t, v) PROVE NoLostPutWakeup'
    <3>1. CASE Return(t, Q_ERR_NONEWDATA) /\ UNCHANGED <<data, arg>>
      BY <1>8, <2>1, <2>4, <3>1 DEF PutWait, Invoke
    <3> QED
      BY <1>9, <2>1, <2>3, <2>4, <3>1 DEF PutWait, Invoke
  <2>5. ASSUME PutResume(t) PROVE NoLostPutWakeup'
    <3>1. CASE ~new_data
      BY <1>4, <2>1, <3>1
    <3> QED
      BY <1>9, <2>1, <2>3, <2>5, <3>1 DEF PutResume
  <2>6. ASSUME Get(t) PROVE NoLostPutWakeup'
    BY <1>8, <1>10, <2>1, <2>6 DEF Get, Invoke
  <2>7. ASSUME GetFiltered(t) PROVE NoLostPutWakeup'
    BY <1>8, <1>10, <2>1, <2>7 DEF GetFiltered, Invoke
  <2>8. ASSUME GetWait(t) \/ GetResume(t) PROVE NoLostPutWakeup'
    BY <1>11, <2>1, <2>8 DEF GetWait, GetResume, Invoke
  <2>9. ASSUME Flush(t) \/ \E v \in Values : FlushPut(t, v) PROVE FALSE
    BY <2>9 DEF Flush, FlushPut, Invoke, PuttersProtected
  <2> QED
    BY <1>12, <2>2, <2>4, <2>5, <2>6, <2>7, <2>8, <2>9 DEF Ordinary, Resume
<1>13. ASSUME NEW t \in Threads, Open(t) PROVE NoLostPutWakeup'
  <2>1. Queued' = Queued /\ Ready' = Ready /\ num_els' = num_els
    BY <1>13 DEF Open, Invoke, Queued, Ready, At, TypeOK, data
  <2>2. CASE new_data
    BY <1>6, <1>13, <2>1, <2>2 DEF Open
  <2>3. CASE ~new_data
    <3>1. ASSUME Queued # {} PROVE FALSE
      <4>1. PICK s \in Threads : pc[s] \in SetPCs
        BY <2>3, <3>1 DEF ClosedInv, Queued, At, SetPCs
      <4>2. s = t
        BY <1>13, <4>1 DEF Open, Invoke, SettersControl, PuttersProtected
      <4> QED
        BY <1>13, <4>1, <4>2 DEF Open, Invoke, SetPCs
    <3> QED
      BY <1>4, <2>1, <3>1
  <2> QED
    BY <2>2, <2>3 DEF TypeOK
<1>14. ASSUME NEW t \in Threads, Close(t) \/ Destroy(t) \/ DestroyFinish(t) PROVE NoLostPutWakeup'
  <2>1. ~new_data'
    BY <1>14 DEF Close, Destroy, DestroyFinish, DestroyLocked, DestroyFree, DestroyInv, DestroyPCs
  <2> QED
    BY <1>4, <2>1
<1>15. ASSUME NEW t \in Threads, SetReread(t) \/ BroadcastGet(t) PROVE NoLostPutWakeup'
  <2>1. CASE SetReread(t)
    <3>1. Queued' = Queued /\ Ready' = Ready
      BY <2>1 DEF SetReread, SetReturn, Queued, Ready, At, TypeOK
    <3> QED
      BY <1>6, <2>1, <3>1 DEF SetReread, data
  <2>2. CASE BroadcastGet(t)
    <3>1. Queued' = Queued /\ Ready' = Ready
      BY <2>2 DEF BroadcastGet, Broadcast, Queued, Ready, At, TypeOK
    <3> QED
      BY <1>6, <2>2, <3>1 DEF BroadcastGet, data
  <2> QED
    BY <1>15, <2>1, <2>2
<1>16. ASSUME NEW t \in Threads, BroadcastPut(t) PROVE NoLostPutWakeup'
  <2>1. Queued' = {}
    BY <1>16 DEF BroadcastPut, Broadcast, SetReturn, Queued, At, TypeOK
  <2> QED
    BY <1>4, <2>1
<1>17. ASSUME NEW t \in Threads, SpuriousWakeup(t) PROVE NoLostPutWakeup'
  <2>1. num_els' = num_els /\ new_data' = new_data
    BY <1>17 DEF SpuriousWakeup, data
  <2>2. CASE pc[t] = "put_blocked" /\ pc' = [pc EXCEPT ![t] = "put_woken"]
    <3>1. Ready' = Ready \cup {t} /\ t \notin Ready /\ t \in Queued
      BY <2>2 DEF Ready, Queued, At, TypeOK
    <3>2. Cardinality(Ready') = Cardinality(Ready) + 1
      BY <3>1, ReadyFinite, FS_AddElement
    <3> QED
      BY <1>1, <1>3, <1>4, <2>1, <3>1, <3>2
  <2>3. CASE pc[t] = "get_blocked" /\ pc' = [pc EXCEPT ![t] = "get_woken"]
    <3>1. Queued' = Queued /\ Ready' = Ready
      BY <2>3 DEF Queued, Ready, At, TypeOK
    <3> QED
      BY <1>6, <2>1, <3>1
  <2> QED
    BY <1>17, <2>2, <2>3 DEF SpuriousWakeup
<1>18. CASE UNCHANGED vars
  BY <1>6, <1>18 DEF vars, Queued, Ready, At
<1> QED
  BY <1>12, <1>13, <1>14, <1>15, <1>16, <1>17, <1>18, NextCases DEF Administrative, SetFinish

\* With one pthread_cond_signal per element taken no wakeup of a putter is lost:
\* while one sleeps on an open queue, every free place has a woken putter on its
\* way to it, where queue_put_wait is used as PuttersProtected says.
THEOREM PutWakeupsSuffice == ASSUME PuttersProtected PROVE Spec => []NoLostPutWakeup
<1> DEFINE I == TypeOK /\ Capacity /\ ClosedInv /\ DestroyInv /\ SettersControl /\ NoLostPutWakeup
<1>1. Init => TypeOK /\ ClosedInv /\ DestroyInv /\ SettersControl /\ NoLostPutWakeup
  BY ValuesAssumption
     DEF Init, TypeOK, PCs, Codes, ClosedInv, DestroyInv, DestroyPCs, SettersControl, SetPCs, NoLostPutWakeup, At
<1>2. Init => Capacity
  BY BoundsAssumption DEF Init, Capacity, Limit
<1>3. I /\ [Next]_vars => I'
  BY TypeStep, CapacityStep, ClosedInvStep, DestroyInvStep, SettersStep, PutWakeupStep
<1> QED
  BY <1>1, <1>2, <1>3, PTL DEF Spec

-----------------------------------------------------------------------------
(* The queue as a buffer *)

BufferStutter == UNCHANGED <<els, new_data>>
BufferInv == TypeOK /\ CountInv /\ Capacity /\ SortedOrder /\ DestroyInv

LEMMA BufferInits == Init => Buffer!BufferInit
  BY DEF Init, Buffer!BufferInit

\* What is linked in is inserted: into an open queue with room, behind the last
\* element or where the comparator wants it.
LEMMA LinkInserts ==
  ASSUME BufferInv, SortedOrder', new_data, new_data' = new_data, ~Full, NEW v \in Values, Link(v)
  PROVE  Buffer!Insert(v)
<1>1. /\ els \in Seq(Values) /\ Len(els) \in Nat /\ num_els \in Nat
      /\ num_els = Len(els) /\ (els = <<>> => linked) /\ (Sort = "none" => linked)
  BY LenProperties DEF BufferInv, TypeOK, CountInv
<1>2. Len(els) < Limit
  BY <1>1, BoundsAssumption DEF BufferInv, Full, Limit, Capacity
<1>3. CASE Sort = "none"
  <2>1. els' = Append(els, v)
    BY <1>1, <1>3 DEF Link
  <2> QED
    BY <1>2, <1>3, <2>1 DEF Buffer!Insert
<1>4. CASE Sort # "none"
  <2>1. Buffer!Ordered(els)'
    BY <1>4 DEF SortedOrder, InOrder, Buffer!Ordered
  <2>2. \E i \in 0..Len(els) : els' = SubSeq(els, 1, i) \o <<v>> \o SubSeq(els, i + 1, Len(els))
    <3>1. CASE els = <<>>
      <4>1. els' = Append(<<>>, v)
        BY <1>1, <3>1 DEF Link
      <4>2. Append(<<>>, v) = SubSeq(<<>>, 1, 0) \o <<v>> \o SubSeq(<<>>, 0 + 1, Len(<<>>))
        OBVIOUS
      <4>3. 0 \in 0..Len(els)
        BY <1>1
      <4> QED
        BY <3>1, <4>1, <4>2, <4>3
    <3>2. CASE els # <<>>
      <4>1. els' = InsertAfter(els, SortedPos(els, v), v)
        BY <1>4, <3>2 DEF Link
      <4>2. SortedPos(els, v) \in 0..Len(els)
        BY <1>1, <3>2, SortedPosFits
      <4> QED
        BY <4>1, <4>2, Zenon DEF InsertAfter
    <3> QED
      BY <3>1, <3>2
  <2> QED
    BY <1>2, <1>4, <2>1, <2>2 DEF Buffer!Insert, Buffer!Ordered
<1> QED
  BY <1>3, <1>4

\* What queue_get_internal takes without a filter is the head.
LEMMA UnlinkRemoves ==
  ASSUME BufferInv, num_els # 0, new_data' = new_data, Unlink(First)
  PROVE  Buffer!Remove
<1>1. els \in Seq(Values) /\ Len(els) \in Nat /\ num_els = Len(els)
  BY LenProperties DEF BufferInv, TypeOK, CountInv
<1>2. els # <<>> /\ First = 1
  BY <1>1 DEF First
<1>3. els' = SubSeq(els, 1, 0) \o SubSeq(els, 2, Len(els))
  BY <1>2 DEF Unlink
<1>4. els' = Tail(els)
  BY <1>1, <1>2, <1>3
<1> QED
  BY <1>2, <1>4 DEF Buffer!Remove

\* Under the invariants of the queue, each of its steps is a step of the buffer
\* or leaves the buffer alone.
LEMMA BufferStep ==
  ASSUME ListIsMaintained, BufferInv, SortedOrder', [Next]_vars
  PROVE  Buffer!BufferNext \/ BufferStutter
<1>1. ASSUME UNCHANGED data, new_data' = new_data PROVE BufferStutter
  BY <1>1 DEF data, BufferStutter
<1>2. ASSUME NEW t \in Threads, NEW v \in Values, Store(t, v), new_data, ~Full, new_data' = new_data
      PROVE  Buffer!BufferNext \/ BufferStutter
  BY <1>1, <1>2, LinkInserts DEF Store, Buffer!BufferNext
<1>3. ASSUME NEW t \in Threads, Take(t, First), num_els # 0, new_data' = new_data
      PROVE  Buffer!BufferNext \/ BufferStutter
  BY <1>1, <1>3, UnlinkRemoves DEF Take, Buffer!BufferNext
<1>4. ASSUME NEW t \in Threads, Get(t) \/ GetWait(t) \/ GetResume(t) PROVE Buffer!BufferNext \/ BufferStutter
  BY <1>1, <1>3, <1>4 DEF Get, GetWait, GetResume, GetOrSleep, Sleep, data
<1>5. ASSUME NEW t \in Threads, NEW v \in Values, Put(t, v) \/ PutWait(t, v) PROVE Buffer!BufferNext \/ BufferStutter
  BY <1>1, <1>2, <1>5 DEF Put, PutWait, Sleep, data
<1>6. ASSUME NEW t \in Threads, PutResume(t) PROVE Buffer!BufferNext \/ BufferStutter
  <2>1. arg[t] \in Values
    BY DEF BufferInv, TypeOK
  <2> QED
    BY <1>1, <1>2, <1>6, <2>1 DEF PutResume, Sleep, data
<1>7. ASSUME NEW t \in Threads, GetFiltered(t) PROVE Buffer!BufferNext \/ BufferStutter
  <2>1. Called({"get_filtered"})
    BY <1>7 DEF GetFiltered, Invoke, Called
  <2>2. ASSUME NEW i \in 0..Len(els), Take(t, i), new_data' = new_data PROVE Buffer!BufferNext \/ BufferStutter
    <3>1. CASE i # 0 /\ Unlink(i)
      <4>1. i \in 1..Len(els)
        BY <2>2, <3>1, LenProperties DEF BufferInv, TypeOK
      <4>2. Buffer!RemoveAt(i)
        BY <2>1, <2>2, <3>1 DEF Unlink, Buffer!RemoveAt
      <4> QED
        BY <4>1, <4>2 DEF Buffer!BufferNext
    <3> QED
      BY <1>1, <2>2, <3>1 DEF Take
  <2> QED
    BY <1>1, <1>7, <2>2 DEF GetFiltered
<1>8. ASSUME NEW t \in Threads, Flush(t) PROVE Buffer!Clear
  <2>1. Called({"flush", "flush_put"})
    BY <1>8 DEF Flush, Invoke, Called
  <2> QED
    BY <1>8, <2>1 DEF Flush, Emptied, Buffer!Clear
<1>9. ASSUME NEW t \in Threads, NEW v \in Values, FlushPut(t, v) PROVE Buffer!Clear \/ Buffer!Replace(v)
  <2>1. Called({"flush", "flush_put"})
    BY <1>9 DEF FlushPut, Invoke, Called
  <2> QED
    BY <1>9, <2>1 DEF FlushPut, Emptied, Buffer!Clear, Buffer!Replace
<1>10. ASSUME NEW t \in Threads, Ordinary(t) PROVE Buffer!BufferNext \/ BufferStutter
  BY <1>4, <1>5, <1>6, <1>7, <1>8, <1>9, <1>10 DEF Ordinary, Resume, Buffer!BufferNext
<1>11. ASSUME NEW t \in Threads, Open(t) \/ Close(t) \/ Destroy(t) PROVE Buffer!BufferNext
  <2>1. Buffer!Switch(TRUE) \/ Buffer!Switch(FALSE)
    BY <1>11 DEF Open, Close, Destroy, data, Buffer!Switch
  <2> QED
    BY <2>1 DEF Buffer!BufferNext
<1>12. ASSUME NEW t \in Threads, SetFinish(t) \/ DestroyFree(t) \/ SpuriousWakeup(t) PROVE BufferStutter
  BY <1>12 DEF SetFinish, SetReread, BroadcastGet, BroadcastPut, DestroyFree, SpuriousWakeup, data, BufferStutter
<1>13. ASSUME NEW t \in Threads, DestroyLocked(t) PROVE Buffer!BufferNext
  <2>1. ~new_data
    BY <1>13 DEF DestroyLocked, BufferInv, DestroyInv, DestroyPCs
  <2>2. Buffer!Drop
    BY <1>13, <2>1 DEF DestroyLocked, Emptied, Buffer!Drop
  <2> QED
    BY <2>2 DEF Buffer!BufferNext
<1>14. CASE UNCHANGED vars
  BY <1>14 DEF vars, BufferStutter
<1> QED
  BY <1>10, <1>11, <1>12, <1>13, <1>14, NextCases DEF Administrative, DestroyFinish

\* Every step of the queue is a step of the bounded buffer or leaves it alone, for
\* any threads, values, limit and order: queue.c keeps the promise of queue.h
\* that the other models rely on, wherever last_el is maintained.
THEOREM Refinement == ASSUME ListIsMaintained PROVE Spec => ImplementsBuffer
<1>1. Init => BufferInv
  BY ValuesAssumption, BoundsAssumption
     DEF Init, BufferInv, TypeOK, PCs, Codes, CountInv, Capacity, Limit, SortedOrder, DestroyInv, DestroyPCs
<1>2. BufferInv /\ [Next]_vars => BufferInv'
  BY TypeStep, CountInvStep, CapacityStep, SortedStep, DestroyInvStep DEF BufferInv
<1>3. BufferInv /\ [Next]_vars => [Buffer!BufferNext]_(Buffer!bufferVars)
  <2> SUFFICES ASSUME BufferInv, [Next]_vars PROVE [Buffer!BufferNext]_(Buffer!bufferVars)
    OBVIOUS
  <2>1. SortedOrder'
    BY SortedStep DEF BufferInv
  <2>2. Buffer!BufferNext \/ BufferStutter
    BY <2>1, BufferStep
  <2> QED
    BY <2>2 DEF BufferStutter, Buffer!bufferVars
<1> QED
  BY <1>1, <1>2, <1>3, BufferInits, PTL DEF Spec, ImplementsBuffer, Buffer!BufferSpec
=============================================================================
