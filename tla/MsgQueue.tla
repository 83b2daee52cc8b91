------------------------------ MODULE MsgQueue ------------------------------
(***************************************************************************)
(* The thread-safe queue of source/queue.c and source/queue_internal.c,    *)
(* which carries every message between the gateway's threads.              *)
(*                                                                         *)
(* Every operation runs its body under q->mutex, so one critical section   *)
(* is one action.  What is visible between critical sections is modelled   *)
(* by pc: a thread asleep in pthread_cond_wait, a thread that was woken    *)
(* and has yet to re-acquire the mutex, and the windows after the unlock   *)
(* inside queue_set_new_data and queue_destroy_internal.  Failures of the  *)
(* pthread lock calls are unrecoverable for the code and left out; malloc  *)
(* failure in a put is the disjunct that answers Q_ERR_MEM.                *)
(***************************************************************************)
EXTENDS Integers, Sequences, FiniteSets

CONSTANTS
  Threads,    \* the threads that share the queue
  Values,     \* the elements they put; the comparator orders them as integers
  MaxEls,     \* q->max_els, 0 for "unlimited"
  UintxMax,   \* UINTX_MAX, the largest value of the counter num_els
  Sort,       \* "none", "asc" or "desc": q->sort and q->asc_order
  Calls,      \* Calls[t]: the operations thread t invokes
  MallocFails \* whether malloc may fail in a put

CallNames == {"put", "put_wait", "get", "get_wait", "get_filtered", "flush",
              "flush_put", "close", "open", "destroy"}

ASSUME ThreadsAssumption == IsFiniteSet(Threads)
ASSUME ValuesAssumption == Values \subseteq Int /\ Values # {}
ASSUME BoundsAssumption == /\ UintxMax \in Nat /\ UintxMax > 1
                           /\ MaxEls \in 0..UintxMax
ASSUME SortAssumption == Sort \in {"none", "asc", "desc"}
ASSUME CallsAssumption == Calls \in [Threads -> SUBSET CallNames]
ASSUME MallocAssumption == MallocFails \in BOOLEAN

\* queue_destroy ends the queue's life: it may only be called by one thread,
\* and no other thread may re-open the queue under it (pthread_cond_destroy
\* with a sleeper left is undefined).
ASSUME DestroyAssumption ==
  \A t \in Threads : "destroy" \in Calls[t] =>
    \A u \in Threads \ {t} : {"open", "close", "destroy"} \cap Calls[u] = {}

\* The return codes, enum queue_erros_e.
Q_OK == 0
Q_ERR_MEM == -3
Q_ERR_NONEWDATA == -4
Q_ERR_INVALID_ELEMENT == -5
Q_ERR_NUM_ELEMENTS == -7
Codes == {Q_OK, Q_ERR_MEM, Q_ERR_NONEWDATA, Q_ERR_INVALID_ELEMENT, Q_ERR_NUM_ELEMENTS}

VARIABLES
  els,       \* the data of the elements reachable from q->first_el, in order
  linked,    \* whether q->last_el is the last of them (TRUE too when empty)
  num_els,   \* q->num_els
  new_data,  \* q->new_data # 0
  pc,        \* where each thread is
  arg,       \* the element a sleeping put_wait carries
  ret,       \* the code the thread's last call returned
  life       \* "alive", "conds_freed" or "freed": how far a destroy came

vars == <<els, linked, num_els, new_data, pc, arg, ret, life>>
data == <<els, linked, num_els>>

PCs == {"idle", "get_blocked", "get_woken", "put_blocked", "put_woken",
        "set_unlocked", "bcast_get", "bcast_put",
        "close_unlocked", "close_bcast_get", "close_bcast_put",
        "destroy", "destroy_free"}

At(where) == {t \in Threads : pc[t] = where}

\* queue_create(): an empty queue that accepts data.
Init ==
  /\ els = <<>> /\ linked = TRUE /\ num_els = 0 /\ new_data = TRUE
  /\ pc = [t \in Threads |-> "idle"]
  /\ arg = [t \in Threads |-> CHOOSE v \in Values : TRUE]
  /\ ret = [t \in Threads |-> Q_OK]
  /\ life = "alive"

-----------------------------------------------------------------------------
(* Helpers *)

\* (fault) the counter's own limit is not tested
FullByMaxOnly == MaxEls # 0 /\ num_els = MaxEls

\* The condition queue_put_internal tests twice.
Full == num_els = UintxMax - 1 \/ (MaxEls # 0 /\ num_els = MaxEls)

\* pthread_cond_signal: p after one thread asleep at "from", if there is one,
\* was made runnable.
Signalled(p, from, to) ==
  IF \E t \in Threads : p[t] = from
  THEN {[p EXCEPT ![t] = to] : t \in {u \in Threads : p[u] = from}}
  ELSE {p}

\* pthread_cond_broadcast.
Broadcast(p, from, to) == [t \in Threads |-> IF p[t] = from THEN to ELSE p[t]]

\* a does not come after b: cmp_el(a, b) <= 0 in an ascending queue.
InOrder(a, b) == IF Sort = "desc" THEN a >= b ELSE a <= b

\* (fault) the walk stops at the first element v may follow
SortedPosFirstFit(s, v) ==
  IF InOrder(v, s[1]) THEN 0
  ELSE LET fits == {i \in 1..(Len(s) - 1) : InOrder(s[i], v)}
       IN  IF fits = {} THEN Len(s) ELSE CHOOSE i \in fits : \A j \in fits : i <= j

\* How many elements of s stay in front of v: the walk of s and t in
\* queue_put_internal, which stops at the first pair that v fits between.
SortedPos(s, v) ==
  IF InOrder(v, s[1]) THEN 0
  ELSE LET fits == {i \in 1..(Len(s) - 1) : InOrder(s[i], v) /\ InOrder(v, s[i + 1])}
       IN  IF fits = {} THEN Len(s) ELSE CHOOSE i \in fits : \A j \in fits : i <= j

InsertAfter(s, i, v) == SubSeq(s, 1, i) \o <<v>> \o SubSeq(s, i + 1, Len(s))

\* The element is linked in.  An unsorted put goes through q->last_el: when
\* that points to an element already freed, the new one is not reachable from
\* q->first_el (only the counter shows it).
Link(v) ==
  /\ num_els' = num_els + 1
  /\ IF Sort = "none" \/ els = <<>>
     THEN /\ els' = IF linked THEN Append(els, v) ELSE els
          /\ UNCHANGED linked
     ELSE LET i == SortedPos(els, v)
          IN  /\ els' = InsertAfter(els, i, v)
              /\ linked' = (linked \/ i = Len(els))

\* (fault) q->last_el is not reset when the list becomes empty
UnlinkKeepLast(i) ==
  /\ els' = SubSeq(els, 1, i - 1) \o SubSeq(els, i + 1, Len(els))
  /\ num_els' = num_els - 1
  /\ linked' = (linked /\ i # Len(els))

\* The element at position i is unlinked and freed.  q->last_el is reset only
\* when the list becomes empty.
Unlink(i) ==
  /\ els' = SubSeq(els, 1, i - 1) \o SubSeq(els, i + 1, Len(els))
  /\ num_els' = num_els - 1
  /\ linked' = IF i = 1 THEN linked \/ Len(els) = 1 ELSE linked /\ i # Len(els)

Return(t, code) ==
  /\ pc' = [pc EXCEPT ![t] = "idle"]
  /\ ret' = [ret EXCEPT ![t] = code]

ReturnSignal(t, from, to) ==
  /\ pc' \in Signalled([pc EXCEPT ![t] = "idle"], from, to)
  /\ ret' = [ret EXCEPT ![t] = Q_OK]

\* The thread releases the mutex and sleeps on a condition variable.
Sleep(t, where) ==
  /\ pc' = [pc EXCEPT ![t] = where]
  /\ UNCHANGED <<data, ret>>

\* (fault) a getter is woken only when the queue was empty
StoreSignalIfEmpty(t, v) ==
  \/ /\ Link(v)
     /\ IF num_els = 0 THEN ReturnSignal(t, "get_blocked", "get_woken") ELSE Return(t, Q_OK)
  \/ MallocFails /\ Return(t, Q_ERR_MEM) /\ UNCHANGED data

\* The tail of queue_put_internal: allocate, link, wake one getter.
Store(t, v) ==
  \/ Link(v) /\ ReturnSignal(t, "get_blocked", "get_woken")
  \/ MallocFails /\ Return(t, Q_ERR_MEM) /\ UNCHANGED data

\* (fault) a putter is woken only when the queue was full
TakeSignalIfFull(t, i) ==
  \/ /\ i # 0 /\ Unlink(i)
     /\ IF Full THEN ReturnSignal(t, "put_blocked", "put_woken") ELSE Return(t, Q_OK)
  \/ i = 0 /\ Return(t, Q_ERR_INVALID_ELEMENT) /\ UNCHANGED data

\* The tail of queue_get_internal: the element at position i (0 when no
\* element fulfils the comparator) is taken and one putter is woken.
Take(t, i) ==
  \/ i # 0 /\ Unlink(i) /\ ReturnSignal(t, "put_blocked", "put_woken")
  \/ i = 0 /\ Return(t, Q_ERR_INVALID_ELEMENT) /\ UNCHANGED data

First == IF els = <<>> THEN 0 ELSE 1

\* queue_flush_internal.  Nobody is woken.
Emptied == els' = <<>> /\ linked' = TRUE /\ num_els' = 0

-----------------------------------------------------------------------------
(* The operations *)

Invoke(t, call) ==
  /\ pc[t] = "idle" /\ call \in Calls[t] /\ life # "freed"

\* queue_put
Put(t, v) ==
  /\ Invoke(t, "put")
  /\ \/ ~new_data /\ Return(t, Q_ERR_NONEWDATA) /\ UNCHANGED data
     \/ new_data /\ Full /\ Return(t, Q_ERR_NUM_ELEMENTS) /\ UNCHANGED data
     \/ new_data /\ ~Full /\ Store(t, v)
  /\ UNCHANGED <<new_data, arg, life>>

\* queue_put_wait
PutWait(t, v) ==
  /\ Invoke(t, "put_wait")
  /\ \/ ~new_data /\ Return(t, Q_ERR_NONEWDATA) /\ UNCHANGED <<data, arg>>
     \/ new_data /\ Full /\ Sleep(t, "put_blocked") /\ arg' = [arg EXCEPT ![t] = v]
     \/ new_data /\ ~Full /\ Store(t, v) /\ UNCHANGED arg
  /\ UNCHANGED <<new_data, life>>

\* queue_put_wait, back from pthread_cond_wait with the mutex
PutResume(t) ==
  /\ pc[t] = "put_woken" /\ life # "freed"
  /\ \/ ~new_data /\ Return(t, Q_ERR_NONEWDATA) /\ UNCHANGED data
     \/ new_data /\ Full /\ Sleep(t, "put_blocked")
     \/ new_data /\ ~Full /\ Store(t, arg[t])
  /\ UNCHANGED <<new_data, arg, life>>

\* queue_get
Get(t) ==
  /\ Invoke(t, "get")
  /\ \/ num_els = 0 /\ Return(t, Q_ERR_NUM_ELEMENTS) /\ UNCHANGED data
     \/ num_els # 0 /\ Take(t, First)
  /\ UNCHANGED <<new_data, arg, life>>

\* (fault) new_data is not part of the loop's condition
GetOrSleepAlways(t) ==
  \/ num_els = 0 /\ Sleep(t, "get_blocked")
  \/ num_els # 0 /\ Take(t, First)

\* The body of queue_get_wait from the test of its loop on.
GetOrSleep(t) ==
  \/ num_els = 0 /\ new_data /\ Sleep(t, "get_blocked")
  \/ num_els = 0 /\ ~new_data /\ Return(t, Q_ERR_NONEWDATA) /\ UNCHANGED data
  \/ num_els # 0 /\ Take(t, First)

\* queue_get_wait
GetWait(t) ==
  /\ Invoke(t, "get_wait")
  /\ GetOrSleep(t)
  /\ UNCHANGED <<new_data, arg, life>>

\* (fault) "if" for "while" around pthread_cond_wait in the get
GetResumeNoRetest(t) ==
  /\ pc[t] = "get_woken" /\ life # "freed"
  /\ Take(t, 1)
  /\ UNCHANGED <<new_data, arg, life>>

\* queue_get_wait, back from pthread_cond_wait with the mutex
GetResume(t) ==
  /\ pc[t] = "get_woken" /\ life # "freed"
  /\ GetOrSleep(t)
  /\ UNCHANGED <<new_data, arg, life>>

\* queue_get_filtered.  The comparator is called with the list node, not with
\* its data, so which position it accepts is up to the caller's function.
GetFiltered(t) ==
  /\ Invoke(t, "get_filtered")
  /\ \/ num_els = 0 /\ Return(t, Q_ERR_NUM_ELEMENTS) /\ UNCHANGED data
     \/ num_els # 0 /\ \E i \in 0..Len(els) : Take(t, i)
  /\ UNCHANGED <<new_data, arg, life>>

\* queue_flush and queue_flush_complete
Flush(t) ==
  /\ Invoke(t, "flush")
  /\ Emptied /\ Return(t, Q_OK)
  /\ UNCHANGED <<new_data, arg, life>>

\* queue_flush_put and queue_flush_complete_put: the put runs on the queue
\* just emptied, which is never full (max_els # 0 is at least 1).
FlushPut(t, v) ==
  /\ Invoke(t, "flush_put")
  /\ \/ ~new_data /\ Emptied /\ Return(t, Q_ERR_NONEWDATA)
     \/ /\ new_data
        /\ els' = <<v>> /\ linked' = TRUE /\ num_els' = 1
        /\ ReturnSignal(t, "get_blocked", "get_woken")
     \/ MallocFails /\ new_data /\ Emptied /\ Return(t, Q_ERR_MEM)
  /\ UNCHANGED <<new_data, arg, life>>

\* queue_set_new_data(q, v # 0), up to the unlock
Open(t) ==
  /\ Invoke(t, "open")
  /\ new_data' = TRUE
  /\ pc' = [pc EXCEPT ![t] = "set_unlocked"]
  /\ UNCHANGED <<data, arg, ret, life>>

\* queue_set_new_data(q, 0), up to the unlock
Close(t) ==
  /\ Invoke(t, "close")
  /\ new_data' = FALSE
  /\ pc' = [pc EXCEPT ![t] = "set_unlocked"]
  /\ UNCHANGED <<data, arg, ret, life>>

\* (fault) queue_destroy_internal does not close the queue first
DestroyUnclosed(t) ==
  /\ Invoke(t, "destroy")
  /\ pc' = [pc EXCEPT ![t] = "destroy"]
  /\ UNCHANGED <<data, new_data, arg, ret, life>>

\* The first step of queue_destroy_internal, queue_set_new_data(q, 0)
Destroy(t) ==
  /\ Invoke(t, "destroy")
  /\ new_data' = FALSE
  /\ pc' = [pc EXCEPT ![t] = "close_unlocked"]
  /\ UNCHANGED <<data, arg, ret, life>>

\* Where queue_set_new_data returns to: its caller, or queue_destroy_internal.
SetReturn(t) ==
  IF pc[t] \in {"close_unlocked", "close_bcast_put"} THEN "destroy" ELSE "idle"

\* queue_set_new_data reads q->new_data again after the unlock.
SetReread(t) ==
  /\ pc[t] \in {"set_unlocked", "close_unlocked"}
  /\ pc' = [pc EXCEPT ![t] = IF new_data THEN SetReturn(t)
                             ELSE IF @ = "set_unlocked" THEN "bcast_get" ELSE "close_bcast_get"]
  /\ ret' = IF pc'[t] = "idle" THEN [ret EXCEPT ![t] = Q_OK] ELSE ret
  /\ UNCHANGED <<data, new_data, arg, life>>

\* (fault) pthread_cond_signal for pthread_cond_broadcast
BroadcastGetOne(t) ==
  /\ pc[t] \in {"bcast_get", "close_bcast_get"}
  /\ pc' \in Signalled([pc EXCEPT ![t] = IF @ = "bcast_get" THEN "bcast_put" ELSE "close_bcast_put"],
                       "get_blocked", "get_woken")
  /\ UNCHANGED <<data, new_data, arg, ret, life>>

\* pthread_cond_broadcast(cond_get)
BroadcastGet(t) ==
  /\ pc[t] \in {"bcast_get", "close_bcast_get"}
  /\ pc' = Broadcast([pc EXCEPT ![t] = IF @ = "bcast_get" THEN "bcast_put" ELSE "close_bcast_put"],
                     "get_blocked", "get_woken")
  /\ UNCHANGED <<data, new_data, arg, ret, life>>

\* pthread_cond_broadcast(cond_put)
BroadcastPut(t) ==
  /\ pc[t] \in {"bcast_put", "close_bcast_put"}
  /\ pc' = Broadcast([pc EXCEPT ![t] = SetReturn(t)], "put_blocked", "put_woken")
  /\ ret' = IF pc'[t] = "idle" THEN [ret EXCEPT ![t] = Q_OK] ELSE ret
  /\ UNCHANGED <<data, new_data, arg, life>>

\* queue_destroy_internal, the locked part: flush, free both conditions.
DestroyLocked(t) ==
  /\ pc[t] = "destroy"
  /\ Emptied
  /\ life' = "conds_freed"
  /\ pc' = [pc EXCEPT ![t] = "destroy_free"]
  /\ UNCHANGED <<new_data, arg, ret>>

\* queue_destroy_internal after the unlock: the mutex and the queue are freed.
DestroyFree(t) ==
  /\ pc[t] = "destroy_free"
  /\ life' = "freed"
  /\ Return(t, Q_OK)
  /\ UNCHANGED <<data, new_data, arg>>

\* POSIX lets pthread_cond_wait return without a signal.
SpuriousWakeup(t) ==
  /\ \/ pc[t] = "get_blocked" /\ pc' = [pc EXCEPT ![t] = "get_woken"]
     \/ pc[t] = "put_blocked" /\ pc' = [pc EXCEPT ![t] = "put_woken"]
  /\ UNCHANGED <<data, new_data, arg, ret, life>>

Resume(t) == PutResume(t) \/ GetResume(t)
SetFinish(t) == SetReread(t) \/ BroadcastGet(t) \/ BroadcastPut(t)
DestroyFinish(t) == DestroyLocked(t) \/ DestroyFree(t)

Next ==
  \E t \in Threads :
    \/ \E v \in Values : Put(t, v) \/ PutWait(t, v) \/ FlushPut(t, v)
    \/ Get(t) \/ GetWait(t) \/ GetFiltered(t)
    \/ Flush(t) \/ Open(t) \/ Close(t) \/ Destroy(t)
    \/ Resume(t) \/ SetFinish(t) \/ DestroyFinish(t) \/ SpuriousWakeup(t)

Spec == Init /\ [][Next]_vars

\* A runnable thread is eventually scheduled: a call that is not asleep
\* finishes.  Nothing forces a thread to begin a call.
Fairness == \A t \in Threads : WF_vars(Resume(t) \/ SetFinish(t) \/ DestroyFinish(t))
FairSpec == Spec /\ Fairness

-----------------------------------------------------------------------------
(* Properties *)

TypeOK ==
  /\ els \in Seq(Values) /\ linked \in BOOLEAN
  /\ num_els \in Nat /\ new_data \in BOOLEAN
  /\ pc \in [Threads -> PCs] /\ arg \in [Threads -> Values]
  /\ ret \in [Threads -> Codes]
  /\ life \in {"alive", "conds_freed", "freed"}

\* The number of elements queue_put_internal admits.
Limit == IF MaxEls = 0 \/ MaxEls = UintxMax THEN UintxMax - 1 ELSE MaxEls

\* The counter stays within max_els and never reaches UINTX_MAX, where
\* num_els++ would wrap to 0: the test of queue_put_internal is repeated after
\* every pthread_cond_wait.
Capacity == num_els <= Limit

\* queue_elements() is the number of elements a getter can reach: an accepted
\* element is in the list that starts at q->first_el.
CountMatchesList == num_els = Len(els)

\* A queue created with a comparator keeps its elements in its order.
SortedOrder ==
  Sort # "none" => \A i \in 1..(Len(els) - 1) : InOrder(els[i], els[i + 1])

\* queue_put_internal wakes one getter per element ("notify only one waiting
\* thread"): while a getter sleeps, every element in the queue is matched by a
\* getter that was woken and has not run yet.
NoLostGetWakeup ==
  At("get_blocked") # {} => num_els <= Cardinality(At("get_woken"))

\* queue_put_wait sleeps "until queue_set_new_data(, 0) is called or elements
\* are removed": while a putter sleeps on an open queue, every free place is
\* matched by a putter that was woken and has not run yet.
NoLostPutWakeup ==
  new_data /\ At("put_blocked") # {} => Limit - num_els <= Cardinality(At("put_woken"))

Setting == UNION {At(w) : w \in {"set_unlocked", "bcast_get", "bcast_put",
                                 "close_unlocked", "close_bcast_get", "close_bcast_put"}}

\* queue_set_new_data re-reads q->new_data outside the lock.  Even so, a closed
\* queue that nobody is still in the middle of closing has no sleeper left.
ClosedHasNoSleeper ==
  ~new_data /\ Setting = {} => At("get_blocked") = {} /\ At("put_blocked") = {}

\* queue_destroy_internal frees the condition variables: nobody sleeps on
\* them, nobody will, and no signal will be sent to them.
FreedCondsUnused ==
  life # "alive" => /\ At("get_blocked") = {} /\ At("put_blocked") = {}
                    /\ ~new_data /\ num_els = 0

\* After queue_set_new_data(q, 0) "queue_put_wait() and queue_get_wait() should
\* return": once the queue stays closed no thread stays in either.
CloseReleases ==
  <>[](~new_data /\ life = "alive") =>
    \A t \in Threads : []<>(pc[t] \notin {"get_blocked", "get_woken", "put_blocked", "put_woken"})

\* A getter does not sleep forever beside an element that stays available.
GettersServed ==
  \A t \in Threads : <>[](num_els > 0) => []<>(pc[t] # "get_blocked")

\* What queue.h promises: the list as a buffer, open while it accepts data.
Called(names) == \E t \in Threads : Calls[t] \cap names # {}
Buffer == INSTANCE MsgBuffer WITH
  buf <- els, open <- new_data, Cap <- Limit,
  Filters <- Called({"get_filtered"}), Flushes <- Called({"flush", "flush_put"})
\* The queue implements the bounded buffer the other models take it for: an
\* element is accepted only by an open queue with room, stays in its place until
\* it is taken, and leaves from the head, however calls, sleeps and wakeups
\* interleave.
ImplementsBuffer == Buffer!BufferSpec
=============================================================================
