-------------------------- MODULE ThreadPoolProofs --------------------------
(***************************************************************************)
(* The safety properties of ThreadPool and its refinement of JobPool, for  *)
(* any workers, clients and jobs.                                          *)
(***************************************************************************)
EXTENDS ThreadPool, FiniteSetTheorems, SequenceTheorems, TLAPS

USE WorkersAssumption, JobsAssumption, ClientsAssumption
USE DEF poolState, counters, signals, history, CallNames

-----------------------------------------------------------------------------
(* The binary semaphore *)

\* What bsem_post does to the workers: nobody moves but one sleeper, and if
\* there is a sleeper one does.
LEMMA PostedEffect ==
  ASSUME NEW p \in [Workers -> WorkerPCs], NEW q \in Posted(p)
  PROVE  /\ q \in [Workers -> WorkerPCs]
         /\ \A w \in Workers : q[w] = p[w] \/ (p[w] = "asleep" /\ q[w] = "sem")
         /\ \A w \in Workers : p[w] = "asleep" => \E v \in Workers : q[v] = "sem"
<1>1. CASE \E w \in Workers : p[w] = "asleep"
  <2>1. PICK w \in Workers : p[w] = "asleep" /\ q = [p EXCEPT ![w] = "sem"]
    BY <1>1 DEF Posted
  <2> QED
    BY <2>1 DEF WorkerPCs
<1>2. CASE ~ \E w \in Workers : p[w] = "asleep"
  BY <1>2 DEF Posted
<1> QED
  BY <1>1, <1>2

LEMMA PostedAllEffect ==
  ASSUME wpc \in [Workers -> WorkerPCs]
  PROVE  /\ PostedAll \in [Workers -> WorkerPCs]
         /\ \A w \in Workers : \/ wpc[w] # "asleep" /\ PostedAll[w] = wpc[w]
                               \/ wpc[w] = "asleep" /\ PostedAll[w] = "sem"
  BY DEF PostedAll, WorkerPCs

-----------------------------------------------------------------------------
(* Types *)

LEMMA TypeInit == Init => TypeOK
<1> SUFFICES ASSUME Init PROVE TypeOK
  OBVIOUS
<1>1. jobs \in Seq(Jobs) /\ sem \in {0, 1} /\ rw \in Workers \cup Clients \cup {Nobody}
  BY DEF Init, jobqueue_init
<1>2. wpc \in [Workers -> WorkerPCs] /\ job \in [Workers -> Jobs \cup {NoJob}]
  BY DEF Init, thread_init, WorkerPCs
<1>3. cpc \in [Clients -> ClientPCs] /\ before \in [Clients -> SUBSET Jobs]
  BY DEF Init, ClientPCs
<1>4. keepalive \in BOOLEAN /\ on_hold \in BOOLEAN /\ freed \in BOOLEAN
  BY DEF Init
<1>5. alive \in Int /\ working \in Int
  BY DEF Init
<1>6. pending \subseteq Workers /\ held \subseteq Workers /\ submitted \subseteq Jobs /\ finished \subseteq Jobs
  BY DEF Init
<1> QED
  BY <1>1, <1>2, <1>3, <1>4, <1>5, <1>6 DEF TypeOK

LEMMA TypeStep == TypeOK /\ [Next]_vars => TypeOK'
<1> SUFFICES ASSUME TypeOK, [Next]_vars PROVE TypeOK'
  OBVIOUS
<1> USE DEF TypeOK, At, Goto
<1>1. ASSUME NEW w \in Workers, Started(w) PROVE TypeOK'
  BY <1>1 DEF Started, WorkerPCs
<1>2. ASSUME NEW w \in Workers, Loop(w) PROVE TypeOK'
  BY <1>2 DEF Loop, WorkerPCs
<1>3. ASSUME NEW w \in Workers, SemWait(w) PROVE TypeOK'
  BY <1>3 DEF SemWait, WorkerPCs
<1>4. ASSUME NEW w \in Workers, SpuriousSem(w) PROVE TypeOK'
  BY <1>4 DEF SpuriousSem, WorkerPCs
<1>5. ASSUME NEW w \in Workers, Check(w) PROVE TypeOK'
  BY <1>5 DEF Check, WorkerPCs
<1>6. ASSUME NEW w \in Workers, Count(w) PROVE TypeOK'
  BY <1>6 DEF Count, WorkerPCs
<1>7. ASSUME NEW w \in Workers, Pull(w) PROVE TypeOK'
  <2>1. CASE jobs = <<>>
    BY <1>7, <2>1 DEF Pull, WorkerPCs
  <2>2. CASE jobs # <<>>
    <3>1. Head(jobs) \in Jobs /\ Tail(jobs) \in Seq(Jobs)
      BY <2>2
    <3>2. wpc' \in [Workers -> WorkerPCs] /\ rw' \in Workers \cup Clients \cup {Nobody}
      BY <1>7, <2>2 DEF Pull, WorkerPCs
    <3>3. jobs' = Tail(jobs) /\ job' = [job EXCEPT ![w] = Head(jobs)]
      BY <1>7, <2>2 DEF Pull
    <3> QED
      BY <1>7, <3>1, <3>2, <3>3 DEF Pull
  <2> QED
    BY <2>1, <2>2
<1>8. ASSUME NEW w \in Workers, Repost(w) PROVE TypeOK'
  <2>1. [wpc EXCEPT ![w] = "run"] \in [Workers -> WorkerPCs]
    BY DEF WorkerPCs
  <2>2. wpc' \in [Workers -> WorkerPCs]
    BY <1>8, <2>1, PostedEffect DEF Repost
  <2> QED
    BY <1>8, <2>2 DEF Repost
<1>9. ASSUME NEW w \in Workers, JobReturns(w) PROVE TypeOK'
  BY <1>9 DEF JobReturns, WorkerPCs
<1>10. ASSUME NEW w \in Workers, Done(w) PROVE TypeOK'
  <2>1. cpc' \in [Clients -> ClientPCs]
    BY <1>10 DEF Done, SignalAllIdle, ClientPCs
  <2> QED
    BY <1>10, <2>1 DEF Done, WorkerPCs
<1>11. ASSUME NEW w \in Workers, Exit(w) \/ Unlock(w) PROVE TypeOK'
  BY <1>11 DEF Exit, Unlock, WorkerPCs
<1>12. ASSUME NEW w \in Workers, Hold(w) \/ Release(w) PROVE TypeOK'
  BY <1>12 DEF Hold, Release
<1>13. ASSUME NEW c \in Clients, InitReturns(c) PROVE TypeOK'
  BY <1>13 DEF InitReturns, ClientPCs
<1>14. ASSUME NEW c \in Clients, NEW j \in Jobs, AddWork(c, j) PROVE TypeOK'
  BY <1>14 DEF AddWork, Invoke, ClientPCs
<1>15. ASSUME NEW c \in Clients, AddWorkPost(c) PROVE TypeOK'
  <2>1. wpc' \in [Workers -> WorkerPCs]
    BY <1>15, PostedEffect DEF AddWorkPost
  <2> QED
    BY <1>15, <2>1 DEF AddWorkPost, ClientPCs
<1>16. ASSUME NEW c \in Clients, Wait(c) PROVE TypeOK'
  BY <1>16 DEF Wait, Invoke, ClientPCs
<1>17. ASSUME NEW c \in Clients, WaitTest(c) PROVE TypeOK'
  BY <1>17 DEF WaitTest, ClientPCs
<1>18. ASSUME NEW c \in Clients, SpuriousWait(c) PROVE TypeOK'
  BY <1>18 DEF SpuriousWait, ClientPCs
<1>19. ASSUME NEW c \in Clients, Destroy(c) PROVE TypeOK'
  BY <1>19 DEF Destroy, ClientPCs
<1>20. ASSUME NEW c \in Clients, DestroyPoll(c) PROVE TypeOK'
  BY <1>20, PostedAllEffect DEF DestroyPoll
<1>21. ASSUME NEW c \in Clients, DestroyFree(c) PROVE TypeOK'
  BY <1>21 DEF DestroyFree, jobqueue_destroy, ClientPCs
<1>22. ASSUME NEW c \in Clients, Pause(c) \/ ResumePool(c) PROVE TypeOK'
  BY <1>22 DEF Pause, ResumePool
<1>23. CASE UNCHANGED vars
  BY <1>23 DEF vars
<1> QED
  BY <1>1, <1>2, <1>3, <1>4, <1>5, <1>6, <1>7, <1>8, <1>9, <1>10, <1>11, <1>12, <1>13, <1>14, <1>15, <1>16,
     <1>17, <1>18, <1>19, <1>20, <1>21, <1>22, <1>23 DEF Next, WorkerStep, ClientFinish

\* Every operation of thpool.c keeps the types, the signal handler of
\* thpool_pause included.
THEOREM TypeCorrect == Spec => []TypeOK
  BY TypeInit, TypeStep, PTL DEF Spec

-----------------------------------------------------------------------------
(* The counters *)

\* num_threads_alive counts the workers between Started and Exit, and
\* num_threads_working those between Count and Done.
AlivePCs == WorkerPCs \ {"start", "unlocking", "dead"}
WorkingPCs == {"pull", "repost", "run", "done"}
Counted ==
  /\ alive = Cardinality(Where(AlivePCs))
  /\ working = Cardinality(Where(WorkingPCs))

\* Where(S), for any state of the workers
Places(p, S) == {w \in Workers : p[w] \in S}

LEMMA PlacesFinite ==
  ASSUME NEW p, NEW S PROVE IsFiniteSet(Places(p, S)) /\ Cardinality(Places(p, S)) \in Nat
<1>1. Places(p, S) \in SUBSET Workers
  BY DEF Places
<1> QED
  BY <1>1, FS_Subset, FS_CardinalityType

LEMMA CountedPlaces ==
  /\ Counted <=> alive = Cardinality(Places(wpc, AlivePCs)) /\ working = Cardinality(Places(wpc, WorkingPCs))
  /\ Counted' <=> alive' = Cardinality(Places(wpc', AlivePCs)) /\ working' = Cardinality(Places(wpc', WorkingPCs))
  BY DEF Counted, Where, Places

\* A worker that moves from outside S into S, or out of S, or neither.
LEMMA PlacesMove ==
  ASSUME NEW p \in [Workers -> WorkerPCs], NEW w \in Workers, NEW to, NEW S,
         NEW q, q[w] = to, \A v \in Workers \ {w} : q[v] = p[v]
  PROVE  /\ p[w] \notin S /\ to \in S => Cardinality(Places(q, S)) = Cardinality(Places(p, S)) + 1
         /\ p[w] \in S /\ to \notin S => Cardinality(Places(q, S)) = Cardinality(Places(p, S)) - 1
         /\ (p[w] \in S <=> to \in S) => Places(q, S) = Places(p, S)
<1>0. IsFiniteSet(Places(p, S))
  BY PlacesFinite
<1>1. w \in Places(p, S) <=> p[w] \in S
  BY DEF Places
<1>2. ASSUME p[w] \notin S, to \in S PROVE Cardinality(Places(q, S)) = Cardinality(Places(p, S)) + 1
  <2>1. Places(q, S) = Places(p, S) \cup {w}
    BY <1>2 DEF Places
  <2> QED
    BY <1>0, <1>1, <1>2, <2>1, FS_AddElement
<1>3. ASSUME p[w] \in S, to \notin S PROVE Cardinality(Places(q, S)) = Cardinality(Places(p, S)) - 1
  <2>1. Places(q, S) = Places(p, S) \ {w}
    BY <1>3 DEF Places
  <2> QED
    BY <1>0, <1>1, <1>3, <2>1, FS_RemoveElement
<1>4. ASSUME p[w] \in S <=> to \in S PROVE Places(q, S) = Places(p, S)
  BY <1>4 DEF Places
<1> QED
  BY <1>2, <1>3, <1>4

\* Waking sleepers changes neither count.
LEMMA WakingKeepsCounts ==
  ASSUME Counted, UNCHANGED counters,
         \A w \in Workers : wpc'[w] = wpc[w] \/ (wpc[w] = "asleep" /\ wpc'[w] = "sem")
  PROVE  Counted'
<1>1. Where(AlivePCs)' = Where(AlivePCs) /\ Where(WorkingPCs)' = Where(WorkingPCs)
  BY DEF Where, AlivePCs, WorkingPCs, WorkerPCs
<1> QED
  BY <1>1 DEF Counted

LEMMA CountedInit == Init => Counted
<1> SUFFICES ASSUME Init PROVE Counted
  OBVIOUS
<1>1. Where(AlivePCs) = {} /\ Where(WorkingPCs) = {}
  BY DEF Init, thread_init, Where, AlivePCs, WorkingPCs
<1> QED
  BY <1>1, FS_EmptySet DEF Init, Counted

LEMMA CountedStep == TypeOK /\ Counted /\ [Next]_vars => Counted'
<1> SUFFICES ASSUME TypeOK, Counted, [Next]_vars PROVE Counted'
  OBVIOUS
<1>0. wpc \in [Workers -> WorkerPCs]
  BY DEF TypeOK
<1> DEFINE A == Cardinality(Places(wpc, AlivePCs))
           W == Cardinality(Places(wpc, WorkingPCs))
           Moved(w, to, S) == Cardinality(Places([wpc EXCEPT ![w] = to], S))
<1>a. alive = A /\ working = W
  BY CountedPlaces
<1>m. /\ \A x \in {"loop", "sem", "asleep", "check", "count", "exit"} : x \in AlivePCs /\ x \notin WorkingPCs
      /\ \A x \in {"pull", "repost", "run", "done"} : x \in AlivePCs /\ x \in WorkingPCs
      /\ \A x \in {"start", "unlocking", "dead"} : x \notin AlivePCs /\ x \notin WorkingPCs
  BY DEF AlivePCs, WorkerPCs, WorkingPCs
<1>b. ASSUME NEW w \in Workers, NEW to
      PROVE  /\ wpc[w] \notin AlivePCs /\ to \in AlivePCs => Moved(w, to, AlivePCs) = A + 1
             /\ wpc[w] \in AlivePCs /\ to \notin AlivePCs => Moved(w, to, AlivePCs) = A - 1
             /\ (wpc[w] \in AlivePCs <=> to \in AlivePCs) => Moved(w, to, AlivePCs) = A
             /\ wpc[w] \notin WorkingPCs /\ to \in WorkingPCs => Moved(w, to, WorkingPCs) = W + 1
             /\ wpc[w] \in WorkingPCs /\ to \notin WorkingPCs => Moved(w, to, WorkingPCs) = W - 1
             /\ (wpc[w] \in WorkingPCs <=> to \in WorkingPCs) => Moved(w, to, WorkingPCs) = W
  <2> DEFINE q == [wpc EXCEPT ![w] = to]
  <2>1. q[w] = to /\ \A v \in Workers \ {w} : q[v] = wpc[v]
    BY <1>0
  <2> HIDE DEF q
  <2>2. ASSUME NEW S
        PROVE  /\ wpc[w] \notin S /\ to \in S => Cardinality(Places(q, S)) = Cardinality(Places(wpc, S)) + 1
               /\ wpc[w] \in S /\ to \notin S => Cardinality(Places(q, S)) = Cardinality(Places(wpc, S)) - 1
               /\ (wpc[w] \in S <=> to \in S) => Places(q, S) = Places(wpc, S)
    BY <1>0, <2>1, PlacesMove
  <2> QED
    BY <2>2 DEF q
<1>c. ASSUME NEW w \in Workers, NEW to, Goto(w, to),
             alive' = Moved(w, to, AlivePCs), working' = Moved(w, to, WorkingPCs)
      PROVE  Counted'
  BY <1>c, CountedPlaces DEF Goto
<1> HIDE DEF Moved, A, W
<1> USE DEF At, Goto
<1>1. ASSUME NEW w \in Workers, Started(w) PROVE Counted'
  <2>1. /\ wpc[w] = "start" /\ wpc' = [wpc EXCEPT ![w] = "loop"]
        /\ alive' = alive + 1 /\ working' = working
    BY <1>1 DEF Started
  <2>2. Moved(w, "loop", AlivePCs) = A + 1 /\ Moved(w, "loop", WorkingPCs) = W
    BY <2>1, <1>m, <1>b
  <2> QED
    BY <1>a, <1>c, <2>1, <2>2
<1>2. ASSUME NEW w \in Workers, Loop(w) \/ SemWait(w) \/ SpuriousSem(w) \/ Check(w) PROVE Counted'
  <2>1. PICK to \in {"sem", "exit", "asleep", "check", "count", "loop"} : wpc' = [wpc EXCEPT ![w] = to]
    BY <1>2 DEF Loop, SemWait, SpuriousSem, Check
  <2>2. wpc[w] \in {"loop", "sem", "asleep", "check"} /\ UNCHANGED counters
    BY <1>2 DEF Loop, SemWait, SpuriousSem, Check
  <2>3. Moved(w, to, AlivePCs) = A /\ Moved(w, to, WorkingPCs) = W
    BY <2>1, <2>2, <1>m, <1>b
  <2> QED
    BY <1>a, <1>c, <2>1, <2>2, <2>3
<1>4. ASSUME NEW w \in Workers, Count(w) PROVE Counted'
  <2>1. /\ wpc[w] = "count" /\ wpc' = [wpc EXCEPT ![w] = "pull"]
        /\ alive' = alive /\ working' = working + 1
    BY <1>4 DEF Count
  <2>2. Moved(w, "pull", AlivePCs) = A /\ Moved(w, "pull", WorkingPCs) = W + 1
    BY <2>1, <1>m, <1>b
  <2> QED
    BY <1>a, <1>c, <2>1, <2>2
<1>5. ASSUME NEW w \in Workers, Pull(w) \/ JobReturns(w) PROVE Counted'
  <2>1. PICK to \in {"done", "run", "repost"} : wpc' = [wpc EXCEPT ![w] = to]
    BY <1>5 DEF Pull, JobReturns
  <2>2. wpc[w] \in {"pull", "run"} /\ UNCHANGED counters
    BY <1>5 DEF Pull, JobReturns
  <2>3. Moved(w, to, AlivePCs) = A /\ Moved(w, to, WorkingPCs) = W
    BY <2>1, <2>2, <1>m, <1>b
  <2> QED
    BY <1>a, <1>c, <2>1, <2>2, <2>3
<1>7. ASSUME NEW w \in Workers, Done(w) PROVE Counted'
  <2>1. /\ wpc[w] = "done" /\ wpc' = [wpc EXCEPT ![w] = "loop"]
        /\ alive' = alive /\ working' = working - 1
    BY <1>7 DEF Done
  <2>2. Moved(w, "loop", AlivePCs) = A /\ Moved(w, "loop", WorkingPCs) = W - 1
    BY <2>1, <1>m, <1>b
  <2> QED
    BY <1>a, <1>c, <2>1, <2>2
<1>8. ASSUME NEW w \in Workers, Exit(w) PROVE Counted'
  <2>1. /\ wpc[w] = "exit" /\ wpc' = [wpc EXCEPT ![w] = "unlocking"]
        /\ alive' = alive - 1 /\ working' = working
    BY <1>8 DEF Exit
  <2>2. Moved(w, "unlocking", AlivePCs) = A - 1 /\ Moved(w, "unlocking", WorkingPCs) = W
    BY <2>1, <1>m, <1>b
  <2> QED
    BY <1>a, <1>c, <2>1, <2>2
<1>9. ASSUME NEW w \in Workers, Unlock(w) PROVE Counted'
  <2>1. wpc[w] = "unlocking" /\ wpc' = [wpc EXCEPT ![w] = "dead"] /\ UNCHANGED counters
    BY <1>9 DEF Unlock
  <2>2. Moved(w, "dead", AlivePCs) = A /\ Moved(w, "dead", WorkingPCs) = W
    BY <2>1, <1>m, <1>b
  <2> QED
    BY <1>a, <1>c, <2>1, <2>2
<1>10. ASSUME NEW w \in Workers, Repost(w) PROVE Counted'
  <2> DEFINE p == [wpc EXCEPT ![w] = "run"]
  <2>1. p \in [Workers -> WorkerPCs] /\ wpc' \in Posted(p) /\ wpc[w] = "repost" /\ UNCHANGED counters
    BY <1>0, <1>10 DEF Repost, WorkerPCs
  <2> HIDE DEF p
  <2>2. \A v \in Workers : wpc'[v] = p[v] \/ (p[v] = "asleep" /\ wpc'[v] = "sem")
    BY <2>1, PostedEffect
  <2> USE DEF p
  <2>3. Where(AlivePCs)' = Where(AlivePCs) /\ Where(WorkingPCs)' = Where(WorkingPCs)
    BY <1>0, <2>1, <2>2 DEF Where, AlivePCs, WorkingPCs, WorkerPCs
  <2> QED
    BY <2>1, <2>3 DEF Counted
<1>11. ASSUME NEW c \in Clients, AddWorkPost(c) PROVE Counted'
  BY <1>0, <1>11, PostedEffect, WakingKeepsCounts DEF AddWorkPost
<1>12. ASSUME NEW c \in Clients, DestroyPoll(c) PROVE Counted'
  <2>1. \A w \in Workers : wpc'[w] = wpc[w] \/ (wpc[w] = "asleep" /\ wpc'[w] = "sem")
    BY <1>0, <1>12, PostedAllEffect DEF DestroyPoll
  <2> QED
    BY <1>12, <2>1, WakingKeepsCounts DEF DestroyPoll
<1>13. ASSUME UNCHANGED <<wpc, counters>> PROVE Counted'
  BY <1>13 DEF Counted, Where
<1>14. ASSUME NEW w \in Workers, Hold(w) \/ Release(w) PROVE Counted'
  BY <1>13, <1>14 DEF Hold, Release
<1>15. ASSUME NEW c \in Clients,
              \/ \E j \in Jobs : AddWork(c, j)
              \/ InitReturns(c) \/ Wait(c) \/ WaitTest(c) \/ SpuriousWait(c) \/ Destroy(c) \/ DestroyFree(c)
              \/ Pause(c) \/ ResumePool(c)
       PROVE  Counted'
  BY <1>13, <1>15 DEF AddWork, InitReturns, Wait, WaitTest, SpuriousWait, Destroy, DestroyFree, Pause, ResumePool
<1>16. CASE UNCHANGED vars
  BY <1>13, <1>16 DEF vars
<1> QED
  BY <1>1, <1>2, <1>4, <1>5, <1>7, <1>8, <1>9, <1>10, <1>11, <1>12, <1>14, <1>15, <1>16
     DEF Next, WorkerStep, ClientFinish

-----------------------------------------------------------------------------
(* The phases of a pool *)

\* No client uses the pool before every worker has reported in; none but the
\* destroyer is in a call once threads_keepalive is cleared; and a freed pool
\* has no worker left.
InitPhase == \/ \A c \in Clients : cpc[c] = "init"
             \/ (\A c \in Clients : cpc[c] # "init") /\ (\A w \in Workers : wpc[w] # "start")
Closing == \A c \in Clients : IF keepalive THEN cpc[c] # "destroy" ELSE cpc[c] \in {"idle", "destroy"}
Freed == freed => ~keepalive /\ \A w \in Workers : wpc[w] \in {"unlocking", "dead"}
Phase == InitPhase /\ Closing /\ Freed

LEMMA NobodyAlive ==
  ASSUME TypeOK, Counted, alive = 0
  PROVE  \A w \in Workers : wpc[w] \in {"start", "unlocking", "dead"}
<1>1. Places(wpc, AlivePCs) = {}
  BY CountedPlaces, PlacesFinite, FS_EmptySet
<1> QED
  BY <1>1 DEF TypeOK, Places, AlivePCs

LEMMA EverybodyStarted ==
  ASSUME TypeOK, Counted, alive = Cardinality(Workers)
  PROVE  \A w \in Workers : wpc[w] # "start"
<1>1. Where(AlivePCs) \in SUBSET Workers
  BY DEF Where
<1>2. Where(AlivePCs) = Workers
  BY <1>1, FS_Subset DEF Counted
<1> QED
  BY <1>2 DEF Where, AlivePCs

LEMMA PhaseStep == TypeOK /\ Counted /\ Phase /\ [Next]_vars => Phase'
<1> SUFFICES ASSUME TypeOK, Counted, Phase, [Next]_vars PROVE Phase'
  OBVIOUS
<1>0. /\ wpc \in [Workers -> WorkerPCs] /\ cpc \in [Clients -> ClientPCs]
      /\ keepalive \in BOOLEAN /\ freed \in BOOLEAN
  BY DEF TypeOK
<1> USE <1>0 DEF Phase, InitPhase, Closing, Freed, At, Goto
<1>1. ASSUME NEW w \in Workers,
             Started(w) \/ Loop(w) \/ SemWait(w) \/ SpuriousSem(w) \/ Check(w) \/ Count(w) \/ Pull(w)
             \/ JobReturns(w) \/ Exit(w) \/ Unlock(w)
      PROVE  Phase'
  <2>1. /\ \E to \in WorkerPCs \ {"start"} : wpc' = [wpc EXCEPT ![w] = to] /\ (wpc[w] = "unlocking" => to = "dead")
        /\ wpc[w] # "dead" /\ UNCHANGED <<keepalive, cpc, freed>>
    BY <1>1 DEF Started, Loop, SemWait, SpuriousSem, Check, Count, Pull, JobReturns, Exit, Unlock, WorkerPCs
  <2> QED
    BY <2>1
<1>2. ASSUME NEW w \in Workers, Repost(w) PROVE Phase'
  <2> DEFINE p == [wpc EXCEPT ![w] = "run"]
  <2>1. p \in [Workers -> WorkerPCs] /\ wpc' \in Posted(p) /\ wpc[w] = "repost" /\ UNCHANGED <<keepalive, cpc, freed>>
    BY <1>2 DEF Repost, WorkerPCs
  <2> HIDE DEF p
  <2>2. \A v \in Workers : wpc'[v] = p[v] \/ (p[v] = "asleep" /\ wpc'[v] = "sem")
    BY <2>1, PostedEffect
  <2> USE DEF p
  <2> QED
    BY <2>1, <2>2
<1>3. ASSUME NEW w \in Workers, Done(w) PROVE Phase'
  <2>1. \A c \in Clients : cpc'[c] = cpc[c] \/ (cpc[c] = "wait_asleep" /\ cpc'[c] = "wait")
    BY <1>3 DEF Done, SignalAllIdle
  <2>2. wpc[w] = "done" /\ wpc' = [wpc EXCEPT ![w] = "loop"] /\ UNCHANGED <<keepalive, freed>>
    BY <1>3 DEF Done
  <2> QED
    BY <2>1, <2>2
<1>4. ASSUME NEW w \in Workers, Hold(w) \/ Release(w) PROVE Phase'
  BY <1>4 DEF Hold, Release
<1>5. ASSUME NEW c \in Clients, InitReturns(c) PROVE Phase'
  BY <1>5, EverybodyStarted DEF InitReturns
<1>6. ASSUME NEW c \in Clients, NEW j \in Jobs, AddWork(c, j) PROVE Phase'
  BY <1>6 DEF AddWork, Invoke
<1>7. ASSUME NEW c \in Clients, AddWorkPost(c) PROVE Phase'
  <2>1. \A v \in Workers : wpc'[v] = wpc[v] \/ (wpc[v] = "asleep" /\ wpc'[v] = "sem")
    BY <1>7, PostedEffect DEF AddWorkPost
  <2> QED
    BY <1>7, <2>1 DEF AddWorkPost
<1>8. ASSUME NEW c \in Clients, Wait(c) \/ WaitTest(c) \/ SpuriousWait(c) PROVE Phase'
  BY <1>8 DEF Wait, WaitTest, SpuriousWait, Invoke
<1>9. ASSUME NEW c \in Clients, Destroy(c) PROVE Phase'
  BY <1>9 DEF Destroy, Invoke
<1>10. ASSUME NEW c \in Clients, DestroyPoll(c) PROVE Phase'
  <2>1. \A v \in Workers : wpc'[v] = wpc[v] \/ (wpc[v] = "asleep" /\ wpc'[v] = "sem")
    BY <1>10, PostedAllEffect DEF DestroyPoll
  <2> QED
    BY <1>10, <2>1 DEF DestroyPoll
<1>11. ASSUME NEW c \in Clients, DestroyFree(c) PROVE Phase'
  <2>1. \A w \in Workers : wpc[w] \in {"unlocking", "dead"}
    BY <1>11, NobodyAlive DEF DestroyFree
  <2> QED
    BY <1>11, <2>1 DEF DestroyFree
<1>12. ASSUME NEW c \in Clients, Pause(c) \/ ResumePool(c) PROVE Phase'
  BY <1>12 DEF Pause, ResumePool
<1>13. CASE UNCHANGED vars
  BY <1>13 DEF vars
<1> QED
  BY <1>1, <1>2, <1>3, <1>4, <1>5, <1>6, <1>7, <1>8, <1>9, <1>10, <1>11, <1>12, <1>13
     DEF Next, WorkerStep, ClientFinish

-----------------------------------------------------------------------------
(* Who owns what *)

\* A worker has a job from the pull to the end of the job's function.
JobHeld == \A w \in Workers : job[w] # NoJob <=> wpc[w] \in {"repost", "run"}

\* rwmutex is owned by the one thread that posts inside it.
RwOwned ==
  /\ \A w \in Workers : wpc[w] = "repost" => rw = w
  /\ \A c \in Clients : cpc[c] = "post" => rw = c
  /\ rw # Nobody => \/ \E w \in Workers : rw = w /\ wpc[w] = "repost"
                    \/ \E c \in Clients : rw = c /\ cpc[c] = "post"
OwnInv == JobHeld /\ RwOwned

LEMMA OwnStep == TypeOK /\ Phase /\ OwnInv /\ [Next]_vars => OwnInv'
<1> SUFFICES ASSUME TypeOK, Phase, OwnInv, [Next]_vars PROVE OwnInv'
  OBVIOUS
<1>0. /\ wpc \in [Workers -> WorkerPCs] /\ job \in [Workers -> Jobs \cup {NoJob}]
      /\ cpc \in [Clients -> ClientPCs] /\ jobs \in Seq(Jobs)
  BY DEF TypeOK
<1> USE <1>0 DEF OwnInv, JobHeld, RwOwned, At, Goto
<1>1. ASSUME NEW w \in Workers,
             Started(w) \/ Loop(w) \/ SemWait(w) \/ SpuriousSem(w) \/ Check(w) \/ Count(w) \/ Exit(w) \/ Unlock(w)
      PROVE  OwnInv'
  <2>1. /\ \E to \in WorkerPCs \ {"repost", "run"} : wpc' = [wpc EXCEPT ![w] = to]
        /\ wpc[w] \notin {"repost", "run"} /\ UNCHANGED <<job, rw, cpc>>
    BY <1>1 DEF Started, Loop, SemWait, SpuriousSem, Check, Count, Exit, Unlock, WorkerPCs
  <2> QED
    BY <2>1
<1>2. ASSUME NEW w \in Workers, Pull(w) PROVE OwnInv'
  <2>1. CASE jobs = <<>>
    BY <1>2, <2>1 DEF Pull
  <2>2. CASE jobs # <<>>
    <3>1. Head(jobs) \in Jobs
      BY <2>2
    <3>2. wpc[w] = "pull" /\ rw = Nobody /\ job' = [job EXCEPT ![w] = Head(jobs)] /\ UNCHANGED cpc
      BY <1>2, <2>2 DEF Pull
    <3>3. \/ wpc' = [wpc EXCEPT ![w] = "run"] /\ rw' = rw
          \/ wpc' = [wpc EXCEPT ![w] = "repost"] /\ rw' = w
      BY <1>2, <2>2 DEF Pull
    <3>4. JobHeld'
      BY <3>1, <3>2, <3>3
    <3>5. RwOwned'
      BY <3>2, <3>3
    <3> QED
      BY <3>4, <3>5
  <2> QED
    BY <2>1, <2>2
<1>3. ASSUME NEW w \in Workers, Repost(w) PROVE OwnInv'
  <2> DEFINE p == [wpc EXCEPT ![w] = "run"]
  <2>1. p \in [Workers -> WorkerPCs] /\ wpc' \in Posted(p) /\ wpc[w] = "repost" /\ UNCHANGED <<job, cpc>>
        /\ rw' = Nobody
    BY <1>3 DEF Repost, WorkerPCs
  <2> HIDE DEF p
  <2>2. \A v \in Workers : wpc'[v] = p[v] \/ (p[v] = "asleep" /\ wpc'[v] = "sem")
    BY <2>1, PostedEffect
  <2> USE DEF p
  <2> QED
    BY <2>1, <2>2
<1>4. ASSUME NEW w \in Workers, JobReturns(w) PROVE OwnInv'
  BY <1>4 DEF JobReturns
<1>5. ASSUME NEW w \in Workers, Done(w) PROVE OwnInv'
  <2>1. \A c \in Clients : cpc'[c] = cpc[c] \/ (cpc[c] = "wait_asleep" /\ cpc'[c] = "wait")
    BY <1>5 DEF Done, SignalAllIdle
  <2>2. wpc[w] = "done" /\ wpc' = [wpc EXCEPT ![w] = "loop"] /\ UNCHANGED <<job, rw>>
    BY <1>5 DEF Done
  <2> QED
    BY <2>1, <2>2
<1>6. ASSUME NEW w \in Workers, Hold(w) \/ Release(w) PROVE OwnInv'
  BY <1>6 DEF Hold, Release
<1>7. ASSUME NEW c \in Clients, NEW j \in Jobs, AddWork(c, j) PROVE OwnInv'
  BY <1>7 DEF AddWork, Invoke
<1>8. ASSUME NEW c \in Clients, AddWorkPost(c) PROVE OwnInv'
  <2>1. \A v \in Workers : wpc'[v] = wpc[v] \/ (wpc[v] = "asleep" /\ wpc'[v] = "sem")
    BY <1>8, PostedEffect DEF AddWorkPost
  <2>2. cpc[c] = "post" /\ cpc' = [cpc EXCEPT ![c] = "idle"] /\ rw' = Nobody /\ UNCHANGED job
    BY <1>8 DEF AddWorkPost
  <2> QED
    BY <2>1, <2>2
<1>9. ASSUME NEW c \in Clients, DestroyPoll(c) PROVE OwnInv'
  <2>1. \A v \in Workers : wpc'[v] = wpc[v] \/ (wpc[v] = "asleep" /\ wpc'[v] = "sem")
    BY <1>9, PostedAllEffect DEF DestroyPoll
  <2> QED
    BY <1>9, <2>1 DEF DestroyPoll
<1>10. ASSUME NEW c \in Clients, Wait(c) \/ WaitTest(c) \/ SpuriousWait(c) \/ Destroy(c) \/ DestroyFree(c)
       PROVE  OwnInv'
  <2>1. /\ \E to \in ClientPCs \ {"post"} : cpc' = [cpc EXCEPT ![c] = to]
        /\ cpc[c] # "post" /\ UNCHANGED <<job, rw, wpc>>
    BY <1>10 DEF Wait, WaitTest, SpuriousWait, Destroy, DestroyFree, Invoke, ClientPCs
  <2> QED
    BY <2>1
<1>11. ASSUME NEW c \in Clients, Pause(c) \/ ResumePool(c) PROVE OwnInv'
  BY <1>11 DEF Pause, ResumePool
<1>12. ASSUME NEW c \in Clients, InitReturns(c) PROVE OwnInv'
  BY <1>12 DEF InitReturns, Phase, InitPhase
<1>13. CASE UNCHANGED vars
  BY <1>13 DEF vars
<1> QED
  BY <1>1, <1>2, <1>3, <1>4, <1>5, <1>6, <1>7, <1>8, <1>9, <1>10, <1>11, <1>12, <1>13
     DEF Next, WorkerStep, ClientFinish

-----------------------------------------------------------------------------
(* Somebody is on the way to a waiting job *)

\* A queued job that nobody posts or fetches has the semaphore set for it, and
\* a semaphore that is set beside a sleeper is about to be taken.
OnTheWay == {"check", "count", "pull"}
Announced ==
  keepalive /\ jobs # <<>> /\ rw = Nobody => sem = 1 \/ \E w \in Workers : wpc[w] \in OnTheWay
Noticed ==
  sem = 1 /\ (\E w \in Workers : wpc[w] = "asleep") => \E w \in Workers : wpc[w] = "sem"
WayInv == Announced /\ Noticed

LEMMA OneOrMore ==
  ASSUME NEW S, NEW s \in Seq(S), s # <<>>
  PROVE  Len(s) = 1 \/ Len(s) > 1
<1>1. Len(s) \in Nat \ {0}
  BY EmptySeq
<1>2. \A n \in Nat \ {0} : n = 1 \/ n > 1
  OBVIOUS
<1> QED
  BY <1>1, <1>2, Zenon

LEMMA WayStep == TypeOK /\ WayInv /\ [Next]_vars => WayInv'
<1> SUFFICES ASSUME TypeOK, WayInv, [Next]_vars PROVE WayInv'
  OBVIOUS
<1>0. /\ wpc \in [Workers -> WorkerPCs] /\ keepalive \in BOOLEAN /\ sem \in {0, 1}
      /\ rw \in Workers \cup Clients \cup {Nobody}
  BY DEF TypeOK
<1> USE <1>0 DEF WayInv, Announced, Noticed, OnTheWay, At, Goto
<1>1. ASSUME NEW w \in Workers, Started(w) \/ JobReturns(w) \/ Done(w) \/ Exit(w) \/ Unlock(w)
      PROVE  WayInv'
  <2>1. /\ \E to \in {"loop", "done", "unlocking", "dead"} : wpc' = [wpc EXCEPT ![w] = to]
        /\ wpc[w] \notin OnTheWay \cup {"asleep", "sem"} /\ UNCHANGED <<keepalive, jobs, rw, sem>>
    BY <1>1 DEF Started, JobReturns, Done, Exit, Unlock
  <2> QED
    BY <2>1
<1>2. ASSUME NEW w \in Workers, Loop(w) \/ SpuriousSem(w) PROVE WayInv'
  BY <1>2 DEF Loop, SpuriousSem
<1>3. ASSUME NEW w \in Workers, SemWait(w) PROVE WayInv'
  BY <1>3 DEF SemWait
<1>4. ASSUME NEW w \in Workers, Check(w) PROVE WayInv'
  BY <1>4 DEF Check
<1>5. ASSUME NEW w \in Workers, Count(w) PROVE WayInv'
  BY <1>5 DEF Count
<1>6. ASSUME NEW w \in Workers, Pull(w) PROVE WayInv'
  <2>1. CASE jobs = <<>>
    BY <1>6, <2>1 DEF Pull
  <2>2. CASE jobs # <<>> /\ Len(jobs) = 1
    <3>1. Tail(jobs) = <<>>
      <4>1. Tail(jobs) \in Seq(Jobs) /\ Len(Tail(jobs)) = 0
        BY <2>2 DEF TypeOK
      <4> QED
        BY <4>1, EmptySeq
    <3> QED
      BY <1>6, <2>2, <3>1 DEF Pull
  <2>3. CASE jobs # <<>> /\ Len(jobs) > 1
    <3>1. rw' = w /\ w # Nobody /\ sem' = sem /\ wpc' = [wpc EXCEPT ![w] = "repost"] /\ wpc[w] = "pull"
      BY <1>6, <2>3 DEF Pull
    <3> QED
      BY <3>1
  <2>4. jobs = <<>> \/ (jobs # <<>> /\ Len(jobs) = 1) \/ (jobs # <<>> /\ Len(jobs) > 1)
    <3>1. jobs \in Seq(Jobs)
      BY DEF TypeOK
    <3> QED
      BY <3>1, OneOrMore, Zenon
  <2> QED
    BY <2>1, <2>2, <2>3, <2>4
<1>7. ASSUME NEW w \in Workers, Repost(w) PROVE WayInv'
  <2> DEFINE p == [wpc EXCEPT ![w] = "run"]
  <2>1. p \in [Workers -> WorkerPCs] /\ wpc' \in Posted(p) /\ wpc[w] = "repost" /\ sem' = 1
    BY <1>7 DEF Repost, WorkerPCs
  <2>2. /\ \A v \in Workers : wpc'[v] = p[v] \/ (p[v] = "asleep" /\ wpc'[v] = "sem")
        /\ \A v \in Workers : p[v] = "asleep" => \E u \in Workers : wpc'[u] = "sem"
    <3> HIDE DEF p
    <3> QED
      BY <2>1, PostedEffect
  <2> QED
    BY <2>1, <2>2
<1>8. ASSUME NEW c \in Clients, AddWorkPost(c) PROVE WayInv'
  <2>1. /\ \A v \in Workers : wpc'[v] = wpc[v] \/ (wpc[v] = "asleep" /\ wpc'[v] = "sem")
        /\ \A v \in Workers : wpc[v] = "asleep" => \E u \in Workers : wpc'[u] = "sem"
    BY <1>8, PostedEffect DEF AddWorkPost
  <2> QED
    BY <1>8, <2>1 DEF AddWorkPost
<1>9. ASSUME NEW c \in Clients, NEW j \in Jobs, AddWork(c, j) PROVE WayInv'
  BY <1>9 DEF AddWork
<1>10. ASSUME NEW c \in Clients, DestroyPoll(c) PROVE WayInv'
  BY <1>10, PostedAllEffect DEF DestroyPoll
<1>11. ASSUME NEW c \in Clients, Destroy(c) \/ DestroyFree(c) PROVE WayInv'
  BY <1>11 DEF Destroy, DestroyFree, jobqueue_destroy
<1>12. ASSUME UNCHANGED <<keepalive, jobs, rw, sem, wpc>> PROVE WayInv'
  BY <1>12
<1>13. ASSUME NEW w \in Workers, Hold(w) \/ Release(w) PROVE WayInv'
  BY <1>12, <1>13 DEF Hold, Release
<1>14. ASSUME NEW c \in Clients,
              InitReturns(c) \/ Wait(c) \/ WaitTest(c) \/ SpuriousWait(c) \/ Pause(c) \/ ResumePool(c)
       PROVE  WayInv'
  BY <1>12, <1>14 DEF InitReturns, Wait, WaitTest, SpuriousWait, Pause, ResumePool
<1>15. CASE UNCHANGED vars
  BY <1>12, <1>15 DEF vars
<1> QED
  BY <1>1, <1>2, <1>3, <1>4, <1>5, <1>6, <1>7, <1>8, <1>9, <1>10, <1>11, <1>13, <1>14, <1>15
     DEF Next, WorkerStep, ClientFinish

-----------------------------------------------------------------------------
(* Where a submitted job is *)

\* Until the pool is freed a submitted job is queued, with a worker or
\* finished; and nothing else is.
Accounted ==
  ~freed => \A j \in submitted : \/ \E i \in DOMAIN jobs : jobs[i] = j
                                 \/ \E w \in Workers : job[w] = j
                                 \/ j \in finished
Known ==
  /\ \A i \in DOMAIN jobs : jobs[i] \in submitted
  /\ \A w \in Workers : job[w] \in submitted \cup {NoJob}
  /\ finished \subseteq submitted
  /\ \A c \in Clients : before[c] \subseteq submitted
JobInv == Accounted /\ Known

LEMMA JobStep == TypeOK /\ OwnInv /\ Phase /\ JobInv /\ [Next]_vars => JobInv'
<1> SUFFICES ASSUME TypeOK, OwnInv, Phase, JobInv, [Next]_vars PROVE JobInv'
  OBVIOUS
<1>0. /\ jobs \in Seq(Jobs) /\ job \in [Workers -> Jobs \cup {NoJob}] /\ before \in [Clients -> SUBSET Jobs]
      /\ submitted \subseteq Jobs /\ finished \subseteq Jobs /\ freed \in BOOLEAN
  BY DEF TypeOK
<1> USE <1>0 DEF JobInv, Accounted, Known, At
<1>1. ASSUME NEW w \in Workers, Pull(w) PROVE JobInv'
  <2>1. CASE jobs = <<>>
    BY <1>1, <2>1 DEF Pull
  <2>2. CASE jobs # <<>>
    <3> DEFINE n == Len(jobs)
    <3>1. /\ n \in Nat \ {0} /\ DOMAIN jobs = 1..n /\ Head(jobs) = jobs[1]
          /\ DOMAIN Tail(jobs) = 1..(n - 1) /\ \A i \in 1..(n - 1) : Tail(jobs)[i] = jobs[i + 1]
      BY <2>2
    <3>2. /\ jobs' = Tail(jobs) /\ job' = [job EXCEPT ![w] = Head(jobs)] /\ job[w] = NoJob
          /\ UNCHANGED <<before, submitted, finished, freed>>
      BY <1>1, <2>2 DEF Pull, OwnInv, JobHeld
    <3> HIDE DEF n
    <3>3. ASSUME ~freed, NEW j \in submitted
          PROVE  \/ \E i \in DOMAIN jobs' : jobs'[i] = j
                 \/ \E v \in Workers : job'[v] = j
                 \/ j \in finished
      <4>1. CASE j \in finished
        BY <4>1
      <4>2. ASSUME NEW v \in Workers, job[v] = j PROVE job'[v] = j
        <5>1. v # w
          BY <3>2, <3>3, <4>2
        <5> QED
          BY <3>2, <4>2, <5>1
      <4>3. CASE jobs[1] = j
        BY <3>1, <3>2, <4>3
      <4>4. ASSUME NEW i \in 1..n, i # 1, jobs[i] = j PROVE i - 1 \in DOMAIN jobs' /\ jobs'[i - 1] = j
        <5>1. i - 1 \in 1..(n - 1) /\ (i - 1) + 1 = i
          BY <3>1, <4>4
        <5> QED
          BY <3>1, <3>2, <4>4, <5>1
      <4> QED
        BY <3>1, <3>3, <4>1, <4>2, <4>3, <4>4
    <3>4. \A i \in DOMAIN jobs' : jobs'[i] \in submitted
      <4> SUFFICES ASSUME NEW i \in 1..(n - 1) PROVE jobs[i + 1] \in submitted
        BY <3>1, <3>2
      <4>1. i + 1 \in 1..n
        BY <3>1
      <4> QED
        BY <3>1, <4>1
    <3>5. \A v \in Workers : job'[v] \in submitted \cup {NoJob}
      BY <3>1, <3>2
    <3> QED
      BY <3>2, <3>3, <3>4, <3>5
  <2> QED
    BY <2>1, <2>2
<1>2. ASSUME NEW w \in Workers, JobReturns(w) PROVE JobInv'
  <2>1. /\ finished' = finished \cup {job[w]} /\ job' = [job EXCEPT ![w] = NoJob] /\ job[w] \in Jobs
        /\ UNCHANGED <<jobs, before, submitted, freed>>
    BY <1>2 DEF JobReturns
  <2>2. Accounted'
    BY <2>1
  <2>3. Known'
    BY <2>1
  <2> QED
    BY <2>2, <2>3
<1>3. ASSUME NEW c \in Clients, NEW j \in Jobs, AddWork(c, j) PROVE JobInv'
  <2> DEFINE n == Len(jobs)
  <2>1. /\ jobs' = Append(jobs, j) /\ submitted' = submitted \cup {j} /\ UNCHANGED <<job, before, finished, freed>>
    BY <1>3 DEF AddWork
  <2>2. /\ n \in Nat /\ DOMAIN jobs = 1..n /\ DOMAIN jobs' = 1..(n + 1) /\ jobs'[n + 1] = j
        /\ \A i \in 1..n : jobs'[i] = jobs[i]
    BY <2>1
  <2> HIDE DEF n
  <2>3. ASSUME ~freed, NEW k \in submitted'
        PROVE  \/ \E i \in DOMAIN jobs' : jobs'[i] = k
               \/ \E w \in Workers : job'[w] = k
               \/ k \in finished'
    <3>1. CASE k = j
      <4>1. n + 1 \in 1..(n + 1)
        BY <2>2
      <4> QED
        BY <2>2, <3>1, <4>1
    <3>2. CASE k \in submitted
      <4>1. ASSUME NEW i \in 1..n, jobs[i] = k PROVE i \in 1..(n + 1) /\ jobs'[i] = k
        BY <2>2, <4>1
      <4> QED
        BY <2>1, <2>2, <2>3, <3>2, <4>1
    <3> QED
      BY <2>1, <3>1, <3>2
  <2>4. \A i \in DOMAIN jobs' : jobs'[i] \in submitted'
    BY <2>1, <2>2
  <2> QED
    BY <2>1, <2>3, <2>4
<1>4. ASSUME NEW c \in Clients, Wait(c) \/ WaitTest(c) PROVE JobInv'
  <2>1. /\ UNCHANGED <<jobs, job, submitted, finished, freed>>
        /\ \A d \in Clients : before'[d] \in {before[d], submitted, {}}
    BY <1>4 DEF Wait, WaitTest
  <2> QED
    BY <2>1
<1>5. ASSUME NEW c \in Clients, DestroyFree(c) PROVE JobInv'
  BY <1>5 DEF DestroyFree, jobqueue_destroy
<1>6. ASSUME UNCHANGED <<jobs, job, before, submitted, finished, freed>> PROVE JobInv'
  BY <1>6
<1>7. ASSUME NEW w \in Workers,
             Started(w) \/ Loop(w) \/ SemWait(w) \/ SpuriousSem(w) \/ Check(w) \/ Count(w) \/ Repost(w)
             \/ Done(w) \/ Exit(w) \/ Unlock(w) \/ Hold(w) \/ Release(w)
      PROVE  JobInv'
  BY <1>6, <1>7 DEF Started, Loop, SemWait, SpuriousSem, Check, Count, Repost, Done, Exit, Unlock, Hold, Release
<1>8. ASSUME NEW c \in Clients,
             InitReturns(c) \/ AddWorkPost(c) \/ SpuriousWait(c) \/ Destroy(c) \/ DestroyPoll(c)
             \/ Pause(c) \/ ResumePool(c)
      PROVE  JobInv'
  BY <1>6, <1>8 DEF InitReturns, AddWorkPost, SpuriousWait, Destroy, DestroyPoll, Pause, ResumePool
<1>9. CASE UNCHANGED vars
  BY <1>6, <1>9 DEF vars
<1> QED
  BY <1>1, <1>2, <1>3, <1>4, <1>5, <1>7, <1>8, <1>9 DEF Next, WorkerStep, ClientFinish

-----------------------------------------------------------------------------
(* The invariant and its consequences *)

IInv == TypeOK /\ Counted /\ Phase /\ OwnInv /\ WayInv /\ JobInv

LEMMA InvInit == Init => IInv
<1> SUFFICES ASSUME Init PROVE IInv
  OBVIOUS
<1>1. TypeOK /\ Counted
  BY TypeInit, CountedInit
<1>2. Phase
  BY DEF Init, thread_init, Phase, InitPhase, Closing, Freed
<1>3. OwnInv
  BY DEF Init, thread_init, jobqueue_init, OwnInv, JobHeld, RwOwned
<1>4. WayInv
  BY DEF Init, thread_init, jobqueue_init, WayInv, Announced, Noticed
<1>5. JobInv
  BY DEF Init, thread_init, jobqueue_init, JobInv, Accounted, Known
<1> QED
  BY <1>1, <1>2, <1>3, <1>4, <1>5 DEF IInv

LEMMA InvStep == IInv /\ [Next]_vars => IInv'
  BY TypeStep, CountedStep, PhaseStep, OwnStep, WayStep, JobStep DEF IInv

\* jobqueue_push and jobqueue_pull post the binary semaphore so that no job
\* waits beside a sleeping worker with nobody on the way to it.
THEOREM NoJobIsStranded == Spec => []NoStrandedJob
<1>1. IInv => NoStrandedJob
  BY DEF IInv, WayInv, Announced, Noticed, OnTheWay, NoStrandedJob, Where
<1> QED
  BY <1>1, InvInit, InvStep, PTL DEF Spec

\* When thpool_destroy frees the queue and the semaphore, every worker has
\* counted itself out and none has a job.
THEOREM DestroyIsQuiet == Spec => []DestroyedIsQuiet
<1>1. IInv => DestroyedIsQuiet
  BY DEF IInv, Phase, Freed, OwnInv, JobHeld, DestroyedIsQuiet, Where
<1> QED
  BY <1>1, InvInit, InvStep, PTL DEF Spec

\* thpool_wait returns only when every job that was submitted before the call
\* has finished: an empty queue and no working thread leave nowhere else for it
\* to be, although the queue is read without its lock.
THEOREM WaitIsSound == Spec => WaitSound
<1> DEFINE A == \A c \in Clients : cpc[c] = "wait" /\ cpc'[c] = "idle" => before[c] \subseteq finished
<1>1. IInv /\ [Next]_vars => [A]_vars
  <2> SUFFICES ASSUME IInv, Next, NEW c \in Clients, cpc[c] = "wait", cpc'[c] = "idle"
               PROVE  before[c] \subseteq finished
    BY DEF vars
  <2>0. cpc \in [Clients -> ClientPCs] /\ job \in [Workers -> Jobs \cup {NoJob}]
    BY DEF IInv, TypeOK
  <2>1. WaitTest(c)
    <3>1. ASSUME NEW d \in Clients, NEW j \in Jobs, AddWork(d, j) PROVE FALSE
      BY <2>0, <3>1 DEF AddWork, Invoke
    <3>2. ASSUME NEW d \in Clients,
                 AddWorkPost(d) \/ Wait(d) \/ SpuriousWait(d) \/ Destroy(d) \/ DestroyPoll(d) \/ DestroyFree(d)
                 \/ Pause(d) \/ ResumePool(d)
          PROVE  FALSE
      BY <2>0, <3>2 DEF AddWorkPost, Wait, Invoke, SpuriousWait, Destroy, DestroyPoll, DestroyFree, Pause, ResumePool
    <3>3. ASSUME NEW d \in Clients, InitReturns(d) PROVE FALSE
      BY <3>3 DEF IInv, Phase, InitPhase, InitReturns
    <3>4. ASSUME NEW d \in Clients, WaitTest(d) PROVE d = c
      BY <2>0, <3>4 DEF WaitTest
    <3>5. ASSUME NEW w \in Workers, Done(w) PROVE FALSE
      BY <2>0, <3>5 DEF Done, SignalAllIdle
    <3>6. ASSUME NEW w \in Workers,
                 Started(w) \/ Loop(w) \/ SemWait(w) \/ SpuriousSem(w) \/ Check(w) \/ Count(w) \/ Pull(w) \/ Repost(w)
                 \/ JobReturns(w) \/ Exit(w) \/ Unlock(w) \/ Hold(w) \/ Release(w)
          PROVE  FALSE
      BY <3>6 DEF Started, Loop, SemWait, SpuriousSem, Check, Count, Pull, Repost, JobReturns, Exit, Unlock,
                  Hold, Release
    <3> QED
      BY <3>1, <3>2, <3>3, <3>4, <3>5, <3>6 DEF Next, WorkerStep, ClientFinish
  <2>2. Len(jobs) = 0 /\ working = 0
    BY <2>0, <2>1 DEF WaitTest
  <2>3. DOMAIN jobs = {}
    BY <2>2 DEF IInv, TypeOK
  <2>4. \A w \in Workers : job[w] = NoJob
    <3>1. Places(wpc, WorkingPCs) = {}
      BY <2>2, CountedPlaces, PlacesFinite, FS_EmptySet DEF IInv
    <3> QED
      BY <3>1 DEF IInv, OwnInv, JobHeld, Places, WorkingPCs
  <2>5. ~freed
    BY DEF IInv, Phase, Freed, Closing
  <2> QED
    BY <2>3, <2>4, <2>5 DEF IInv, TypeOK, JobInv, Accounted, Known
<1>2. WaitSound <=> [][A]_vars
  BY DEF WaitSound
<1> QED
  BY <1>1, <1>2, InvInit, InvStep, PTL DEF Spec

-----------------------------------------------------------------------------
(* The refinement of JobPool *)

LEMMA PoolStep == IInv /\ [Next]_vars => [Pool!PoolNext]_(Pool!poolVars)
<1> SUFFICES ASSUME IInv, [Next]_vars PROVE [Pool!PoolNext]_(Pool!poolVars)
  OBVIOUS
<1>0. /\ jobs \in Seq(Jobs) /\ job \in [Workers -> Jobs \cup {NoJob}]
      /\ submitted \subseteq Jobs /\ finished \subseteq Jobs /\ keepalive \in BOOLEAN
  BY DEF IInv, TypeOK
<1>1. ASSUME NEW c \in Clients, NEW j \in Jobs, AddWork(c, j) PROVE Pool!Submit(j)
  <2>1. j \notin Pool!Held
    <3>1. j \notin submitted /\ j # NoJob
      BY <1>1 DEF AddWork
    <3>2. \A i \in 1..Len(jobs) : i \in DOMAIN jobs
      BY <1>0
    <3> QED
      BY <3>1, <3>2 DEF Pool!Held, IInv, JobInv, Known
  <2> QED
    BY <1>1, <2>1 DEF AddWork, Invoke, Pool!Submit
<1>2. ASSUME NEW w \in Workers, Pull(w) PROVE Pool!Start(w) \/ UNCHANGED Pool!poolVars
  <2>1. job[w] = NoJob
    BY <1>2 DEF Pull, At, IInv, OwnInv, JobHeld
  <2>2. CASE jobs = <<>>
    BY <1>2, <2>2 DEF Pull, Pool!poolVars
  <2>3. CASE jobs # <<>>
    BY <1>2, <2>1, <2>3 DEF Pull, Pool!Start
  <2> QED
    BY <2>2, <2>3
<1>3. ASSUME NEW w \in Workers, JobReturns(w) PROVE Pool!Finish(w)
  BY <1>3 DEF JobReturns, Pool!Finish
<1>4. ASSUME NEW c \in Clients, Destroy(c) PROVE Pool!Shut
  BY <1>4 DEF Destroy, Invoke, Pool!Shut
<1>5. ASSUME NEW c \in Clients, DestroyFree(c) PROVE Pool!Drop
  <2>1. \A w \in Workers : job[w] = NoJob
    BY <1>5, NobodyAlive DEF DestroyFree, IInv, OwnInv, JobHeld
  <2>2. ~keepalive
    BY <1>5 DEF DestroyFree, IInv, Phase, Closing
  <2> QED
    BY <1>5, <2>1, <2>2 DEF DestroyFree, jobqueue_destroy, Pool!Drop
<1>6. ASSUME NEW w \in Workers,
             Started(w) \/ Loop(w) \/ SemWait(w) \/ SpuriousSem(w) \/ Check(w) \/ Count(w) \/ Repost(w)
             \/ Done(w) \/ Exit(w) \/ Unlock(w) \/ Hold(w) \/ Release(w)
      PROVE  UNCHANGED Pool!poolVars
  BY <1>6 DEF Started, Loop, SemWait, SpuriousSem, Check, Count, Repost, Done, Exit, Unlock, Hold, Release,
     Pool!poolVars
<1>7. ASSUME NEW c \in Clients,
             InitReturns(c) \/ AddWorkPost(c) \/ Wait(c) \/ WaitTest(c) \/ SpuriousWait(c) \/ DestroyPoll(c)
             \/ Pause(c) \/ ResumePool(c)
      PROVE  UNCHANGED Pool!poolVars
  BY <1>7 DEF InitReturns, AddWorkPost, Wait, WaitTest, SpuriousWait, DestroyPoll, Pause, ResumePool, Pool!poolVars
<1>8. CASE UNCHANGED vars
  BY <1>8 DEF vars, Pool!poolVars
<1> QED
  BY <1>1, <1>2, <1>3, <1>4, <1>5, <1>6, <1>7, <1>8 DEF Next, WorkerStep, ClientFinish, Pool!PoolNext

\* thpool.c does what JobPool promises: jobs start in the order in which
\* thpool_add_work took them, each at most once, on a worker that has none, and
\* only a pool that is shut and has nothing running drops what is queued.
THEOREM Refinement == Spec => ImplementsPool
<1>1. Init => Pool!PoolInit
  BY DEF Init, jobqueue_init, thread_init, Pool!PoolInit
<1>2. IInv /\ [Next]_vars => [Pool!PoolNext]_(Pool!poolVars)
  BY PoolStep
<1> QED
  BY <1>1, <1>2, InvInit, InvStep, PTL DEF Spec, ImplementsPool, Pool!PoolSpec
=============================================================================
