----------------------------- MODULE ThreadPool -----------------------------
(***************************************************************************)
(* The thread pool of source/thpool.c that runs every thread of the        *)
(* gateway: a job queue under rwmutex, a binary semaphore has_jobs, and    *)
(* two counters under thcount_lock.                                        *)
(*                                                                         *)
(* A critical section nobody can look into is one action.  jobqueue_push   *)
(* and jobqueue_pull post the semaphore while they hold rwmutex and are    *)
(* split there (rw is the owner of rwmutex); a worker that leaves          *)
(* decrements num_threads_alive, which thpool_destroy polls without the    *)
(* lock, before it unlocks thcount_lock, and is split there.  Failures of  *)
(* malloc (thpool_add_work then returns -1 and changes nothing) are left   *)
(* out.                                                                    *)
(***************************************************************************)
EXTENDS Integers, Sequences, FiniteSets

CONSTANTS
  Workers,  \* the threads thpool_init creates
  Clients,  \* the threads that use the pool
  Jobs,     \* the jobs they submit, each one once
  Finite,   \* the jobs whose function returns
  NoJob,    \* a worker without a job
  Nobody,   \* rwmutex is free
  Calls     \* Calls[c]: the operations client c invokes

CallNames == {"add_work", "wait", "destroy", "pause", "resume"}

ASSUME WorkersAssumption == IsFiniteSet(Workers)
ASSUME JobsAssumption == Finite \subseteq Jobs /\ NoJob \notin Jobs
ASSUME ClientsAssumption ==
  /\ Nobody \notin Workers \cup Clients /\ Workers \cap Clients = {}
  /\ Calls \in [Clients -> SUBSET CallNames]

VARIABLES
  keepalive,  \* threads_keepalive
  on_hold,    \* threads_on_hold
  jobs,       \* the job queue from front to rear; its length is jobqueue.len
  sem,        \* has_jobs->v
  rw,         \* the owner of jobqueue.rwmutex
  alive,      \* num_threads_alive
  working,    \* num_threads_working
  wpc, job,   \* where each worker is, and the job it runs
  pending,    \* the workers with a SIGUSR1 on its way
  held,       \* the workers inside the handler thread_hold
  cpc,        \* where each client is
  before,     \* the jobs a client in thpool_wait found submitted when it called
  submitted, finished,  \* the jobs pushed and the jobs that returned
  freed       \* thpool_destroy has returned

poolState == <<jobs, sem, rw>>
counters == <<alive, working>>
signals == <<on_hold, pending, held>>
history == <<before, submitted, finished>>
vars == <<keepalive, on_hold, jobs, sem, rw, alive, working, wpc, job,
          pending, held, cpc, before, submitted, finished, freed>>

WorkerPCs == {"start", "loop", "sem", "asleep", "check", "count", "pull", "repost",
              "run", "done", "exit", "unlocking", "dead"}
ClientPCs == {"init", "idle", "post", "wait", "wait_asleep", "destroy"}

\* An empty queue with the semaphore at 0; a thread for each worker
jobqueue_init == jobs = <<>> /\ sem = 0 /\ rw = Nobody
thread_init == wpc = [w \in Workers |-> "start"] /\ job = [w \in Workers |-> NoJob]

\* thpool_init, up to the creation of the threads.
Init ==
  /\ keepalive = TRUE /\ on_hold = FALSE
  /\ alive = 0 /\ working = 0
  /\ jobqueue_init /\ thread_init
  /\ pending = {} /\ held = {}
  /\ cpc = [c \in Clients |-> "init"]
  /\ before = [c \in Clients |-> {}] /\ submitted = {} /\ finished = {}
  /\ freed = FALSE

-----------------------------------------------------------------------------
(* The binary semaphore and the counter lock *)

\* bsem_post: v is set and one sleeper, if there is one, re-tests it.  The
\* possible program counters of the workers afterwards, from p:
Posted(p) ==
  IF \E w \in Workers : p[w] = "asleep"
  THEN {[p EXCEPT ![w] = "sem"] : w \in {v \in Workers : p[v] = "asleep"}}
  ELSE {p}

\* bsem_post_all: every sleeper re-tests it
PostedAll == [w \in Workers |-> IF wpc[w] = "asleep" THEN "sem" ELSE wpc[w]]

\* thcount_lock is free unless a leaving worker has not unlocked it yet.
CountLockFree == \A w \in Workers : wpc[w] # "unlocking"

\* pthread_cond_signal(threads_all_idle): one of the clients asleep in
\* thpool_wait re-tests its condition.
SignalAllIdle ==
  IF \E c \in Clients : cpc[c] = "wait_asleep"
  THEN \E c \in Clients : cpc[c] = "wait_asleep" /\ cpc' = [cpc EXCEPT ![c] = "wait"]
  ELSE UNCHANGED cpc

-----------------------------------------------------------------------------
(* thread_do: the life of a worker.  No step is taken inside thread_hold. *)

At(w, where) == wpc[w] = where /\ w \notin held
Goto(w, where) == wpc' = [wpc EXCEPT ![w] = where]

Started(w) ==
  /\ At(w, "start") /\ CountLockFree
  /\ alive' = alive + 1 /\ Goto(w, "loop")
  /\ UNCHANGED <<keepalive, poolState, working, job, signals, cpc, history, freed>>

Loop(w) ==
  /\ At(w, "loop")
  /\ Goto(w, IF keepalive THEN "sem" ELSE "exit")
  /\ UNCHANGED <<keepalive, poolState, counters, job, signals, cpc, history, freed>>

\* bsem_wait
SemWait(w) ==
  /\ At(w, "sem")
  /\ \/ sem = 1 /\ sem' = 0 /\ Goto(w, "check")
     \/ sem # 1 /\ UNCHANGED sem /\ Goto(w, "asleep")
  /\ UNCHANGED <<keepalive, jobs, rw, counters, job, signals, cpc, history, freed>>

SpuriousSem(w) ==
  /\ At(w, "asleep") /\ Goto(w, "sem")
  /\ UNCHANGED <<keepalive, poolState, counters, job, signals, cpc, history, freed>>

\* threads_keepalive is read again after the semaphore.
Check(w) ==
  /\ At(w, "check")
  /\ Goto(w, IF keepalive THEN "count" ELSE "loop")
  /\ UNCHANGED <<keepalive, poolState, counters, job, signals, cpc, history, freed>>

Count(w) ==
  /\ At(w, "count") /\ CountLockFree
  /\ working' = working + 1 /\ Goto(w, "pull")
  /\ UNCHANGED <<keepalive, poolState, alive, job, signals, cpc, history, freed>>

\* (fault) jobqueue_pull does not post for the jobs that are left
PullNoRepost(w) ==
  /\ At(w, "pull") /\ rw = Nobody
  /\ \/ jobs = <<>> /\ Goto(w, "done") /\ UNCHANGED <<jobs, job>>
     \/ /\ jobs # <<>> /\ Goto(w, "run")
        /\ job' = [job EXCEPT ![w] = Head(jobs)] /\ jobs' = Tail(jobs)
  /\ UNCHANGED <<keepalive, sem, rw, counters, signals, cpc, history, freed>>

\* jobqueue_pull; with jobs left it goes on to post the semaphore
Pull(w) ==
  /\ At(w, "pull") /\ rw = Nobody
  /\ \/ /\ jobs = <<>> /\ Goto(w, "done")
        /\ UNCHANGED <<jobs, rw, job>>
     \/ /\ jobs # <<>>
        /\ job' = [job EXCEPT ![w] = Head(jobs)] /\ jobs' = Tail(jobs)
        /\ \/ Len(jobs) = 1 /\ Goto(w, "run") /\ UNCHANGED rw
           \/ Len(jobs) > 1 /\ Goto(w, "repost") /\ rw' = w
  /\ UNCHANGED <<keepalive, sem, counters, signals, cpc, history, freed>>

\* jobqueue_pull posts the semaphore and releases rwmutex
Repost(w) ==
  /\ At(w, "repost")
  /\ sem' = 1 /\ wpc' \in Posted([wpc EXCEPT ![w] = "run"])
  /\ rw' = Nobody
  /\ UNCHANGED <<keepalive, jobs, counters, job, signals, cpc, history, freed>>

\* The job's function returns.
JobReturns(w) ==
  /\ At(w, "run") /\ job[w] \in Finite
  /\ finished' = finished \cup {job[w]} /\ job' = [job EXCEPT ![w] = NoJob]
  /\ Goto(w, "done")
  /\ UNCHANGED <<keepalive, poolState, counters, signals, cpc, before, submitted, freed>>

\* (fault) threads_all_idle is not signalled
DoneSilent(w) ==
  /\ At(w, "done") /\ CountLockFree
  /\ working' = working - 1 /\ Goto(w, "loop")
  /\ UNCHANGED <<keepalive, poolState, alive, job, cpc, signals, history, freed>>

\* thread_do after the job
Done(w) ==
  /\ At(w, "done") /\ CountLockFree
  /\ working' = working - 1 /\ Goto(w, "loop")
  /\ IF working' = 0 THEN SignalAllIdle ELSE UNCHANGED cpc
  /\ UNCHANGED <<keepalive, poolState, alive, job, signals, history, freed>>

Exit(w) ==
  /\ At(w, "exit") /\ CountLockFree
  /\ alive' = alive - 1 /\ Goto(w, "unlocking")
  /\ UNCHANGED <<keepalive, poolState, working, job, signals, cpc, history, freed>>

Unlock(w) ==
  /\ At(w, "unlocking") /\ Goto(w, "dead")
  /\ UNCHANGED <<keepalive, poolState, counters, job, signals, cpc, history, freed>>

\* SIGUSR1 arrives: thread_hold interrupts the worker wherever it is.
Hold(w) ==
  /\ w \in pending \ held
  /\ pending' = pending \ {w} /\ held' = held \cup {w} /\ on_hold' = TRUE
  /\ UNCHANGED <<keepalive, poolState, counters, wpc, job, cpc, history, freed>>

\* thread_hold finds threads_on_hold cleared and returns.
Release(w) ==
  /\ w \in held /\ ~on_hold
  /\ held' = held \ {w}
  /\ UNCHANGED <<keepalive, on_hold, pending, poolState, counters, wpc, job, cpc, history, freed>>

WorkerStep(w) ==
  Started(w) \/ Loop(w) \/ SemWait(w) \/ Check(w) \/ Count(w) \/ Pull(w) \/ Repost(w)
  \/ JobReturns(w) \/ Done(w) \/ Exit(w) \/ Unlock(w) \/ Hold(w) \/ Release(w)

-----------------------------------------------------------------------------
(* The operations of thpool.h *)

\* A client may not use a pool that is being destroyed.
Invoke(c, call) == cpc[c] = "idle" /\ call \in Calls[c] /\ keepalive

\* thpool_init returns when every thread has reported in.
InitReturns(c) ==
  /\ cpc[c] = "init" /\ alive = Cardinality(Workers)
  /\ cpc' = [d \in Clients |-> "idle"]
  /\ UNCHANGED <<keepalive, poolState, counters, wpc, job, signals, history, freed>>

\* (fault) the job is linked in at the front
AddWorkFront(c, j) ==
  /\ Invoke(c, "add_work") /\ j \notin submitted /\ rw = Nobody
  /\ jobs' = <<j>> \o jobs /\ submitted' = submitted \cup {j}
  /\ rw' = c /\ cpc' = [cpc EXCEPT ![c] = "post"]
  /\ UNCHANGED <<keepalive, sem, counters, wpc, job, signals, before, finished, freed>>

\* thpool_add_work, jobqueue_push up to the post
AddWork(c, j) ==
  /\ Invoke(c, "add_work") /\ j \notin submitted /\ rw = Nobody
  /\ jobs' = Append(jobs, j) /\ submitted' = submitted \cup {j}
  /\ rw' = c /\ cpc' = [cpc EXCEPT ![c] = "post"]
  /\ UNCHANGED <<keepalive, sem, counters, wpc, job, signals, before, finished, freed>>

AddWorkPost(c) ==
  /\ cpc[c] = "post"
  /\ sem' = 1 /\ wpc' \in Posted(wpc)
  /\ rw' = Nobody /\ cpc' = [cpc EXCEPT ![c] = "idle"]
  /\ UNCHANGED <<keepalive, jobs, counters, job, signals, history, freed>>

Wait(c) ==
  /\ Invoke(c, "wait")
  /\ before' = [before EXCEPT ![c] = submitted]
  /\ cpc' = [cpc EXCEPT ![c] = "wait"]
  /\ UNCHANGED <<keepalive, poolState, counters, wpc, job, signals, submitted, finished, freed>>

\* (fault) only the queue is looked at, not the jobs that still run
WaitTestQueueOnly(c) ==
  /\ cpc[c] = "wait" /\ CountLockFree
  /\ cpc' = [cpc EXCEPT ![c] = IF Len(jobs) # 0 THEN "wait_asleep" ELSE "idle"]
  /\ before' = IF cpc'[c] = "idle" THEN [before EXCEPT ![c] = {}] ELSE before
  /\ UNCHANGED <<keepalive, poolState, counters, wpc, job, signals, submitted, finished, freed>>

\* thpool_wait, holding thcount_lock: jobqueue.len is read without rwmutex.
WaitTest(c) ==
  /\ cpc[c] = "wait" /\ CountLockFree
  /\ cpc' = [cpc EXCEPT ![c] = IF Len(jobs) # 0 \/ working # 0 THEN "wait_asleep" ELSE "idle"]
  /\ before' = IF cpc'[c] = "idle" THEN [before EXCEPT ![c] = {}] ELSE before
  /\ UNCHANGED <<keepalive, poolState, counters, wpc, job, signals, submitted, finished, freed>>

SpuriousWait(c) ==
  /\ cpc[c] = "wait_asleep"
  /\ cpc' = [cpc EXCEPT ![c] = "wait"]
  /\ UNCHANGED <<keepalive, poolState, counters, wpc, job, signals, history, freed>>

\* thpool_destroy, called when no other client is inside the pool
Destroy(c) ==
  /\ Invoke(c, "destroy") /\ \A d \in Clients : cpc[d] = "idle"
  /\ keepalive' = FALSE /\ cpc' = [cpc EXCEPT ![c] = "destroy"]
  /\ UNCHANGED <<poolState, counters, wpc, job, signals, history, freed>>

\* (fault) the semaphore is set but nobody is woken
DestroyPollSilent(c) ==
  /\ cpc[c] = "destroy" /\ alive # 0
  /\ sem' = 1
  /\ UNCHANGED <<keepalive, jobs, rw, counters, wpc, job, signals, cpc, history, freed>>

\* one round of its two polling loops: bsem_post_all while threads are alive
DestroyPoll(c) ==
  /\ cpc[c] = "destroy" /\ alive # 0
  /\ sem' = 1 /\ wpc' = PostedAll
  /\ UNCHANGED <<keepalive, jobs, rw, counters, job, signals, cpc, history, freed>>

\* (fault) the pool is freed without waiting for the threads
DestroyFreeEarly(c) ==
  /\ cpc[c] = "destroy"
  /\ jobs' = <<>> /\ sem' = 0 /\ freed' = TRUE
  /\ cpc' = [cpc EXCEPT ![c] = "idle"]
  /\ UNCHANGED <<keepalive, rw, counters, wpc, job, signals, history>>

\* What is still queued is dropped
jobqueue_destroy == jobs' = <<>> /\ sem' = 0

\* jobqueue_destroy and the deallocations
DestroyFree(c) ==
  /\ cpc[c] = "destroy" /\ alive = 0
  /\ jobqueue_destroy /\ freed' = TRUE
  /\ cpc' = [cpc EXCEPT ![c] = "idle"]
  /\ UNCHANGED <<keepalive, rw, counters, wpc, job, signals, history>>

\* thpool_pause: one signal to each thread
Pause(c) ==
  /\ Invoke(c, "pause")
  /\ pending' = Workers
  /\ UNCHANGED <<keepalive, on_hold, held, poolState, counters, wpc, job, cpc, history, freed>>

ResumePool(c) ==
  /\ Invoke(c, "resume")
  /\ on_hold' = FALSE
  /\ UNCHANGED <<keepalive, pending, held, poolState, counters, wpc, job, cpc, history, freed>>

ClientFinish(c) ==
  InitReturns(c) \/ AddWorkPost(c) \/ WaitTest(c) \/ DestroyPoll(c) \/ DestroyFree(c)

Next ==
  \/ \E w \in Workers : WorkerStep(w) \/ SpuriousSem(w)
  \/ \E c \in Clients :
       \/ \E j \in Jobs : AddWork(c, j)
       \/ Wait(c) \/ Destroy(c) \/ Pause(c) \/ ResumePool(c)
       \/ ClientFinish(c) \/ SpuriousWait(c)

Spec == Init /\ [][Next]_vars

\* The scheduler runs every runnable thread: workers go on, calls go on.
\* No client is forced to begin a call.
Fairness == /\ \A w \in Workers : WF_vars(WorkerStep(w))
            /\ \A c \in Clients : WF_vars(ClientFinish(c))
FairSpec == Spec /\ Fairness

-----------------------------------------------------------------------------
(* Properties *)

TypeOK ==
  /\ keepalive \in BOOLEAN /\ on_hold \in BOOLEAN /\ freed \in BOOLEAN
  /\ jobs \in Seq(Jobs) /\ sem \in {0, 1} /\ rw \in Workers \cup Clients \cup {Nobody}
  /\ alive \in Int /\ working \in Int
  /\ wpc \in [Workers -> WorkerPCs] /\ job \in [Workers -> Jobs \cup {NoJob}]
  /\ pending \subseteq Workers /\ held \subseteq Workers
  /\ cpc \in [Clients -> ClientPCs] /\ before \in [Clients -> SUBSET Jobs]
  /\ submitted \subseteq Jobs /\ finished \subseteq Jobs

Where(S) == {w \in Workers : wpc[w] \in S}

\* The semaphore is binary and several pushes leave one post; jobqueue_pull
\* posts again while jobs are left.  So a job never waits beside a sleeping
\* worker with nobody on the way to it: somebody is posting, or has taken the
\* semaphore and not pulled yet, or is about to find the semaphore set.
NoStrandedJob ==
  keepalive /\ jobs # <<>> /\ Where({"asleep"}) # {} =>
    \/ rw # Nobody
    \/ Where({"check", "count", "pull"}) # {}
    \/ sem = 1 /\ Where({"sem"}) # {}

\* thpool_wait returns only when every job submitted before the call has
\* finished, although it reads jobqueue.len without rwmutex.
WaitSound ==
  [][\A c \in Clients : cpc[c] = "wait" /\ cpc'[c] = "idle" => before[c] \subseteq finished]_vars

\* When thpool_destroy frees the pool no worker can reach the queue, the
\* semaphore or a job any more, and nothing that was begun is unfinished.
DestroyedIsQuiet ==
  freed => /\ Where({"unlocking", "dead"}) = Workers
           /\ \A w \in Workers : job[w] = NoJob

\* A thread in thpool_wait continues once all work has completed.
WaitersReturn ==
  \A c \in Clients : <>[](jobs = <<>> /\ working = 0) => []<>(cpc[c] # "wait_asleep")

\* No pause is in force or on its way.  (A SIGUSR1 that arrives after thpool_resume
\* sets threads_on_hold again, and its worker waits for the next thpool_resume.)
Unpaused == pending = {} /\ ~on_hold

\* thpool_destroy comes to an end when the running jobs do, unless the pool is
\* paused: then nobody can resume it any more.
DestroyReturns == \A c \in Clients : (cpc[c] = "destroy" /\ Unpaused) ~> freed

\* The pool implements the abstract one, also when workers are paused at any point:
\* jobs start in submission order, each once; and once the last pause is over, a
\* free worker starts the next job (thpool.h: the threads return to their previous
\* states, and work can be added meanwhile).
Pool == INSTANCE JobPool WITH queued <- jobs, running <- job, open <- keepalive
ImplementsPool == Pool!PoolSpec
ImplementsLivePool == ImplementsPool /\ (<>[]Unpaused => Pool!StartsJobs)
=============================================================================
