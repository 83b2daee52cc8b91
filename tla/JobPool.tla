------------------------------ MODULE JobPool -------------------------------
(***************************************************************************)
(* What source/thpool.h promises of a thread pool, without its locks: jobs *)
(* are started in the order in which they were submitted, each at most     *)
(* once, and a free worker starts the next one.                            *)
(***************************************************************************)
EXTENDS Naturals, Sequences

CONSTANTS
  Workers,  \* the threads of the pool
  Jobs,     \* the jobs submitted over time, each one once
  Finite,   \* the jobs that return; the others run forever
  NoJob     \* what a free worker runs

VARIABLES queued, running, finished, open
poolVars == <<queued, running, finished, open>>

\* The jobs the pool has been given and still knows of, or has finished.
Held == {queued[i] : i \in 1..Len(queued)} \cup {running[w] : w \in Workers} \cup finished

PoolInit ==
  /\ queued = <<>>
  /\ running = [w \in Workers |-> NoJob]
  /\ finished = {}
  /\ open = TRUE

\* thpool_add_work
Submit(j) ==
  /\ open /\ j \notin Held
  /\ queued' = Append(queued, j)
  /\ UNCHANGED <<running, finished, open>>

\* A free worker takes the oldest job.
Start(w) ==
  /\ running[w] = NoJob /\ queued # <<>>
  /\ running' = [running EXCEPT ![w] = Head(queued)]
  /\ queued' = Tail(queued)
  /\ UNCHANGED <<finished, open>>

\* The job's function returns.
Finish(w) ==
  /\ running[w] \in Finite
  /\ finished' = finished \cup {running[w]}
  /\ running' = [running EXCEPT ![w] = NoJob]
  /\ UNCHANGED <<queued, open>>

\* thpool_destroy: no job is accepted any more ...
Shut ==
  /\ open /\ open' = FALSE
  /\ UNCHANGED <<queued, running, finished>>

\* ... and what is still queued when the last worker left is dropped.
Drop ==
  /\ ~open /\ \A w \in Workers : running[w] = NoJob
  /\ queued' = <<>>
  /\ UNCHANGED <<running, finished, open>>

PoolNext ==
  \/ \E j \in Jobs : Submit(j)
  \/ \E w \in Workers : Start(w) \/ Finish(w)
  \/ Shut \/ Drop

PoolSpec == PoolInit /\ [][PoolNext]_poolVars

\* While a worker is free and a job is queued, some job is started.
StartsJobs == WF_poolVars(open /\ \E w \in Workers : Start(w))
LivePool == PoolSpec /\ StartsJobs
=============================================================================
