----------------------------- MODULE ThreadPool -----------------------------
(***************************************************************************)
(* util::ThreadPool with its AppLLQueue of jobs.  One owner makes the pool, *)
(* gives it jobs, calls stop, and destroys it, which calls stop again.     *)
(* A WorkerThread is a pool of one thread.                                 *)
(***************************************************************************)
EXTENDS Naturals, Sequences, FiniteSets

CONSTANTS MaxCount,     \* threads of a pool at most
          Job           \* jobs the owner may have, numbers

ThreadPoolAssumption == MaxCount \in Nat \ {0} /\ Job \subseteq Nat \ {0}
ASSUME ThreadPoolAssumption

Index == 0 .. MaxCount - 1
Terminate == 0               \* the job whose terminate is set

VARIABLES poolSize,     \* threads of this pool
          pool,         \* where each thread is
          poolFlag,     \* ThreadOfPool::running
          jobQueue, waitForJob,
          jobOf,        \* the job a thread has taken
          waitToTerminate, turnedOffIndex,
          owner,        \* where the owner is
          loop,           \* its loop counter
          stops,        \* calls of stop
          started, finished   \* of jobs: how often each was called, and returned

threadVars == <<pool, poolFlag, jobOf>>
queueVars == <<jobQueue, waitForJob>>
stopVars == <<waitToTerminate, turnedOffIndex, stops>>
jobVars == <<started, finished>>
poolVars == <<poolSize, threadVars, queueVars, stopVars, jobVars, owner, loop>>

PoolInit ==
  /\ poolSize \in 1 .. MaxCount
  /\ pool = [i \in Index |-> "none"] /\ poolFlag = [i \in Index |-> FALSE]
  /\ jobQueue = <<>> /\ waitForJob = 0 /\ jobOf = [i \in Index |-> Terminate]
  /\ waitToTerminate = 0 /\ turnedOffIndex = 0
  /\ owner = "new" /\ loop = 0 /\ stops = 0
  /\ started = [j \in Job |-> 0] /\ finished = [j \in Job |-> 0]

-----------------------------------------------------------------------------
(* run: the owner marks a thread as running after the thread may have begun.  *)

CreateThread ==
  /\ owner = "new" /\ owner' = "created"
  /\ pool' = [pool EXCEPT ![loop] = "begin"]
  /\ UNCHANGED <<poolSize, poolFlag, jobOf, queueVars, stopVars, jobVars, loop>>

MarkRunning ==
  /\ owner = "created"
  /\ poolFlag' = [poolFlag EXCEPT ![loop] = TRUE]
  /\ loop' = loop + 1 /\ owner' = IF loop' = poolSize THEN "using" ELSE "new"
  /\ UNCHANGED <<poolSize, pool, jobOf, queueVars, stopVars, jobVars>>

\* putJob, under getJobLock.
PutJob(j) == jobQueue' = Append(jobQueue, j) /\ waitForJob' = waitForJob + 1

ExecuteInsidePool(j) ==
  /\ owner = "using" /\ started[j] = 0 /\ finished[j] = 0
  /\ \A i \in DOMAIN jobQueue : jobQueue[i] # j
  /\ \A i \in Index : pool[i] \in {"took", "busy"} => jobOf[i] # j
  /\ PutJob(j)
  /\ UNCHANGED <<poolSize, threadVars, stopVars, jobVars, owner, loop>>

-----------------------------------------------------------------------------
(* func, the threads.                                                         *)

BeginThread(i) ==
  /\ pool[i] = "begin" /\ pool' = [pool EXCEPT ![i] = "wait"]
  /\ poolFlag' = [poolFlag EXCEPT ![i] = TRUE]
  /\ UNCHANGED <<poolSize, jobOf, queueVars, stopVars, jobVars, owner, loop>>

\* getJob: first the semaphore, then the queue under its lock.
GetToken(i) ==
  /\ pool[i] = "wait" /\ waitForJob > 0
  /\ waitForJob' = waitForJob - 1 /\ pool' = [pool EXCEPT ![i] = "token"]
  /\ UNCHANGED <<poolSize, poolFlag, jobOf, jobQueue, stopVars, jobVars, owner, loop>>

\* Mutant of GetJob: the job stays in the queue.
GetJobAgain(i) ==
  /\ pool[i] = "token" /\ jobQueue # <<>>
  /\ pool' = [pool EXCEPT ![i] = "took"] /\ jobOf' = [jobOf EXCEPT ![i] = Head(jobQueue)]
  /\ UNCHANGED <<poolSize, poolFlag, queueVars, stopVars, jobVars, owner, loop>>

GetJob(i) ==
  /\ pool[i] = "token" /\ jobQueue # <<>>
  /\ jobQueue' = Tail(jobQueue)
  /\ pool' = [pool EXCEPT ![i] = "took"] /\ jobOf' = [jobOf EXCEPT ![i] = Head(jobQueue)]
  /\ UNCHANGED <<poolSize, poolFlag, waitForJob, stopVars, jobVars, owner, loop>>

CallJob(i) ==
  /\ pool[i] = "took" /\ jobOf[i] # Terminate
  /\ pool' = [pool EXCEPT ![i] = "busy"]
  /\ started' = [started EXCEPT ![jobOf[i]] = @ + 1]
  /\ UNCHANGED <<poolSize, poolFlag, jobOf, queueVars, stopVars, finished, owner, loop>>

FinishJob(i) ==
  /\ pool[i] = "busy" /\ pool' = [pool EXCEPT ![i] = "wait"]
  /\ finished' = [finished EXCEPT ![jobOf[i]] = @ + 1]
  /\ UNCHANGED <<poolSize, poolFlag, jobOf, queueVars, stopVars, started, owner, loop>>

EndThread(i) ==
  /\ pool[i] = "took" /\ jobOf[i] = Terminate
  /\ pool' = [pool EXCEPT ![i] = "ended"] /\ poolFlag' = [poolFlag EXCEPT ![i] = FALSE]
  /\ turnedOffIndex' = i /\ waitToTerminate' = waitToTerminate + 1
  /\ UNCHANGED <<poolSize, jobOf, queueVars, stops, jobVars, owner, loop>>

-----------------------------------------------------------------------------
(* stop: one terminate job for every thread whose flag is still set when the  *)
(* loop gets there; any thread may take it.                                   *)

Stop ==
  /\ owner \in {"using", "stopped"} /\ stops < 2
  /\ owner' = "stopping" /\ loop' = 0 /\ stops' = stops + 1
  /\ UNCHANGED <<poolSize, threadVars, queueVars, waitToTerminate, turnedOffIndex, jobVars>>

TestThread ==
  /\ owner = "stopping"
  /\ IF loop = poolSize THEN owner' = "stopped" /\ UNCHANGED <<loop, queueVars>>
     ELSE IF poolFlag[loop] THEN owner' = "waiting" /\ PutJob(Terminate) /\ UNCHANGED loop
     ELSE loop' = loop + 1 /\ UNCHANGED <<owner, queueVars>>
  /\ UNCHANGED <<poolSize, threadVars, stopVars, jobVars>>

WaitToTerminate ==
  /\ owner = "waiting" /\ waitToTerminate > 0
  /\ waitToTerminate' = waitToTerminate - 1 /\ owner' = "joining"
  /\ UNCHANGED <<poolSize, threadVars, queueVars, turnedOffIndex, stops, jobVars, loop>>

Join ==
  /\ owner = "joining" /\ pool[turnedOffIndex] = "ended"
  /\ pool' = [pool EXCEPT ![turnedOffIndex] = "joined"]
  /\ owner' = "stopping" /\ loop' = loop + 1
  /\ UNCHANGED <<poolSize, poolFlag, jobOf, queueVars, stopVars, jobVars>>

PoolThreads ==
  \E i \in Index : BeginThread(i) \/ GetToken(i) \/ GetJob(i) \/ CallJob(i) \/ FinishJob(i) \/ EndThread(i)
PoolRun == CreateThread \/ MarkRunning \/ TestThread \/ WaitToTerminate \/ Join \/ PoolThreads
PoolNext == PoolRun \/ (\E j \in Job : ExecuteInsidePool(j)) \/ Stop

\* Threads run and jobs come to an end; every such step uses something up.
PoolSpec == PoolInit /\ [][PoolNext]_poolVars
PoolFairSpec == PoolSpec /\ WF_poolVars(PoolRun)

-----------------------------------------------------------------------------
Alive == {i \in Index : pool[i] \notin {"none", "joined"}}

\* A job is called once; a thread asks for one only when one is there; when stop
\* returns every job it was given before has been taken, by a WorkerThread also
\* finished; and a pool of up to three threads outlives none of them, the second
\* call of stop, in the destructor, having found those the first one missed.
JobsCalledOnce ==
  /\ \A j \in Job : started[j] <= 1 /\ finished[j] <= started[j]
  /\ waitForJob + Cardinality({i \in Index : pool[i] = "token"}) = Len(jobQueue)
  /\ owner = "stopped" => jobQueue = <<>>
  /\ owner = "stopped" /\ poolSize = 1 => started = finished
  /\ owner = "stopped" /\ stops = 2 /\ poolSize <= 3 => Alive = {}

\* stop returns.
StopReturns == owner = "stopping" ~> owner = "stopped"
=============================================================================
