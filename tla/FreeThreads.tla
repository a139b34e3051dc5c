----------------------------- MODULE FreeThreads ----------------------------
(***************************************************************************)
(* The thread pool of common_lib/appThread.c: a stack of free threads,     *)
(* each with a buffer for its job and two semaphores; a caller without a   *)
(* free thread sleeps on waitToFreeUp.                                     *)
(***************************************************************************)
EXTENDS Naturals, Sequences, FiniteSets, SequencesExt

CONSTANTS Threads,      \* maxThreadCnt
          Caller,       \* threads that call runInThreadPool, once each
          CallFaults    \* conditions the code does not provide for, see the actions

Slot == 0 .. Threads - 1
NoSlot == Threads
Nothing == "nothing"
End == "end"                 \* appTerminateThreadFromPool

FreeThreadsAssumption ==
  Threads \in Nat \ {0} /\ CallFaults \subseteq {"twoWaiters"} /\ End \notin Caller
ASSUME FreeThreadsAssumption

VARIABLES worker,       \* where each thread of the pool is
          buf,          \* its job
          jobSem, rcvdSem,   \* waitForJob and jobRcvd
          infoPool,     \* free threads, the top of the stack last
          waitToFreeUp, finishSem,
          caller,       \* where each caller is
          mine,         \* the thread it got
          ran,          \* jobs that were called, in that order
          destroyer     \* how many threads destroyThreadPool has ended, and its place

ftVars == <<worker, buf, jobSem, rcvdSem, infoPool, waitToFreeUp, finishSem, caller, mine, ran, destroyer>>

FreeThreadsInit ==
  /\ worker = [i \in Slot |-> "wait"] /\ buf = [i \in Slot |-> Nothing]
  /\ jobSem = [i \in Slot |-> 0] /\ rcvdSem = [i \in Slot |-> 0]
  /\ infoPool = [k \in 1 .. Threads |-> k - 1] /\ waitToFreeUp = 0 /\ finishSem = 0
  /\ caller = [c \in Caller |-> "new"] /\ mine = [c \in Caller |-> NoSlot]
  /\ ran = <<>> /\ destroyer = [pc |-> "off", at |-> 0]

-----------------------------------------------------------------------------
(* threadWaitForJob.                                                          *)

TakeJob(i) ==
  /\ worker[i] = "wait" /\ jobSem[i] > 0
  /\ jobSem' = [jobSem EXCEPT ![i] = @ - 1] /\ rcvdSem' = [rcvdSem EXCEPT ![i] = @ + 1]
  /\ worker' = [worker EXCEPT ![i] = IF buf[i] = End THEN "ending" ELSE "busy"]
  /\ ran' = IF buf[i] = End THEN ran ELSE Append(ran, buf[i])
  /\ UNCHANGED <<buf, infoPool, waitToFreeUp, finishSem, caller, mine, destroyer>>

\* addFreeThread: whoever waits is told only when the stack was empty.
AddFreeThread(i) ==
  /\ worker[i] = "busy" /\ worker' = [worker EXCEPT ![i] = "wait"]
  /\ infoPool' = Append(infoPool, i)
  /\ waitToFreeUp' = IF infoPool = <<>> THEN waitToFreeUp + 1 ELSE waitToFreeUp
  /\ UNCHANGED <<buf, jobSem, rcvdSem, finishSem, caller, mine, ran, destroyer>>

EndSlot(i) ==
  /\ worker[i] = "ending" /\ worker' = [worker EXCEPT ![i] = "ended"]
  /\ finishSem' = finishSem + 1
  /\ UNCHANGED <<buf, jobSem, rcvdSem, infoPool, waitToFreeUp, caller, mine, ran, destroyer>>

-----------------------------------------------------------------------------
(* runInThreadPool.  A second caller may find no thread while one sleeps      *)
(* ("twoWaiters"): of two threads that become free only the first is told of. *)

Asleep == {c \in Caller : caller[c] = "sleep"}

\* Mutant of Popped: the thread stays on the stack.
PoppedNot == infoPool

Popped == Front(infoPool)

GetFreeThread(c) ==
  /\ caller[c] \in {"new", "look"}
  /\ destroyer.pc = "off"
  /\ IF infoPool # <<>>
       THEN /\ mine' = [mine EXCEPT ![c] = Last(infoPool)] /\ infoPool' = Popped
            /\ caller' = [caller EXCEPT ![c] = "got"]
       ELSE /\ "twoWaiters" \in CallFaults \/ Asleep \cup {d \in Caller : caller[d] = "look"} \subseteq {c}
            /\ caller' = [caller EXCEPT ![c] = "sleep"] /\ UNCHANGED <<mine, infoPool>>
  /\ UNCHANGED <<worker, buf, jobSem, rcvdSem, waitToFreeUp, finishSem, ran, destroyer>>

WakeUp(c) ==
  /\ caller[c] = "sleep" /\ waitToFreeUp > 0
  /\ waitToFreeUp' = waitToFreeUp - 1 /\ caller' = [caller EXCEPT ![c] = "look"]
  /\ UNCHANGED <<worker, buf, jobSem, rcvdSem, infoPool, finishSem, mine, ran, destroyer>>

PostJob(c) ==
  /\ caller[c] = "got" /\ caller' = [caller EXCEPT ![c] = "posted"]
  /\ buf' = [buf EXCEPT ![mine[c]] = c]
  /\ jobSem' = [jobSem EXCEPT ![mine[c]] = @ + 1]
  /\ UNCHANGED <<worker, rcvdSem, infoPool, waitToFreeUp, finishSem, mine, ran, destroyer>>

Received(c) ==
  /\ caller[c] = "posted" /\ rcvdSem[mine[c]] > 0
  /\ rcvdSem' = [rcvdSem EXCEPT ![mine[c]] = @ - 1]
  /\ caller' = [caller EXCEPT ![c] = "done"]
  /\ UNCHANGED <<worker, buf, jobSem, infoPool, waitToFreeUp, finishSem, mine, ran, destroyer>>

-----------------------------------------------------------------------------
(* destroyThreadPool, once nobody calls any more; threads may be busy.        *)

PostEnd ==
  /\ destroyer.pc = "off" /\ destroyer.at < Threads
  /\ \A c \in Caller : caller[c] = "done"
  /\ buf' = [buf EXCEPT ![destroyer.at] = End]
  /\ jobSem' = [jobSem EXCEPT ![destroyer.at] = @ + 1]
  /\ destroyer' = [destroyer EXCEPT !.pc = "posted"]
  /\ UNCHANGED <<worker, rcvdSem, infoPool, waitToFreeUp, finishSem, caller, mine, ran>>

AwaitEnd ==
  /\ destroyer.pc = "posted" /\ rcvdSem[destroyer.at] > 0 /\ finishSem > 0
  /\ rcvdSem' = [rcvdSem EXCEPT ![destroyer.at] = @ - 1] /\ finishSem' = finishSem - 1
  /\ destroyer' = [pc |-> "off", at |-> destroyer.at + 1]
  /\ UNCHANGED <<worker, buf, jobSem, infoPool, waitToFreeUp, caller, mine, ran>>

FreeThreadsNext ==
  \/ \E i \in Slot : TakeJob(i) \/ AddFreeThread(i) \/ EndSlot(i)
  \/ \E c \in Caller : GetFreeThread(c) \/ WakeUp(c) \/ PostJob(c) \/ Received(c)
  \/ PostEnd \/ AwaitEnd

\* Jobs end, threads and callers run; every step uses something up.
FreeThreadsSpec == FreeThreadsInit /\ [][FreeThreadsNext]_ftVars
FreeThreadsFairSpec == FreeThreadsSpec /\ WF_ftVars(FreeThreadsNext)

-----------------------------------------------------------------------------
\* A thread belongs to one caller or to the stack; a job that was posted is called
\* once, and until then nothing else is left in its thread's buffer, not even by
\* destroyThreadPool.
JobsNotMixed ==
  LET got == {c \in Caller : caller[c] = "got"}
      posted == {c \in Caller : caller[c] \in {"posted", "done"}}
  IN /\ \A c, d \in got : mine[c] = mine[d] => c = d
     /\ \A c \in got : mine[c] \notin ToSet(infoPool)
     /\ \A i, j \in DOMAIN ran : ran[i] = ran[j] => i = j
     /\ \A c \in posted : c \in ToSet(ran) \/ (buf[mine[c]] = c /\ jobSem[mine[c]] = 1)

\* Every call is served, and then the pool can be destroyed: all threads end.
PoolEnded == \A i \in Slot : worker[i] = "ended"
PoolEnds == <>PoolEnded
=============================================================================
