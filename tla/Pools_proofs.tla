---------------------------- MODULE Pools_proofs ----------------------------
(***************************************************************************)
(* The proofs about what threads share: the two pools of threads, the      *)
(* pool of buffers that frames are sent from, and packets and their pools. *)
(* Each has an inductive invariant of its own; the lemmas on sequences are *)
(* those of Waits_proofs.                                                  *)
(***************************************************************************)
EXTENDS FreeThreads, ThreadPool, Frames, PacketPool, Waits_proofs

\* The C pool of threads (FreeThreads).

(***************************************************************************)
(* The C pool.                                                             *)
(***************************************************************************)
\* Callers that wait for slot i to take their job.
Posted(i) == {c \in Caller : caller[c] = "posted" /\ mine[c] = i}

\* destroyThreadPool has begun.
Destroying == destroyer.pc # "off" \/ destroyer.at > 0

\* Which values the variables of the C pool have.
SlotTypes ==
  /\ worker \in [Slot -> {"wait", "busy", "ending", "ended"}]
  /\ buf = [i \in Slot |-> buf[i]]
  /\ jobSem \in [Slot -> 0 .. 1] /\ rcvdSem \in [Slot -> Nat]
  /\ infoPool \in Seq(Slot) /\ Unique(infoPool)
  /\ caller \in [Caller -> {"new", "sleep", "look", "got", "posted", "done"}]
  /\ mine \in [Caller -> 0 .. Threads]
  /\ ran \in Seq(Caller) /\ Unique(ran)
  /\ destroyer \in [pc : {"off", "posted"}, at : Nat]

\* A slot is on the stack, with a caller that will post its job, waits for the worker
\* with a job, or is busy with one.
SlotPlaces ==
  /\ \A i \in ToSet(infoPool) : worker[i] # "busy" /\ (jobSem[i] = 1 => buf[i] = End)
  /\ \A c \in Caller : caller[c] = "got" =>
       /\ mine[c] \in Slot /\ mine[c] \notin ToSet(infoPool)
       /\ worker[mine[c]] = "wait" /\ jobSem[mine[c]] = 0
  /\ \A c, d \in Caller : caller[c] = "got" /\ caller[d] = "got" /\ mine[c] = mine[d] => c = d
  /\ \A i \in Slot : jobSem[i] = 1 /\ buf[i] # End =>
       /\ buf[i] \in Caller /\ caller[buf[i]] \in {"posted", "done"} /\ mine[buf[i]] = i
       /\ buf[i] \notin ToSet(ran) /\ worker[i] = "wait"
  /\ \A c \in Caller : caller[c] \in {"posted", "done"} =>
       mine[c] \in Slot /\ (c \in ToSet(ran) \/ (buf[mine[c]] = c /\ jobSem[mine[c]] = 1))
  /\ \A c \in ToSet(ran) : caller[c] \in {"posted", "done"}

\* A worker took the jobs its callers were told of and those they have still to be told
\* of: when no caller waits, none is left to take.
SlotCounts ==
  /\ \A i \in Slot : worker[i] \in {"ending", "ended"} \/ (jobSem[i] = 1 /\ buf[i] = End) => Destroying
  /\ ~Destroying => \A i \in Slot :
       IsFiniteSet(Posted(i)) /\ jobSem[i] + rcvdSem[i] = Cardinality(Posted(i))
  /\ Destroying =>
       /\ \A c \in Caller : caller[c] = "done"
       /\ \A i \in Slot : jobSem[i] = 1 =>
            buf[i] = End /\ (i < destroyer.at \/ (i = destroyer.at /\ destroyer.pc = "posted"))

\* The inductive invariant of the C pool.
SlotInv == SlotTypes /\ SlotPlaces /\ SlotCounts

\* Every thread is free and nobody called.
LEMMA SlotInitInv == FreeThreadsInit => SlotInv
<1> SUFFICES ASSUME FreeThreadsInit PROVE SlotInv
  OBVIOUS
<1> DEFINE all == [k \in 1 .. Threads |-> k - 1]
<1>1. Threads \in Nat /\ Threads > 0
  BY FreeThreadsAssumption DEF FreeThreadsAssumption
<1>2. all \in Seq(Slot)
  <2>1. \A k \in 1 .. Threads : k - 1 \in Slot
    BY <1>1 DEF Slot
  <2>2. QED
    BY <1>1, <2>1, IsASeq
<1>3. Unique(all)
  <2>1. Len(all) = Threads
    BY <1>1, <1>2, LenProperties
  <2>2. QED
    BY <1>1, <2>1 DEF Unique
<1>4. SlotTypes
  <2>1. <<>> \in Seq(Caller) /\ Unique(<<>>) /\ infoPool = all /\ ran = <<>>
    BY EmptySeq DEF Unique, FreeThreadsInit
  <2>2. QED
    BY <1>1, <1>2, <1>3, <2>1 DEF FreeThreadsInit, SlotTypes, NoSlot
<1>5. ToSet(ran) = {}
  BY DEF FreeThreadsInit, ToSet
<1>6. ToSet(infoPool) \subseteq Slot
  BY <1>2, Elements DEF FreeThreadsInit
<1>7. SlotPlaces
  BY <1>5, <1>6 DEF FreeThreadsInit, SlotPlaces
<1>8. \A i : Posted(i) = {}
  BY DEF FreeThreadsInit, Posted
<1>9. SlotCounts
  <2>1. IsFiniteSet({}) /\ Cardinality({}) = 0
    BY FS_EmptySet
  <2>2. ~Destroying
    BY DEF FreeThreadsInit, Destroying
  <2>3. \A i \in Slot : worker[i] = "wait" /\ jobSem[i] = 0 /\ rcvdSem[i] = 0
    BY DEF FreeThreadsInit
  <2>4. QED
    BY <1>8, <2>1, <2>2, <2>3 DEF SlotCounts
<1>10. QED
  BY <1>4, <1>7, <1>9 DEF SlotInv

\* A thread that was posted takes the job its slot holds.
LEMMA TakeJobKeeps ==
  ASSUME SlotInv, NEW i \in Slot, TakeJob(i)
  PROVE  SlotInv'
<1>1. /\ worker[i] = "wait" /\ jobSem[i] = 1
      /\ jobSem' = [jobSem EXCEPT ![i] = @ - 1] /\ rcvdSem' = [rcvdSem EXCEPT ![i] = @ + 1]
      /\ worker' = [worker EXCEPT ![i] = IF buf[i] = End THEN "ending" ELSE "busy"]
      /\ ran' = IF buf[i] = End THEN ran ELSE Append(ran, buf[i])
      /\ UNCHANGED <<buf, infoPool, caller, mine, destroyer>>
  BY DEF TakeJob, SlotInv, SlotTypes
<1>2. /\ jobSem' \in [Slot -> 0 .. 1] /\ rcvdSem' \in [Slot -> Nat] /\ jobSem'[i] = 0
      /\ rcvdSem'[i] = rcvdSem[i] + 1
      /\ \A j \in Slot : j # i => jobSem'[j] = jobSem[j] /\ rcvdSem'[j] = rcvdSem[j] /\ worker'[j] = worker[j]
      /\ worker' \in [Slot -> {"wait", "busy", "ending", "ended"}]
  BY <1>1 DEF SlotInv, SlotTypes
<1>3. /\ ran' \in Seq(Caller) /\ Unique(ran')
      /\ ToSet(ran') = IF buf[i] = End THEN ToSet(ran) ELSE ToSet(ran) \cup {buf[i]}
  <2>1. CASE buf[i] = End
    BY <1>1, <2>1 DEF SlotInv, SlotTypes
  <2>2. CASE buf[i] # End
    <3>1. buf[i] \in Caller /\ buf[i] \notin ToSet(ran)
      BY <1>1, <2>2 DEF SlotInv, SlotPlaces
    <3>2. QED
      BY <1>1, <2>2, <3>1, AppendElements DEF SlotInv, SlotTypes
  <2>3. QED
    BY <2>1, <2>2
<1>4. SlotTypes'
  BY <1>1, <1>2, <1>3 DEF SlotInv, SlotTypes
<1>5. buf[i] # End => /\ buf[i] \in Caller /\ caller[buf[i]] \in {"posted", "done"} /\ mine[buf[i]] = i
                      /\ i \notin ToSet(infoPool)
  BY <1>1 DEF SlotInv, SlotPlaces
<1>6. \A c \in Caller : caller[c] = "got" => mine[c] # i
  BY <1>1 DEF SlotInv, SlotPlaces
<1>7. ToSet(infoPool) \subseteq Slot
  BY Elements DEF SlotInv, SlotTypes
<1>8. (\A j \in ToSet(infoPool) : worker[j] # "busy" /\ (jobSem[j] = 1 => buf[j] = End))'
  <2> SUFFICES ASSUME NEW j \in ToSet(infoPool)
               PROVE  worker'[j] # "busy" /\ (jobSem'[j] = 1 => buf[j] = End)
    BY <1>1
  <2>1. CASE j = i
    BY <1>1, <1>2, <1>5, <2>1 DEF SlotInv, SlotTypes
  <2>2. CASE j # i
    BY <1>2, <1>7, <2>2 DEF SlotInv, SlotPlaces
  <2>3. QED
    BY <2>1, <2>2
<1>9. (\A c \in Caller : caller[c] = "got" =>
         /\ mine[c] \in Slot /\ mine[c] \notin ToSet(infoPool)
         /\ worker[mine[c]] = "wait" /\ jobSem[mine[c]] = 0)'
  BY <1>1, <1>2, <1>6 DEF SlotInv, SlotPlaces
<1>10. (\A j \in Slot : jobSem[j] = 1 /\ buf[j] # End =>
         /\ buf[j] \in Caller /\ caller[buf[j]] \in {"posted", "done"} /\ mine[buf[j]] = j
         /\ buf[j] \notin ToSet(ran) /\ worker[j] = "wait")'
  <2> SUFFICES ASSUME NEW j \in Slot, jobSem'[j] = 1, buf[j] # End
               PROVE  /\ buf[j] \in Caller /\ caller[buf[j]] \in {"posted", "done"} /\ mine[buf[j]] = j
                      /\ buf[j] \notin ToSet(ran') /\ worker'[j] = "wait"
    BY <1>1
  <2>1. j # i /\ jobSem[j] = 1
    BY <1>2
  <2>2. /\ buf[j] \in Caller /\ caller[buf[j]] \in {"posted", "done"} /\ mine[buf[j]] = j
        /\ buf[j] \notin ToSet(ran) /\ worker[j] = "wait"
    BY <2>1 DEF SlotInv, SlotPlaces
  <2>3. buf[i] # End => buf[i] # buf[j]
    BY <1>5, <2>1, <2>2
  <2>4. QED
    BY <1>2, <1>3, <2>1, <2>2, <2>3
<1>11. (\A c \in Caller : caller[c] \in {"posted", "done"} =>
          mine[c] \in Slot /\ (c \in ToSet(ran) \/ (buf[mine[c]] = c /\ jobSem[mine[c]] = 1)))'
  <2> SUFFICES ASSUME NEW c \in Caller, caller[c] \in {"posted", "done"}
               PROVE  mine[c] \in Slot
                      /\ (c \in ToSet(ran') \/ (buf[mine[c]] = c /\ jobSem'[mine[c]] = 1))
    BY <1>1
  <2>1. mine[c] \in Slot /\ (c \in ToSet(ran) \/ (buf[mine[c]] = c /\ jobSem[mine[c]] = 1))
    BY DEF SlotInv, SlotPlaces
  <2>2. CASE mine[c] = i /\ buf[i] = c
    <3>1. c # End
      BY FreeThreadsAssumption DEF FreeThreadsAssumption
    <3>2. QED
      BY <1>3, <2>1, <2>2, <3>1
  <2>3. CASE ~(mine[c] = i /\ buf[i] = c)
    BY <1>2, <1>3, <2>1, <2>3
  <2>4. QED
    BY <2>2, <2>3
<1>12. (\A c \in ToSet(ran) : caller[c] \in {"posted", "done"})'
  BY <1>1, <1>3, <1>5 DEF SlotInv, SlotPlaces
<1>13. SlotPlaces'
  <2>1. (\A c, d \in Caller : caller[c] = "got" /\ caller[d] = "got" /\ mine[c] = mine[d] => c = d)'
    BY <1>1 DEF SlotInv, SlotPlaces
  <2>2. QED
    BY <1>8, <1>9, <1>10, <1>11, <1>12, <2>1 DEF SlotPlaces
<1>14. Destroying' = Destroying /\ \A j : Posted(j)' = Posted(j)
  BY <1>1 DEF Destroying, Posted
<1>15. SlotCounts'
  <2>1. (\A j \in Slot : worker[j] \in {"ending", "ended"} \/ (jobSem[j] = 1 /\ buf[j] = End) => Destroying)'
    BY <1>1, <1>2, <1>14 DEF SlotInv, SlotCounts, SlotTypes
  <2>2. ASSUME ~Destroying, NEW j \in Slot
        PROVE  IsFiniteSet(Posted(j)') /\ jobSem'[j] + rcvdSem'[j] = Cardinality(Posted(j)')
    BY <1>1, <1>2, <1>14, <2>2 DEF SlotInv, SlotCounts, SlotTypes
  <2>3. ASSUME Destroying
        PROVE  /\ \A c \in Caller : caller'[c] = "done"
               /\ \A j \in Slot : jobSem'[j] = 1 =>
                    buf'[j] = End /\ (j < destroyer'.at \/ (j = destroyer'.at /\ destroyer'.pc = "posted"))
    BY <1>1, <1>2, <2>3 DEF SlotInv, SlotCounts
  <2>4. QED
    BY <1>14, <2>1, <2>2, <2>3 DEF SlotCounts
<1>16. QED
  BY <1>4, <1>13, <1>15 DEF SlotInv

\* A thread whose job is done goes back behind the free ones.
LEMMA AddFreeThreadKeeps ==
  ASSUME SlotInv, NEW i \in Slot, AddFreeThread(i)
  PROVE  SlotInv'
<1>1. /\ worker[i] = "busy" /\ worker' = [worker EXCEPT ![i] = "wait"]
      /\ infoPool' = Append(infoPool, i)
      /\ UNCHANGED <<buf, jobSem, rcvdSem, caller, mine, ran, destroyer>>
  BY DEF AddFreeThread
<1>2. /\ worker' \in [Slot -> {"wait", "busy", "ending", "ended"}] /\ worker'[i] = "wait"
      /\ \A j \in Slot : j # i => worker'[j] = worker[j]
  BY <1>1 DEF SlotInv, SlotTypes
<1>3. i \notin ToSet(infoPool)
  BY <1>1 DEF SlotInv, SlotPlaces
<1>4. /\ infoPool' \in Seq(Slot) /\ Unique(infoPool') /\ ToSet(infoPool') = ToSet(infoPool) \cup {i}
  BY <1>1, <1>3, AppendElements DEF SlotInv, SlotTypes
<1>5. SlotTypes'
  BY <1>1, <1>2, <1>4 DEF SlotInv, SlotTypes
<1>6. ToSet(infoPool) \subseteq Slot
  BY Elements DEF SlotInv, SlotTypes
<1>7. jobSem[i] = 1 => buf[i] = End
  BY <1>1 DEF SlotInv, SlotPlaces
<1>8. \A c \in Caller : caller[c] = "got" => mine[c] # i
  BY <1>1 DEF SlotInv, SlotPlaces
<1>9. SlotPlaces'
  BY <1>1, <1>2, <1>4, <1>6, <1>7, <1>8 DEF SlotInv, SlotPlaces
<1>10. Destroying' = Destroying /\ \A j : Posted(j)' = Posted(j)
  BY <1>1 DEF Destroying, Posted
<1>11. SlotCounts'
  BY <1>1, <1>2, <1>10 DEF SlotInv, SlotCounts
<1>12. QED
  BY <1>5, <1>9, <1>11 DEF SlotInv

\* A thread ends on the last job it is handed.
LEMMA EndSlotKeeps ==
  ASSUME SlotInv, NEW i \in Slot, EndSlot(i)
  PROVE  SlotInv'
<1>1. /\ worker[i] = "ending" /\ worker' = [worker EXCEPT ![i] = "ended"]
      /\ UNCHANGED <<buf, jobSem, rcvdSem, infoPool, caller, mine, ran, destroyer>>
  BY DEF EndSlot
<1>2. /\ worker' \in [Slot -> {"wait", "busy", "ending", "ended"}] /\ worker'[i] = "ended"
      /\ \A j \in Slot : j # i => worker'[j] = worker[j]
  BY <1>1 DEF SlotInv, SlotTypes
<1>3. SlotTypes'
  BY <1>1, <1>2 DEF SlotInv, SlotTypes
<1>4. ToSet(infoPool) \subseteq Slot
  BY Elements DEF SlotInv, SlotTypes
<1>5. SlotPlaces'
  BY <1>1, <1>2, <1>4 DEF SlotInv, SlotPlaces
<1>6. Destroying' = Destroying /\ \A j : Posted(j)' = Posted(j)
  BY <1>1 DEF Destroying, Posted
<1>7. SlotCounts'
  BY <1>1, <1>2, <1>6 DEF SlotInv, SlotCounts
<1>8. QED
  BY <1>3, <1>5, <1>7 DEF SlotInv

\* A caller that has not got a slot moves on, with a slot or without.
LEMMA GetFreeThreadKeeps ==
  ASSUME SlotInv, NEW c \in Caller, GetFreeThread(c) \/ WakeUp(c)
  PROVE  SlotInv'
<1>1. /\ caller[c] \in {"new", "look", "sleep"}
      /\ UNCHANGED <<worker, buf, jobSem, rcvdSem, ran, destroyer>>
  BY DEF GetFreeThread, WakeUp
<1>2. ~Destroying /\ Destroying' = Destroying /\ c \notin ToSet(ran)
  BY <1>1 DEF SlotInv, SlotPlaces, SlotCounts, Destroying
<1>3. CASE /\ infoPool # <<>> /\ mine' = [mine EXCEPT ![c] = Last(infoPool)]
           /\ infoPool' = Front(infoPool) /\ caller' = [caller EXCEPT ![c] = "got"]
  <2> DEFINE s == Last(infoPool)
  <2>1. /\ infoPool' \in Seq(Slot) /\ Unique(infoPool') /\ s \in Slot
        /\ ToSet(infoPool) = ToSet(infoPool') \cup {s} /\ s \notin ToSet(infoPool')
    BY <1>3, FrontElements DEF SlotInv, SlotTypes
  <2> HIDE DEF s
  <2>2. worker[s] = "wait" /\ jobSem[s] = 0
    <3>1. s \in ToSet(infoPool) /\ worker[s] \in {"wait", "busy", "ending", "ended"}
          /\ jobSem[s] \in {0, 1}
      BY <2>1 DEF SlotInv, SlotTypes
    <3>2. worker[s] # "busy" /\ (jobSem[s] = 1 => buf[s] = End)
      BY <3>1 DEF SlotInv, SlotPlaces
    <3>3. worker[s] \notin {"ending", "ended"} /\ ~(jobSem[s] = 1 /\ buf[s] = End)
      BY <1>2, <2>1 DEF SlotInv, SlotCounts
    <3>4. QED
      BY <3>1, <3>2, <3>3
  <2>3. mine' \in [Caller -> 0 .. Threads] /\ mine'[c] = s
        /\ \A d \in Caller : d # c => mine'[d] = mine[d]
    <3>1. s \in 0 .. Threads
      BY <2>1, FreeThreadsAssumption DEF Slot, FreeThreadsAssumption
    <3>2. QED
      BY <1>3, <3>1 DEF SlotInv, SlotTypes, s
  <2>4. /\ caller' \in [Caller -> {"new", "sleep", "look", "got", "posted", "done"}]
        /\ caller'[c] = "got" /\ \A d \in Caller : d # c => caller'[d] = caller[d]
    BY <1>3 DEF SlotInv, SlotTypes
  <2>5. SlotTypes'
    BY <1>1, <2>1, <2>3, <2>4 DEF SlotInv, SlotTypes
  <2>6. \A d \in Caller : caller[d] = "got" => mine[d] # s
    BY <2>1 DEF SlotInv, SlotPlaces
  <2>7. ToSet(ran) \subseteq Caller
    BY Elements DEF SlotInv, SlotTypes
  <2>8. \A i \in Slot : jobSem[i] = 1 /\ buf[i] # End => buf[i] # c
    BY <1>1 DEF SlotInv, SlotPlaces
  <2>9. SlotPlaces'
    BY <1>1, <1>2, <2>1, <2>2, <2>3, <2>4, <2>6, <2>7, <2>8, SMTT(60) DEF SlotInv, SlotPlaces
  <2>10. \A j \in Slot : Posted(j)' = Posted(j)
    BY <1>1, <2>3, <2>4 DEF Posted
  <2>11. SlotCounts'
    BY <1>1, <1>2, <2>10 DEF SlotInv, SlotCounts
  <2>12. QED
    BY <2>5, <2>9, <2>11 DEF SlotInv
<1>4. CASE /\ UNCHANGED <<mine, infoPool>>
           /\ \/ caller' = [caller EXCEPT ![c] = "sleep"]
              \/ caller' = [caller EXCEPT ![c] = "look"]
  <2>1. /\ caller' \in [Caller -> {"new", "sleep", "look", "got", "posted", "done"}]
        /\ caller'[c] \in {"sleep", "look"} /\ \A d \in Caller : d # c => caller'[d] = caller[d]
    BY <1>4 DEF SlotInv, SlotTypes
  <2>2. SlotTypes'
    BY <1>1, <1>4, <2>1 DEF SlotInv, SlotTypes
  <2>3. ToSet(ran) \subseteq Caller
    BY Elements DEF SlotInv, SlotTypes
  <2>4. \A i \in Slot : jobSem[i] = 1 /\ buf[i] # End => buf[i] # c
    BY <1>1 DEF SlotInv, SlotPlaces
  <2>5. SlotPlaces'
    BY <1>1, <1>2, <1>4, <2>1, <2>3, <2>4 DEF SlotInv, SlotPlaces
  <2>6. \A j \in Slot : Posted(j)' = Posted(j)
    BY <1>1, <1>4, <2>1 DEF Posted
  <2>7. SlotCounts'
    BY <1>1, <1>2, <2>6 DEF SlotInv, SlotCounts
  <2>8. QED
    BY <2>2, <2>5, <2>7 DEF SlotInv
<1>5. QED
  BY <1>3, <1>4 DEF GetFreeThread, WakeUp, Popped

\* A caller that has a slot to itself writes the job and posts it.
LEMMA PostJobKeeps ==
  ASSUME SlotInv, NEW c \in Caller, PostJob(c)
  PROVE  SlotInv'
<1>0. PICK s : s = mine[c]
  OBVIOUS
<1>1. /\ caller[c] = "got" /\ caller' = [caller EXCEPT ![c] = "posted"]
      /\ buf' = [buf EXCEPT ![s] = c] /\ jobSem' = [jobSem EXCEPT ![s] = @ + 1]
      /\ UNCHANGED <<worker, rcvdSem, infoPool, mine, ran, destroyer>>
  BY <1>0 DEF PostJob
<1>2. /\ s \in Slot /\ s \notin ToSet(infoPool) /\ worker[s] = "wait" /\ jobSem[s] = 0
      /\ \A d \in Caller : caller[d] = "got" /\ d # c => mine[d] # s
  BY <1>0, <1>1 DEF SlotInv, SlotPlaces
<1>3. /\ buf' = [i \in Slot |-> buf'[i]] /\ buf'[s] = c
      /\ \A i \in Slot : i # s => buf'[i] = buf[i]
  BY <1>1, <1>2 DEF SlotInv, SlotTypes
<1>4. /\ jobSem' \in [Slot -> 0 .. 1] /\ jobSem'[s] = 1
      /\ \A i \in Slot : i # s => jobSem'[i] = jobSem[i]
  BY <1>1, <1>2 DEF SlotInv, SlotTypes
<1>5. /\ caller' \in [Caller -> {"new", "sleep", "look", "got", "posted", "done"}]
      /\ caller'[c] = "posted" /\ \A d \in Caller : d # c => caller'[d] = caller[d]
  BY <1>1 DEF SlotInv, SlotTypes
<1>6. SlotTypes'
  BY <1>1, <1>3, <1>4, <1>5 DEF SlotInv, SlotTypes
<1>7. c \notin ToSet(ran) /\ c # End /\ ~Destroying /\ Destroying' = Destroying
  BY <1>1, FreeThreadsAssumption DEF SlotInv, SlotPlaces, SlotCounts, Destroying, FreeThreadsAssumption
<1>8. ToSet(ran) \subseteq Caller /\ ToSet(infoPool) \subseteq Slot
  BY Elements DEF SlotInv, SlotTypes
<1>9. SlotPlaces'
  <2>1. (\A i \in ToSet(infoPool) : worker[i] # "busy" /\ (jobSem[i] = 1 => buf[i] = End))'
    BY <1>1, <1>2, <1>3, <1>4, <1>8 DEF SlotInv, SlotPlaces
  <2>2. (\A d \in Caller : caller[d] = "got" =>
           /\ mine[d] \in Slot /\ mine[d] \notin ToSet(infoPool)
           /\ worker[mine[d]] = "wait" /\ jobSem[mine[d]] = 0)'
    BY <1>1, <1>2, <1>4, <1>5 DEF SlotInv, SlotPlaces
  <2>3. (\A d, e \in Caller : caller[d] = "got" /\ caller[e] = "got" /\ mine[d] = mine[e] => d = e)'
    BY <1>1, <1>5 DEF SlotInv, SlotPlaces
  <2>4. (\A i \in Slot : jobSem[i] = 1 /\ buf[i] # End =>
           /\ buf[i] \in Caller /\ caller[buf[i]] \in {"posted", "done"} /\ mine[buf[i]] = i
           /\ buf[i] \notin ToSet(ran) /\ worker[i] = "wait")'
    <3> SUFFICES ASSUME NEW i \in Slot, jobSem'[i] = 1, buf'[i] # End
                 PROVE  /\ buf'[i] \in Caller /\ caller'[buf'[i]] \in {"posted", "done"}
                        /\ mine[buf'[i]] = i /\ buf'[i] \notin ToSet(ran) /\ worker[i] = "wait"
      BY <1>1
    <3>1. CASE i = s
      BY <1>0, <1>2, <1>3, <1>5, <1>7, <3>1
    <3>2. CASE i # s
      BY <1>3, <1>4, <1>5, <3>2 DEF SlotInv, SlotPlaces
    <3>3. QED
      BY <3>1, <3>2
  <2>5. (\A d \in Caller : caller[d] \in {"posted", "done"} =>
           mine[d] \in Slot /\ (d \in ToSet(ran) \/ (buf[mine[d]] = d /\ jobSem[mine[d]] = 1)))'
    <3> SUFFICES ASSUME NEW d \in Caller, caller'[d] \in {"posted", "done"}
                 PROVE  mine[d] \in Slot /\ (d \in ToSet(ran) \/ (buf'[mine[d]] = d /\ jobSem'[mine[d]] = 1))
      BY <1>1
    <3>1. CASE d = c
      BY <1>0, <1>2, <1>3, <1>4, <3>1
    <3>2. CASE d # c
      <4>1. mine[d] \in Slot /\ (d \in ToSet(ran) \/ (buf[mine[d]] = d /\ jobSem[mine[d]] = 1))
        BY <1>5, <3>2 DEF SlotInv, SlotPlaces
      <4>2. QED
        BY <1>2, <1>3, <1>4, <4>1
    <3>3. QED
      BY <3>1, <3>2
  <2>6. (\A d \in ToSet(ran) : caller[d] \in {"posted", "done"})'
    BY <1>1, <1>5, <1>7, <1>8 DEF SlotInv, SlotPlaces
  <2>7. QED
    BY <2>1, <2>2, <2>3, <2>4, <2>5, <2>6 DEF SlotPlaces
<1>10. Posted(s)' = Posted(s) \cup {c} /\ c \notin Posted(s)
       /\ \A j \in Slot : j # s => Posted(j)' = Posted(j)
  BY <1>0, <1>1, <1>5 DEF Posted
<1>11. IsFiniteSet(Posted(s)') /\ jobSem'[s] + rcvdSem'[s] = Cardinality(Posted(s)')
  <2>1. IsFiniteSet(Posted(s)) /\ jobSem[s] + rcvdSem[s] = Cardinality(Posted(s)) /\ rcvdSem[s] \in Nat
    BY <1>2, <1>7 DEF SlotInv, SlotCounts, SlotTypes
  <2>2. IsFiniteSet(Posted(s) \cup {c}) /\ Cardinality(Posted(s) \cup {c}) = Cardinality(Posted(s)) + 1
    BY <1>10, <2>1, FS_AddElement
  <2>3. QED
    BY <1>1, <1>2, <1>4, <1>10, <2>1, <2>2
<1>12. SlotCounts'
  <2>1. \A j \in Slot : IsFiniteSet(Posted(j)') /\ jobSem'[j] + rcvdSem'[j] = Cardinality(Posted(j)')
    <3> SUFFICES ASSUME NEW j \in Slot
                 PROVE  IsFiniteSet(Posted(j)') /\ jobSem'[j] + rcvdSem'[j] = Cardinality(Posted(j)')
      OBVIOUS
    <3>1. IsFiniteSet(Posted(j)) /\ jobSem[j] + rcvdSem[j] = Cardinality(Posted(j))
      BY <1>7 DEF SlotInv, SlotCounts
    <3>2. CASE j = s
      BY <1>11, <3>2
    <3>3. CASE j # s
      <4>1. Posted(j)' = Posted(j) /\ jobSem'[j] = jobSem[j] /\ rcvdSem'[j] = rcvdSem[j]
        BY <1>1, <1>4, <1>10, <3>3
      <4>2. QED
        BY ONLY <3>1, <4>1
    <3>4. QED
      BY <3>2, <3>3
  <2>2. \A j \in Slot : worker'[j] \notin {"ending", "ended"} /\ (jobSem'[j] = 1 => buf'[j] # End)
    BY <1>1, <1>3, <1>4, <1>7 DEF SlotInv, SlotCounts
  <2>3. QED
    BY <1>7, <2>1, <2>2 DEF SlotCounts
<1>13. QED
  BY <1>6, <1>9, <1>12 DEF SlotInv

\* A caller leaves when its job was received.
LEMMA ReceivedKeeps ==
  ASSUME SlotInv, NEW c \in Caller, Received(c)
  PROVE  SlotInv'
<1>0. PICK s : s = mine[c]
  OBVIOUS
<1>1. /\ caller[c] = "posted" /\ caller' = [caller EXCEPT ![c] = "done"] /\ rcvdSem[s] > 0
      /\ rcvdSem' = [rcvdSem EXCEPT ![s] = @ - 1]
      /\ UNCHANGED <<worker, buf, jobSem, infoPool, mine, ran, destroyer>>
  BY <1>0 DEF Received
<1>2. s \in Slot
  BY <1>0, <1>1 DEF SlotInv, SlotPlaces
<1>3. /\ rcvdSem' \in [Slot -> Nat] /\ rcvdSem'[s] = rcvdSem[s] - 1
      /\ \A i \in Slot : i # s => rcvdSem'[i] = rcvdSem[i]
  BY <1>1, <1>2 DEF SlotInv, SlotTypes
<1>4. /\ caller' \in [Caller -> {"new", "sleep", "look", "got", "posted", "done"}]
      /\ caller'[c] = "done" /\ \A d \in Caller : d # c => caller'[d] = caller[d]
  BY <1>1 DEF SlotInv, SlotTypes
<1>5. SlotTypes'
  BY <1>1, <1>3, <1>4 DEF SlotInv, SlotTypes
<1>6. ~Destroying /\ Destroying' = Destroying
  BY <1>1 DEF SlotInv, SlotCounts, Destroying
<1>7. ToSet(ran) \subseteq Caller
  BY Elements DEF SlotInv, SlotTypes
<1>8. SlotPlaces'
  BY <1>1, <1>4, <1>7 DEF SlotInv, SlotPlaces
<1>9. Posted(s)' = Posted(s) \ {c} /\ c \in Posted(s)
      /\ \A j \in Slot : j # s => Posted(j)' = Posted(j)
  BY <1>0, <1>1, <1>4 DEF Posted
<1>10. IsFiniteSet(Posted(s)') /\ jobSem'[s] + rcvdSem'[s] = Cardinality(Posted(s)')
  <2>1. IsFiniteSet(Posted(s)) /\ jobSem[s] + rcvdSem[s] = Cardinality(Posted(s))
        /\ rcvdSem[s] \in Nat /\ jobSem[s] \in Nat
    <3>1. jobSem[s] \in {0, 1} /\ rcvdSem[s] \in Nat
      BY <1>2 DEF SlotInv, SlotTypes
    <3>2. IsFiniteSet(Posted(s)) /\ jobSem[s] + rcvdSem[s] = Cardinality(Posted(s))
      BY <1>2, <1>6 DEF SlotInv, SlotCounts
    <3>3. QED
      BY <3>1, <3>2
  <2>2. IsFiniteSet(Posted(s) \ {c}) /\ Cardinality(Posted(s) \ {c}) = Cardinality(Posted(s)) - 1
    BY <1>9, <2>1, FS_RemoveElement
  <2>3. QED
    BY <1>1, <1>3, <1>9, <2>1, <2>2
<1>11. SlotCounts'
  <2>1. \A j \in Slot : IsFiniteSet(Posted(j)') /\ jobSem'[j] + rcvdSem'[j] = Cardinality(Posted(j)')
    <3> SUFFICES ASSUME NEW j \in Slot
                 PROVE  IsFiniteSet(Posted(j)') /\ jobSem'[j] + rcvdSem'[j] = Cardinality(Posted(j)')
      OBVIOUS
    <3>1. IsFiniteSet(Posted(j)) /\ jobSem[j] + rcvdSem[j] = Cardinality(Posted(j))
      BY <1>6 DEF SlotInv, SlotCounts
    <3>2. CASE j = s
      BY <1>10, <3>2
    <3>3. CASE j # s
      <4>1. Posted(j)' = Posted(j) /\ jobSem'[j] = jobSem[j] /\ rcvdSem'[j] = rcvdSem[j]
        BY <1>1, <1>3, <1>9, <3>3
      <4>2. QED
        BY ONLY <3>1, <4>1
    <3>4. QED
      BY <3>2, <3>3
  <2>2. \A j \in Slot : worker'[j] \notin {"ending", "ended"} /\ ~(jobSem'[j] = 1 /\ buf'[j] = End)
    BY <1>1, <1>6 DEF SlotInv, SlotCounts
  <2>3. QED
    BY <1>6, <2>1, <2>2 DEF SlotCounts
<1>12. QED
  BY <1>5, <1>8, <1>11 DEF SlotInv

\* The caller that destroys the pool hands each slot an end.
LEMMA PostEndKeeps ==
  ASSUME SlotInv, PostEnd
  PROVE  SlotInv'
<1> DEFINE k == destroyer.at
<1>1. /\ destroyer.pc = "off" /\ k < Threads /\ \A c \in Caller : caller[c] = "done"
      /\ buf' = [buf EXCEPT ![k] = End] /\ jobSem' = [jobSem EXCEPT ![k] = @ + 1]
      /\ destroyer' = [destroyer EXCEPT !.pc = "posted"]
      /\ UNCHANGED <<worker, rcvdSem, infoPool, caller, mine, ran>>
  BY DEF PostEnd
<1>2. k \in Slot /\ destroyer' = [pc |-> "posted", at |-> k] /\ k \in Nat
  <2>1. k \in Nat /\ Threads \in Nat
    BY FreeThreadsAssumption DEF SlotInv, SlotTypes, FreeThreadsAssumption
  <2>2. destroyer' = [pc |-> "posted", at |-> k]
    BY <1>1 DEF SlotInv, SlotTypes
  <2>3. k < Threads
    BY <1>1
  <2>4. k \in 0 .. Threads - 1
    BY <2>1, <2>3
  <2>5. QED
    BY <2>1, <2>2, <2>4 DEF Slot
<1> HIDE DEF k
<1>3. \A j \in Slot : Posted(j) = {} /\ Posted(j)' = {}
  BY <1>1 DEF Posted
<1>4. \A j \in Slot : jobSem[j] = 1 => Destroying /\ buf[j] = End /\ j < k
  <2>1. CASE Destroying
    BY <1>1, <2>1 DEF SlotInv, SlotCounts, k
  <2>2. CASE ~Destroying
    <3>1. \A j \in Slot : jobSem[j] + rcvdSem[j] = 0
      BY <1>3, <2>2, FS_EmptySet DEF SlotInv, SlotCounts
    <3>2. QED
      BY <3>1 DEF SlotInv, SlotTypes
  <2>3. QED
    BY <2>1, <2>2
<1>5. jobSem[k] = 0
  BY <1>2, <1>4 DEF SlotInv, SlotTypes
<1>6. /\ jobSem' \in [Slot -> 0 .. 1] /\ jobSem'[k] = 1
      /\ \A i \in Slot : i # k => jobSem'[i] = jobSem[i]
  BY <1>1, <1>2, <1>5 DEF SlotInv, SlotTypes, k
<1>7. /\ buf' = [i \in Slot |-> buf'[i]] /\ buf'[k] = End
      /\ \A i \in Slot : i # k => buf'[i] = buf[i]
  BY <1>1, <1>2 DEF SlotInv, SlotTypes, k
<1>8. SlotTypes'
  BY <1>1, <1>2, <1>6, <1>7 DEF SlotInv, SlotTypes
<1>9. ToSet(infoPool) \subseteq Slot
  BY Elements DEF SlotInv, SlotTypes
<1>10. \A c \in Caller : mine[c] \in Slot /\ c \in ToSet(ran)
  <2> SUFFICES ASSUME NEW c \in Caller PROVE mine[c] \in Slot /\ c \in ToSet(ran)
    OBVIOUS
  <2>1. mine[c] \in Slot /\ (c \in ToSet(ran) \/ (buf[mine[c]] = c /\ jobSem[mine[c]] = 1))
    BY <1>1 DEF SlotInv, SlotPlaces
  <2>2. c # End
    BY FreeThreadsAssumption DEF FreeThreadsAssumption
  <2>3. QED
    BY <1>4, <2>1, <2>2
<1>11. SlotPlaces'
  <2>1. (\A i \in ToSet(infoPool) : worker[i] # "busy" /\ (jobSem[i] = 1 => buf[i] = End))'
    BY <1>1, <1>6, <1>7, <1>9 DEF SlotInv, SlotPlaces
  <2>2. (\A i \in Slot : ~(jobSem[i] = 1 /\ buf[i] # End))'
    BY <1>4, <1>6, <1>7
  <2>3. QED
    BY <1>1, <1>10, <2>1, <2>2 DEF SlotInv, SlotPlaces
<1>12. Destroying'
  BY <1>2 DEF Destroying
<1>13. SlotCounts'
  <2>1. \A j \in Slot : jobSem'[j] = 1 =>
          buf'[j] = End /\ (j < destroyer'.at \/ (j = destroyer'.at /\ destroyer'.pc = "posted"))
    BY <1>2, <1>4, <1>6, <1>7
  <2>2. QED
    BY <1>1, <1>12, <2>1 DEF SlotCounts
<1>14. QED
  BY <1>8, <1>11, <1>13 DEF SlotInv

\* It then waits for each.
LEMMA AwaitEndKeeps ==
  ASSUME SlotInv, AwaitEnd
  PROVE  SlotInv'
<1> DEFINE k == destroyer.at
<1>1. /\ destroyer.pc = "posted" /\ rcvdSem[k] > 0
      /\ rcvdSem' = [rcvdSem EXCEPT ![k] = @ - 1]
      /\ destroyer' = [pc |-> "off", at |-> k + 1]
      /\ UNCHANGED <<worker, buf, jobSem, infoPool, caller, mine, ran>>
  BY DEF AwaitEnd
<1>2. k \in Nat
  BY DEF SlotInv, SlotTypes
<1> HIDE DEF k
<1>3. rcvdSem' \in [Slot -> Nat]
  <2>1. CASE k \in Slot
    BY <1>1, <2>1 DEF SlotInv, SlotTypes
  <2>2. CASE k \notin Slot
    BY <1>1, <2>2 DEF SlotInv, SlotTypes
  <2>3. QED
    BY <2>1, <2>2
<1>4. SlotTypes'
  BY <1>1, <1>2, <1>3 DEF SlotInv, SlotTypes
<1>5. SlotPlaces'
  BY <1>1 DEF SlotInv, SlotPlaces
<1>6. Destroying /\ Destroying'
  BY <1>1, <1>2 DEF Destroying
<1>7. \A j \in Slot : jobSem[j] = 1 => buf[j] = End /\ j < k + 1
  <2>1. \A j \in Slot : jobSem[j] = 1 => buf[j] = End /\ (j < k \/ j = k)
    BY <1>6 DEF SlotInv, SlotCounts, k
  <2>2. \A j \in Slot : j \in Int
    BY DEF Slot
  <2>3. QED
    BY <1>2, <2>1, <2>2
<1>8. SlotCounts'
  BY <1>1, <1>6, <1>7 DEF SlotInv, SlotCounts
<1>9. QED
  BY <1>4, <1>5, <1>8 DEF SlotInv

\* No step of the C pool breaks the invariant.
LEMMA SlotStep == SlotInv /\ [FreeThreadsNext]_ftVars => SlotInv'
<1> SUFFICES ASSUME SlotInv, [FreeThreadsNext]_ftVars PROVE SlotInv'
  OBVIOUS
<1>1. CASE UNCHANGED ftVars
  <2>1. SlotTypes'
    BY <1>1 DEF ftVars, SlotInv, SlotTypes
  <2>2. SlotPlaces'
    BY <1>1 DEF ftVars, SlotInv, SlotPlaces
  <2>3. SlotCounts'
    BY <1>1 DEF ftVars, SlotInv, SlotCounts, Destroying, Posted
  <2>4. QED
    BY <2>1, <2>2, <2>3 DEF SlotInv
<1>2. QED
  BY <1>1, TakeJobKeeps, AddFreeThreadKeeps, EndSlotKeeps, GetFreeThreadKeeps, PostJobKeeps,
     ReceivedKeeps, PostEndKeeps, AwaitEndKeeps DEF FreeThreadsNext

\* In which place a job is tells that it is in no other.
LEMMA SlotImplied == SlotInv => JobsNotMixed
<1> SUFFICES ASSUME SlotInv PROVE JobsNotMixed
  OBVIOUS
<1>1. DOMAIN ran = 1 .. Len(ran)
  BY Elements DEF SlotInv, SlotTypes
<1>2. \A c, d \in Caller : caller[c] = "got" /\ caller[d] = "got" /\ mine[c] = mine[d] => c = d
  BY DEF SlotInv, SlotPlaces
<1>3. \A c \in Caller : caller[c] = "got" => mine[c] \notin ToSet(infoPool)
  BY DEF SlotInv, SlotPlaces
<1>4. \A i, j \in DOMAIN ran : ran[i] = ran[j] => i = j
  BY <1>1 DEF SlotInv, SlotTypes, Unique
<1>5. \A c \in Caller : caller[c] \in {"posted", "done"} =>
        c \in ToSet(ran) \/ (buf[mine[c]] = c /\ jobSem[mine[c]] = 1)
  BY DEF SlotInv, SlotPlaces
<1>6. QED
  BY <1>2, <1>3, <1>4, <1>5 DEF JobsNotMixed

\* A thread of the C pool runs the job its caller wrote, and each job once, however
\* callers, threads and the end of the pool meet (appThread.c).
THEOREM JobsStayApart == FreeThreadsSpec => []JobsNotMixed
  BY SlotInitInv, SlotStep, SlotImplied, PTL DEF FreeThreadsSpec

-----------------------------------------------------------------------------
\* The pool of threads (ThreadPool).

(***************************************************************************)
(* The C++ pool.                                                           *)
(***************************************************************************)
Joined == {i \in Index : pool[i] = "joined"}
TwoJoined == \E a, b \in Joined : a # b

\* Which values the variables of a ThreadPool have.
PoolTypes ==
  /\ poolSize \in 1 .. MaxCount
  /\ pool \in [Index -> {"none", "begin", "wait", "token", "took", "busy", "ended", "joined"}]
  /\ poolFlag \in [Index -> BOOLEAN]
  /\ jobQueue \in Seq(Job \cup {Terminate}) /\ Unique(jobQueue)
  /\ waitForJob \in Nat /\ jobOf \in [Index -> Job \cup {Terminate}]
  /\ waitToTerminate \in Nat /\ turnedOffIndex \in Index
  /\ owner \in {"new", "created", "using", "stopping", "waiting", "joining", "stopped"}
  /\ loop \in 0 .. poolSize /\ stops \in 0 .. 2
  /\ started \in [Job -> 0 .. 1] /\ finished \in [Job -> 0 .. 1]

\* How many threads there are, and how many of them the owner has marked.
Made == IF owner = "new" THEN loop ELSE IF owner = "created" THEN loop + 1 ELSE poolSize
Marked == IF owner \in {"new", "created"} THEN loop ELSE poolSize

\* The flag of a thread that was marked says whether it has ended.
MadeInv ==
  /\ \A i \in Index : pool[i] = "none" <=> i >= Made
  /\ \A i \in Index : i < Marked => (poolFlag[i] <=> pool[i] \notin {"ended", "joined"})
  /\ owner \in {"new", "created", "waiting", "joining"} => loop < poolSize
  /\ owner \in {"new", "created", "using"} => \A i \in Index : pool[i] \notin {"ended", "joined"}
  /\ stops = 0 <=> owner \in {"new", "created", "using"}

\* One terminate job is under way at most, while the owner waits for it: it is the last
\* in the queue, or a thread took it, or a thread has ended by it.
TerminateInv ==
  /\ Terminate \in ToSet(jobQueue) =>
       /\ owner = "waiting" /\ jobQueue[Len(jobQueue)] = Terminate /\ waitToTerminate = 0
       /\ \A i \in Index : pool[i] # "ended" /\ (pool[i] = "took" => jobOf[i] # Terminate)
  /\ \A i \in Index : pool[i] = "took" /\ jobOf[i] = Terminate =>
       /\ owner = "waiting" /\ jobQueue = <<>> /\ waitToTerminate = 0
       /\ \A k \in Index : pool[k] # "ended" /\ (pool[k] = "took" /\ jobOf[k] = Terminate => k = i)
  /\ \A i \in Index : pool[i] = "ended" =>
       /\ owner \in {"waiting", "joining"} /\ jobQueue = <<>> /\ turnedOffIndex = i
       /\ waitToTerminate = IF owner = "waiting" THEN 1 ELSE 0
  /\ waitToTerminate > 0 \/ owner = "joining" => pool[turnedOffIndex] = "ended"
  /\ owner = "stopped" \/ (owner = "stopping" /\ (loop > 0 \/ stops = 2)) => jobQueue = <<>>

\* A job is in the queue, or with one thread, or was called.
JobPlaces ==
  /\ \A j \in Job : finished[j] <= started[j]
  /\ \A j \in Job : j \in ToSet(jobQueue) =>
       started[j] = 0 /\ \A i \in Index : pool[i] \in {"took", "busy"} => jobOf[i] # j
  /\ \A i, k \in Index : pool[i] \in {"took", "busy"} /\ pool[k] \in {"took", "busy"}
       /\ jobOf[i] = jobOf[k] /\ jobOf[i] # Terminate => i = k
  /\ \A i \in Index : pool[i] = "took" /\ jobOf[i] # Terminate => started[jobOf[i]] = 0
  /\ \A i \in Index : pool[i] = "busy" =>
       jobOf[i] \in Job /\ started[jobOf[i]] = 1 /\ finished[jobOf[i]] = 0
  /\ \A j \in Job : started[j] # finished[j] => \E i \in Index : pool[i] = "busy" /\ jobOf[i] = j

\* The threads that are free, by their place in the pool.
Tokens == {i \in Index : pool[i] = "token"}
TokenInv == IsFiniteSet(Tokens) /\ waitForJob + Cardinality(Tokens) = Len(jobQueue)

\* A pool of up to three threads keeps one thread at most beyond the first call of stop,
\* and the second finds that one.
JoinInv ==
  /\ owner = "stopped" => loop = poolSize
  /\ owner = "stopping" /\ stops = 1 /\ loop = 0 => Joined = {}
  /\ poolSize <= 3 /\ stops = 1 =>
       /\ loop >= 1 => Joined # {}
       /\ loop = 2 => 1 \in Joined \/ TwoJoined
       /\ loop >= 3 => TwoJoined
  /\ poolSize <= 3 /\ stops = 2 =>
       /\ \A i, k \in Alive : i = k
       /\ \A i \in Alive : i >= loop

\* The inductive invariant of a ThreadPool.
PoolInv == PoolTypes /\ MadeInv /\ TerminateInv /\ JobPlaces /\ TokenInv /\ JoinInv

\* What the assumption on the constants says.
LEMMA PoolConstants ==
  /\ MaxCount \in Nat /\ MaxCount > 0 /\ Job \subseteq Nat /\ Terminate \notin Job
  /\ \A i \in Index : i \in Nat /\ i < MaxCount
  /\ 0 \in Index
  BY ThreadPoolAssumption DEF ThreadPoolAssumption, Index, Terminate

\* No thread was made and no job was added.
LEMMA PoolInitInv == PoolInit => PoolInv
<1> SUFFICES ASSUME PoolInit PROVE PoolInv
  OBVIOUS
<1>1. jobQueue = <<>> /\ ToSet(<<>>) = {} /\ <<>> \in Seq(Job \cup {Terminate})
      /\ Unique(<<>>) /\ Len(<<>>) = 0
  BY EmptySeq DEF PoolInit, ToSet, Unique
<1>2. PoolTypes
  BY <1>1, PoolConstants DEF PoolInit, PoolTypes
<1>3. MadeInv
  BY PoolConstants DEF PoolInit, MadeInv, Made, Marked
<1>4. TerminateInv
  BY <1>1 DEF PoolInit, TerminateInv
<1>5. JobPlaces
  BY <1>1 DEF PoolInit, JobPlaces
<1>6. Tokens = {} /\ Joined = {}
  BY DEF PoolInit, Tokens, Joined
<1>7. TokenInv
  BY <1>1, <1>6, FS_EmptySet DEF PoolInit, TokenInv
<1>8. JoinInv
  BY <1>6 DEF PoolInit, JoinInv
<1>9. QED
  BY <1>2, <1>3, <1>4, <1>5, <1>7, <1>8 DEF PoolInv

\* The queue after putJob and getJob.
LEMMA PutJobQueue ==
  ASSUME PoolTypes, NEW j \in Job \cup {Terminate}, PutJob(j)
  PROVE  /\ jobQueue' \in Seq(Job \cup {Terminate}) /\ Len(jobQueue') = Len(jobQueue) + 1
         /\ ToSet(jobQueue') = ToSet(jobQueue) \cup {j}
         /\ jobQueue'[Len(jobQueue')] = j
         /\ j \notin ToSet(jobQueue) => Unique(jobQueue')
         /\ waitForJob' = waitForJob + 1 /\ waitForJob \in Nat /\ Len(jobQueue) \in Nat
<1>1. jobQueue \in Seq(Job \cup {Terminate}) /\ Unique(jobQueue) /\ waitForJob \in Nat
  BY DEF PoolTypes
<1>2. jobQueue' = Append(jobQueue, j) /\ waitForJob' = waitForJob + 1
  BY DEF PutJob
<1>3. /\ jobQueue' \in Seq(Job \cup {Terminate}) /\ Len(jobQueue') = Len(jobQueue) + 1
      /\ ToSet(jobQueue') = ToSet(jobQueue) \cup {j}
      /\ j \notin ToSet(jobQueue) => Unique(jobQueue')
  BY <1>1, <1>2, AppendElements
<1>4. jobQueue'[Len(jobQueue) + 1] = j /\ Len(jobQueue) \in Nat
  BY <1>1, <1>2, AppendProperties, LenProperties
<1>5. QED
  BY <1>1, <1>2, <1>3, <1>4

\* What is left of the queue when its first job was taken.
LEMMA GetJobQueue ==
  ASSUME PoolTypes, jobQueue # <<>>, jobQueue' = Tail(jobQueue)
  PROVE  /\ jobQueue' \in Seq(Job \cup {Terminate}) /\ Len(jobQueue') = Len(jobQueue) - 1
         /\ Unique(jobQueue') /\ Head(jobQueue) \notin ToSet(jobQueue')
         /\ ToSet(jobQueue) = ToSet(jobQueue') \cup {Head(jobQueue)}
         /\ Head(jobQueue) \in Job \cup {Terminate} /\ Len(jobQueue) \in Nat
         /\ jobQueue' # <<>> => jobQueue'[Len(jobQueue')] = jobQueue[Len(jobQueue)]
         /\ Head(jobQueue) = jobQueue[Len(jobQueue)] => jobQueue' = <<>>
<1>1. jobQueue \in Seq(Job \cup {Terminate}) /\ Unique(jobQueue)
  BY DEF PoolTypes
<1>2. /\ jobQueue' \in Seq(Job \cup {Terminate}) /\ Len(jobQueue') = Len(jobQueue) - 1
      /\ Unique(jobQueue') /\ Head(jobQueue) \notin ToSet(jobQueue')
      /\ ToSet(jobQueue) = ToSet(jobQueue') \cup {Head(jobQueue)}
      /\ Head(jobQueue) \in Job \cup {Terminate} /\ Head(jobQueue) = jobQueue[1]
      /\ \A i \in 1 .. Len(jobQueue) - 1 : jobQueue'[i] = jobQueue[i + 1]
  BY <1>1, TailElements
<1>3. Len(jobQueue) \in Nat /\ Len(jobQueue) >= 1 /\ (jobQueue' # <<>> <=> Len(jobQueue') > 0)
  <2>1. Len(jobQueue) \in Nat /\ Len(jobQueue) > 0
    BY <1>1, Elements
  <2>2. jobQueue' # <<>> <=> Len(jobQueue') > 0
    BY <1>2, Elements
  <2>3. QED
    BY <2>1, <2>2
<1>4. jobQueue' # <<>> => jobQueue'[Len(jobQueue')] = jobQueue[Len(jobQueue)]
  <2> SUFFICES ASSUME jobQueue' # <<>> PROVE jobQueue'[Len(jobQueue')] = jobQueue[Len(jobQueue)]
    OBVIOUS
  <2>1. Len(jobQueue) - 1 \in 1 .. Len(jobQueue) - 1 /\ (Len(jobQueue) - 1) + 1 = Len(jobQueue)
    BY <1>2, <1>3
  <2>2. QED
    BY <1>2, <2>1
<1>5. Head(jobQueue) = jobQueue[Len(jobQueue)] => jobQueue' = <<>>
  <2> SUFFICES ASSUME Head(jobQueue) = jobQueue[Len(jobQueue)] PROVE jobQueue' = <<>>
    OBVIOUS
  <2>1. 1 \in 1 .. Len(jobQueue) /\ Len(jobQueue) \in 1 .. Len(jobQueue)
    BY <1>3
  <2>2. 1 = Len(jobQueue)
    BY <1>1, <1>2, <2>1 DEF Unique
  <2>3. QED
    BY <1>2, <1>3, <2>2
<1>6. QED
  BY <1>2, <1>3, <1>4, <1>5

\* A job that can be given is nowhere.
LEMMA NewJob ==
  ASSUME PoolTypes, NEW j \in Job, ExecuteInsidePool(j)
  PROVE  j \notin ToSet(jobQueue)
<1>1. jobQueue \in Seq(Job \cup {Terminate})
  BY DEF PoolTypes
<1>2. ToSet(jobQueue) = {jobQueue[i] : i \in DOMAIN jobQueue}
  BY DEF ToSet
<1>3. QED
  BY <1>2 DEF ExecuteInsidePool

\* Every step keeps the types.
LEMMA PoolTypesKept ==
  ASSUME PoolInv, [PoolNext]_poolVars
  PROVE  PoolTypes'
<1> USE PoolConstants DEF PoolInv
<1>1. CASE CreateThread
  BY <1>1 DEF PoolTypes, CreateThread, queueVars, stopVars, jobVars
<1>2. CASE MarkRunning
  <2>1. loop \in 0 .. poolSize /\ loop < poolSize /\ poolSize \in Nat
    BY <1>2 DEF PoolTypes, MadeInv, MarkRunning
  <2>2. loop + 1 \in 0 .. poolSize
    BY <2>1
  <2>3. QED
    BY <1>2, <2>2 DEF PoolTypes, MarkRunning, queueVars, stopVars, jobVars
<1>3. ASSUME NEW j \in Job, ExecuteInsidePool(j) PROVE PoolTypes'
  <2>1. PutJob(j)
    BY <1>3 DEF ExecuteInsidePool
  <2>2. jobQueue' \in Seq(Job \cup {Terminate}) /\ Unique(jobQueue') /\ waitForJob' \in Nat
    BY <1>3, <2>1, PutJobQueue, NewJob
  <2>3. QED
    BY <1>3, <2>2 DEF PoolTypes, ExecuteInsidePool, threadVars, stopVars, jobVars
<1>4. ASSUME NEW i \in Index, BeginThread(i) PROVE PoolTypes'
  BY <1>4 DEF PoolTypes, BeginThread, queueVars, stopVars, jobVars
<1>5. ASSUME NEW i \in Index, GetToken(i) PROVE PoolTypes'
  BY <1>5 DEF PoolTypes, GetToken, stopVars, jobVars
<1>6. ASSUME NEW i \in Index, GetJob(i) PROVE PoolTypes'
  <2>1. jobQueue' \in Seq(Job \cup {Terminate}) /\ Unique(jobQueue')
        /\ Head(jobQueue) \in Job \cup {Terminate}
    BY <1>6, GetJobQueue DEF GetJob
  <2>2. QED
    BY <1>6, <2>1 DEF PoolTypes, GetJob, stopVars, jobVars
<1>7. ASSUME NEW i \in Index, CallJob(i) PROVE PoolTypes'
  <2>1. jobOf[i] \in Job /\ started[jobOf[i]] = 0 /\ started' = [started EXCEPT ![jobOf[i]] = @ + 1]
    BY <1>7 DEF CallJob, PoolTypes, JobPlaces
  <2>2. started' \in [Job -> 0 .. 1]
    BY <2>1 DEF PoolTypes
  <2>3. QED
    BY <1>7, <2>2 DEF PoolTypes, CallJob, queueVars, stopVars
<1>8. ASSUME NEW i \in Index, FinishJob(i) PROVE PoolTypes'
  <2>1. jobOf[i] \in Job /\ finished[jobOf[i]] = 0 /\ finished' = [finished EXCEPT ![jobOf[i]] = @ + 1]
    BY <1>8 DEF FinishJob, PoolTypes, JobPlaces
  <2>2. finished' \in [Job -> 0 .. 1]
    BY <2>1 DEF PoolTypes
  <2>3. QED
    BY <1>8, <2>2 DEF PoolTypes, FinishJob, queueVars, stopVars
<1>9. ASSUME NEW i \in Index, EndThread(i) PROVE PoolTypes'
  BY <1>9 DEF PoolTypes, EndThread, queueVars, jobVars
<1>10. CASE Stop
  BY <1>10 DEF PoolTypes, Stop, threadVars, queueVars, jobVars
<1>11. CASE TestThread
  <2>1. CASE UNCHANGED queueVars /\ (loop = poolSize \/ loop' = loop + 1) /\ (loop = poolSize => loop' = loop)
             /\ owner' \in {owner, "stopped"}
    BY <1>11, <2>1 DEF PoolTypes, TestThread, threadVars, queueVars, stopVars, jobVars
  <2>2. CASE owner' = "waiting" /\ PutJob(Terminate) /\ UNCHANGED loop
    <3>1. Terminate \notin ToSet(jobQueue)
      BY <1>11 DEF TestThread, TerminateInv
    <3>4. PutJob(Terminate) /\ Terminate \in Job \cup {Terminate} /\ PoolTypes
      BY <2>2
    <3>2. jobQueue' \in Seq(Job \cup {Terminate}) /\ Unique(jobQueue') /\ waitForJob' \in Nat
      BY ONLY <3>1, <3>4, PutJobQueue
    <3>3. QED
      BY <1>11, <2>2, <3>2 DEF PoolTypes, TestThread, threadVars, stopVars, jobVars
  <2>3. QED
    BY <1>11, <2>1, <2>2 DEF TestThread
<1>12. CASE WaitToTerminate
  BY <1>12 DEF PoolTypes, WaitToTerminate, threadVars, queueVars, jobVars
<1>13. CASE Join
  <2>1. loop < poolSize
    BY <1>13 DEF Join, MadeInv
  <2>2. QED
    BY <1>13, <2>1 DEF PoolTypes, Join, queueVars, stopVars, jobVars
<1>14. CASE UNCHANGED poolVars
  BY <1>14 DEF PoolTypes, poolVars, threadVars, queueVars, stopVars, jobVars
<1>15. QED
  BY <1>1, <1>2, <1>3, <1>4, <1>5, <1>6, <1>7, <1>8, <1>9, <1>10, <1>11, <1>12, <1>13, <1>14
  DEF PoolNext, PoolRun, PoolThreads

\* Threads, their flags and the owner's loop.
LEMMA MadeKept ==
  ASSUME PoolInv, [PoolNext]_poolVars
  PROVE  MadeInv'
<1> USE PoolConstants DEF PoolInv
<1>0. /\ poolSize \in Nat /\ poolSize >= 1 /\ poolSize <= MaxCount /\ loop \in Nat /\ loop <= poolSize
      /\ poolSize' = poolSize
  BY DEF PoolTypes, PoolNext, PoolRun, PoolThreads, CreateThread, MarkRunning, ExecuteInsidePool,
     BeginThread, GetToken, GetJob, CallJob, FinishJob, EndThread, Stop, TestThread,
     WaitToTerminate, Join, poolVars
<1>1. CASE CreateThread
  <2>1. /\ owner = "new" /\ owner' = "created" /\ pool' = [pool EXCEPT ![loop] = "begin"]
        /\ UNCHANGED <<poolFlag, loop, stops>>
    BY <1>1 DEF CreateThread, stopVars
  <2>2. Made = loop /\ Made' = loop + 1 /\ Marked = loop /\ Marked' = loop /\ loop < poolSize
    BY <1>0, <2>1 DEF Made, Marked, MadeInv
  <2>3. loop \in Index /\ pool'[loop] = "begin" /\ \A i \in Index : i # loop => pool'[i] = pool[i]
    BY <1>0, <2>1, <2>2 DEF Index, PoolTypes
  <2>4. \A i \in Index : i # loop => (i >= loop <=> i >= loop + 1)
    BY <1>0
  <2>5. QED
    BY <1>0, <2>1, <2>2, <2>3, <2>4 DEF MadeInv
<1>2. CASE MarkRunning
  <2>1. /\ owner = "created" /\ poolFlag' = [poolFlag EXCEPT ![loop] = TRUE] /\ loop' = loop + 1
        /\ owner' = IF loop' = poolSize THEN "using" ELSE "new"
        /\ UNCHANGED <<pool, stops>>
    BY <1>2 DEF MarkRunning, stopVars
  <2>2. Made = loop + 1 /\ Marked = loop /\ loop < poolSize /\ Made' = loop + 1 /\ Marked' = loop + 1
    BY <1>0, <2>1 DEF Made, Marked, MadeInv
  <2>3. loop \in Index /\ poolFlag'[loop] = TRUE /\ \A i \in Index : i # loop => poolFlag'[i] = poolFlag[i]
    BY <1>0, <2>1, <2>2 DEF Index, PoolTypes
  <2>4. \A i \in Index : i < loop + 1 => i = loop \/ i < loop
    BY <1>0
  <2>5. \A i \in Index : pool[i] \notin {"ended", "joined"}
    BY <2>1 DEF MadeInv
  <2>6. \A i \in Index : i < Marked' => (poolFlag'[i] <=> pool'[i] \notin {"ended", "joined"})
    BY <2>1, <2>2, <2>3, <2>4, <2>5 DEF MadeInv
  <2>7. owner' \in {"new", "using"} /\ (owner' = "new" => loop' < poolSize)
    BY <1>0, <2>1, <2>2
  <2>8. QED
    BY <1>0, <2>1, <2>2, <2>5, <2>6, <2>7 DEF MadeInv
<1>3. ASSUME NEW i \in Index, UNCHANGED <<owner, loop, stops>>, UNCHANGED poolFlag,
             pool[i] \in {"wait", "token", "took", "busy"},
             \E a \in {"wait", "token", "took", "busy"} : pool' = [pool EXCEPT ![i] = a]
      PROVE  MadeInv'
  <2>1. pool'[i] \in {"wait", "token", "took", "busy"} /\ \A k \in Index : k # i => pool'[k] = pool[k]
    BY <1>3 DEF PoolTypes
  <2>2. Made' = Made /\ Marked' = Marked
    BY <1>0, <1>3 DEF Made, Marked
  <2>3. QED
    BY <1>0, <1>3, <2>1, <2>2 DEF MadeInv
<1>4. ASSUME NEW i \in Index, BeginThread(i) PROVE MadeInv'
  <2>1. /\ pool[i] = "begin" /\ pool'[i] = "wait" /\ poolFlag'[i] = TRUE
        /\ \A k \in Index : k # i => pool'[k] = pool[k] /\ poolFlag'[k] = poolFlag[k]
        /\ UNCHANGED <<owner, loop, stops>>
    BY <1>4 DEF BeginThread, PoolTypes, stopVars
  <2>2. Made' = Made /\ Marked' = Marked
    BY <1>0, <2>1 DEF Made, Marked
  <2>3. QED
    BY <1>0, <2>1, <2>2 DEF MadeInv
<1>5. ASSUME NEW i \in Index, EndThread(i) PROVE MadeInv'
  <2>1. /\ pool[i] = "took" /\ jobOf[i] = Terminate /\ pool'[i] = "ended" /\ poolFlag'[i] = FALSE
        /\ \A k \in Index : k # i => pool'[k] = pool[k] /\ poolFlag'[k] = poolFlag[k]
        /\ UNCHANGED <<owner, loop, stops>>
    BY <1>5 DEF EndThread, PoolTypes
  <2>2. owner = "waiting"
    BY <2>1 DEF TerminateInv
  <2>3. Made' = Made /\ Marked' = Marked
    BY <1>0, <2>1 DEF Made, Marked
  <2>4. QED
    BY <1>0, <2>1, <2>2, <2>3 DEF MadeInv
<1>6. CASE Stop
  <2>1. owner \in {"using", "stopped"} /\ owner' = "stopping" /\ stops' = stops + 1
        /\ UNCHANGED <<pool, poolFlag>> /\ stops \in Nat
    BY <1>6 DEF Stop, threadVars, PoolTypes
  <2>2. Made = poolSize /\ Marked = poolSize /\ Made' = poolSize /\ Marked' = poolSize
    BY <1>0, <2>1 DEF Made, Marked
  <2>3. stops' # 0
    BY <2>1
  <2>4. QED
    BY <1>0, <2>1, <2>2, <2>3 DEF MadeInv
<1>7. CASE TestThread
  <2>1. owner = "stopping" /\ owner' \in {"stopped", "waiting", "stopping"}
        /\ (owner' = "waiting" => loop' = loop /\ loop # poolSize) /\ UNCHANGED <<pool, poolFlag, stops>>
    BY <1>7 DEF TestThread, threadVars, stopVars
  <2>2. Made = poolSize /\ Marked = poolSize /\ Made' = poolSize /\ Marked' = poolSize
    BY <1>0, <2>1 DEF Made, Marked
  <2>3. owner' = "waiting" => loop' < poolSize
    BY <1>0, <2>1
  <2>4. QED
    BY <1>0, <2>1, <2>2, <2>3 DEF MadeInv
<1>8. CASE WaitToTerminate
  <2>1. owner = "waiting" /\ owner' = "joining" /\ UNCHANGED <<pool, poolFlag, stops, loop>>
    BY <1>8 DEF WaitToTerminate, threadVars
  <2>2. Made = poolSize /\ Marked = poolSize /\ Made' = poolSize /\ Marked' = poolSize
    BY <1>0, <2>1 DEF Made, Marked
  <2>3. QED
    BY <1>0, <2>1, <2>2 DEF MadeInv
<1>9. CASE Join
  <2>1. /\ owner = "joining" /\ owner' = "stopping" /\ UNCHANGED <<poolFlag, stops>>
        /\ pool[turnedOffIndex] = "ended" /\ turnedOffIndex \in Index
        /\ pool'[turnedOffIndex] = "joined"
        /\ \A k \in Index : k # turnedOffIndex => pool'[k] = pool[k]
    BY <1>9 DEF Join, PoolTypes, stopVars
  <2>2. Made = poolSize /\ Marked = poolSize /\ Made' = poolSize /\ Marked' = poolSize
    BY <1>0, <2>1 DEF Made, Marked
  <2>3. QED
    BY <1>0, <2>1, <2>2 DEF MadeInv
<1>10. ASSUME UNCHANGED <<owner, loop, stops, pool, poolFlag>> PROVE MadeInv'
  <2>1. Made' = Made /\ Marked' = Marked
    BY <1>0, <1>10 DEF Made, Marked
  <2>2. QED
    BY <1>0, <1>10, <2>1 DEF MadeInv
<1>11. ASSUME NEW i \in Index, GetToken(i) \/ GetJob(i) \/ CallJob(i) \/ FinishJob(i) PROVE MadeInv'
  <2>1. UNCHANGED <<owner, loop, stops>> /\ UNCHANGED poolFlag
    BY <1>11 DEF GetToken, GetJob, CallJob, FinishJob, stopVars
  <2>2. pool[i] \in {"wait", "token", "took", "busy"}
        /\ \E a \in {"wait", "token", "took", "busy"} : pool' = [pool EXCEPT ![i] = a]
    BY <1>11 DEF GetToken, GetJob, CallJob, FinishJob
  <2>3. QED
    BY <1>3, <2>1, <2>2
<1>12. ASSUME (\E j \in Job : ExecuteInsidePool(j)) \/ UNCHANGED poolVars PROVE MadeInv'
  <2>1. UNCHANGED <<owner, loop, stops, pool, poolFlag>>
    BY <1>12 DEF ExecuteInsidePool, poolVars, threadVars, stopVars
  <2>2. QED
    BY <1>10, <2>1
<1>13. QED
  BY <1>1, <1>2, <1>4, <1>5, <1>6, <1>7, <1>8, <1>9, <1>11, <1>12
  DEF PoolNext, PoolRun, PoolThreads

\* The terminate job.
LEMMA TerminateKept ==
  ASSUME PoolInv, [PoolNext]_poolVars
  PROVE  TerminateInv'
<1> USE PoolConstants DEF PoolInv
<1>1. ASSUME NEW j \in Job, ExecuteInsidePool(j) PROVE TerminateInv'
  <2>1. owner = "using" /\ ToSet(jobQueue') = ToSet(jobQueue) \cup {j} /\ j # Terminate
        /\ UNCHANGED <<pool, jobOf, waitToTerminate, turnedOffIndex, stops, owner, loop>>
    BY <1>1, PutJobQueue DEF ExecuteInsidePool, threadVars, stopVars
  <2>2. QED
    BY <2>1 DEF TerminateInv
<1>2. ASSUME NEW i \in Index, GetJob(i) PROVE TerminateInv'
  <2>1. /\ pool[i] = "token" /\ jobQueue # <<>> /\ jobQueue' = Tail(jobQueue) /\ pool'[i] = "took"
        /\ jobOf'[i] = Head(jobQueue)
        /\ \A k \in Index : k # i => pool'[k] = pool[k] /\ jobOf'[k] = jobOf[k]
        /\ UNCHANGED <<waitToTerminate, turnedOffIndex, stops, owner, loop>>
    BY <1>2 DEF GetJob, PoolTypes, stopVars
  <2>2. /\ ToSet(jobQueue) = ToSet(jobQueue') \cup {Head(jobQueue)} /\ Head(jobQueue) \notin ToSet(jobQueue')
        /\ jobQueue' # <<>> => jobQueue'[Len(jobQueue')] = jobQueue[Len(jobQueue)]
        /\ Head(jobQueue) = jobQueue[Len(jobQueue)] => jobQueue' = <<>>
    BY <2>1, GetJobQueue
  <2>3. (\A k \in Index : pool[k] # "ended") /\ owner # "joining" /\ ~(waitToTerminate > 0)
        /\ ~(\E k \in Index : pool[k] = "took" /\ jobOf[k] = Terminate)
    BY <2>1 DEF TerminateInv, PoolTypes
  <2>4. ~(owner = "stopped" \/ (owner = "stopping" /\ (loop > 0 \/ stops = 2)))
    BY <2>1 DEF TerminateInv
  <2>5. waitToTerminate = 0
    BY <2>3 DEF PoolTypes
  <2>6. CASE Head(jobQueue) = Terminate
    <3>1. owner = "waiting" /\ jobQueue' = <<>> /\ Terminate \notin ToSet(jobQueue')
      BY <2>2, <2>6 DEF TerminateInv
    <3>2. QED
      BY <2>1, <2>3, <2>4, <2>5, <3>1 DEF TerminateInv
  <2>7. CASE Head(jobQueue) # Terminate
    <3>1. Terminate \in ToSet(jobQueue') => jobQueue' # <<>>
      BY DEF ToSet
    <3>2. QED
      BY <2>1, <2>2, <2>3, <2>4, <2>5, <2>7, <3>1 DEF TerminateInv
  <2>8. QED
    BY <2>6, <2>7
<1>3. ASSUME NEW i \in Index, EndThread(i) PROVE TerminateInv'
  <2>1. /\ pool[i] = "took" /\ jobOf[i] = Terminate /\ pool'[i] = "ended"
        /\ turnedOffIndex' = i /\ waitToTerminate' = waitToTerminate + 1
        /\ \A k \in Index : k # i => pool'[k] = pool[k]
        /\ UNCHANGED <<jobQueue, jobOf, stops, owner, loop>>
    BY <1>3 DEF EndThread, PoolTypes, queueVars
  <2>2. /\ owner = "waiting" /\ jobQueue = <<>> /\ waitToTerminate = 0
        /\ \A k \in Index : pool[k] # "ended" /\ (pool[k] = "took" /\ jobOf[k] = Terminate => k = i)
    BY <2>1 DEF TerminateInv
  <2>3. Terminate \notin ToSet(jobQueue)
    BY <2>1 DEF TerminateInv
  <2>4. QED
    BY <2>1, <2>2, <2>3 DEF TerminateInv
<1>4. ASSUME NEW i \in Index, BeginThread(i) \/ GetToken(i) \/ CallJob(i) \/ FinishJob(i) PROVE TerminateInv'
  <2>1. /\ UNCHANGED <<jobQueue, jobOf, waitToTerminate, turnedOffIndex, stops, owner, loop>>
        /\ pool[i] \in {"begin", "wait", "took", "busy"} /\ (pool[i] = "took" => jobOf[i] # Terminate)
        /\ pool'[i] \in {"wait", "token", "busy"} /\ \A k \in Index : k # i => pool'[k] = pool[k]
    BY <1>4 DEF BeginThread, GetToken, CallJob, FinishJob, PoolTypes, stopVars, queueVars
  <2>2. QED
    BY <2>1 DEF TerminateInv, PoolTypes
<1>5. CASE Stop
  <2>1. /\ owner \in {"using", "stopped"} /\ owner' = "stopping" /\ loop' = 0 /\ stops' = stops + 1
        /\ UNCHANGED <<pool, jobOf, jobQueue, waitToTerminate, turnedOffIndex>>
    BY <1>5 DEF Stop, threadVars, queueVars
  <2>2. stops' = 2 => owner = "stopped"
    BY <2>1 DEF MadeInv, PoolTypes
  <2>3. (\A i \in Index : pool[i] # "ended") /\ ~(waitToTerminate > 0)
        /\ ~(\E k \in Index : pool[k] = "took" /\ jobOf[k] = Terminate) /\ Terminate \notin ToSet(jobQueue)
    BY <2>1 DEF TerminateInv, PoolTypes
  <2>4. QED
    BY <2>1, <2>2, <2>3 DEF TerminateInv
<1>6. CASE TestThread
  <2>1. /\ owner = "stopping"
        /\ UNCHANGED <<pool, jobOf, waitToTerminate, turnedOffIndex, stops>>
    BY <1>6 DEF TestThread, threadVars, stopVars
  <2>2. (\A i \in Index : pool[i] # "ended") /\ ~(waitToTerminate > 0) /\ waitToTerminate = 0
        /\ ~(\E k \in Index : pool[k] = "took" /\ jobOf[k] = Terminate) /\ Terminate \notin ToSet(jobQueue)
    BY <2>1 DEF TerminateInv, PoolTypes
  <2>3. CASE owner' = "waiting" /\ PutJob(Terminate)
    <3>1. PutJob(Terminate) /\ Terminate \in Job \cup {Terminate} /\ PoolTypes
      BY <2>3
    <3>2. jobQueue'[Len(jobQueue')] = Terminate
      BY ONLY <3>1, PutJobQueue
    <3>3. QED
      BY <2>1, <2>2, <2>3, <3>2 DEF TerminateInv
  <2>4. CASE UNCHANGED queueVars /\ owner' \in {"stopping", "stopped"}
    <3>1. jobQueue' = jobQueue
      BY <2>4 DEF queueVars
    <3>2. jobQueue = <<>>
      <4>1. CASE stops = 2 \/ loop > 0
        BY <2>1, <4>1 DEF TerminateInv
      <4>2. CASE ~(stops = 2 \/ loop > 0)
        <5>1. loop = 0 /\ stops = 1 /\ poolSize \in Nat /\ poolSize >= 1
          BY <2>1, <4>2 DEF PoolTypes, MadeInv
        <5>2. Joined = {} /\ Marked = poolSize /\ Made = poolSize
          BY <2>1, <5>1 DEF JoinInv, Marked, Made
        <5>3. pool[0] \notin {"ended", "joined"}
          BY <2>2, <5>2 DEF Joined
        <5>4. poolFlag[0]
          BY <5>1, <5>2, <5>3 DEF MadeInv
        <5>5. QED
          BY <1>6, <2>4, <5>1, <5>4 DEF TestThread
      <4>3. QED
        BY <4>1, <4>2
    <3>3. QED
      BY <2>1, <2>2, <2>4, <3>1, <3>2 DEF TerminateInv
  <2>5. QED
    BY <1>6, <2>3, <2>4 DEF TestThread
<1>7. CASE WaitToTerminate
  <2>1. /\ owner = "waiting" /\ waitToTerminate > 0 /\ waitToTerminate' = waitToTerminate - 1
        /\ owner' = "joining" /\ turnedOffIndex \in Index
        /\ UNCHANGED <<pool, jobOf, jobQueue, turnedOffIndex, stops, loop>>
    BY <1>7 DEF WaitToTerminate, threadVars, queueVars, PoolTypes
  <2>2. pool[turnedOffIndex] = "ended" /\ waitToTerminate = 1 /\ jobQueue = <<>>
    BY <2>1 DEF TerminateInv
  <2>3. ~(\E k \in Index : pool[k] = "took" /\ jobOf[k] = Terminate) /\ Terminate \notin ToSet(jobQueue)
    BY <2>1, <2>2 DEF TerminateInv
  <2>4. \A k \in Index : pool[k] = "ended" => turnedOffIndex = k
    BY DEF TerminateInv
  <2>5. QED
    BY <2>1, <2>2, <2>3, <2>4 DEF TerminateInv
<1>8. CASE Join
  <2>1. /\ owner = "joining" /\ owner' = "stopping" /\ turnedOffIndex \in Index
        /\ pool[turnedOffIndex] = "ended" /\ pool'[turnedOffIndex] = "joined"
        /\ \A k \in Index : k # turnedOffIndex => pool'[k] = pool[k]
        /\ UNCHANGED <<jobOf, jobQueue, turnedOffIndex, stops, waitToTerminate>>
    BY <1>8 DEF Join, queueVars, stopVars, PoolTypes
  <2>2. jobQueue = <<>> /\ waitToTerminate = 0
    BY <2>1 DEF TerminateInv
  <2>3. ~(\E k \in Index : pool[k] = "took" /\ jobOf[k] = Terminate) /\ Terminate \notin ToSet(jobQueue)
    BY <2>1 DEF TerminateInv
  <2>4. \A k \in Index : pool[k] = "ended" => turnedOffIndex = k
    BY DEF TerminateInv
  <2>5. QED
    BY <2>1, <2>2, <2>3, <2>4 DEF TerminateInv
<1>9. CASE CreateThread
  <2>1. /\ owner = "new" /\ owner' = "created" /\ pool' = [pool EXCEPT ![loop] = "begin"]
        /\ UNCHANGED <<jobOf, jobQueue, waitToTerminate, turnedOffIndex, loop, stops>>
    BY <1>9 DEF CreateThread, queueVars, stopVars
  <2>2. (\A i \in Index : pool[i] # "ended") /\ ~(waitToTerminate > 0)
        /\ ~(\E k \in Index : pool[k] = "took" /\ jobOf[k] = Terminate) /\ Terminate \notin ToSet(jobQueue)
    BY <2>1 DEF TerminateInv, PoolTypes
  <2>3. \A i \in Index : pool'[i] = pool[i] \/ pool'[i] = "begin"
    BY <2>1 DEF PoolTypes
  <2>4. QED
    BY <2>1, <2>2, <2>3 DEF TerminateInv
<1>10. CASE MarkRunning
  <2>1. /\ owner = "created" /\ owner' \in {"using", "new"}
        /\ UNCHANGED <<pool, jobOf, jobQueue, waitToTerminate, turnedOffIndex, stops>>
    BY <1>10 DEF MarkRunning, queueVars, stopVars
  <2>2. (\A i \in Index : pool[i] # "ended") /\ ~(waitToTerminate > 0)
        /\ ~(\E k \in Index : pool[k] = "took" /\ jobOf[k] = Terminate) /\ Terminate \notin ToSet(jobQueue)
    BY <2>1 DEF TerminateInv, PoolTypes
  <2>3. QED
    BY <2>1, <2>2 DEF TerminateInv
<1>11. CASE UNCHANGED poolVars
  BY <1>11 DEF TerminateInv, poolVars, threadVars, queueVars, stopVars
<1>12. QED
  BY <1>1, <1>2, <1>3, <1>4, <1>5, <1>6, <1>7, <1>8, <1>9, <1>10, <1>11
  DEF PoolNext, PoolRun, PoolThreads

\* Where jobs are.
LEMMA JobPlacesKept ==
  ASSUME PoolInv, [PoolNext]_poolVars
  PROVE  JobPlaces'
<1> USE PoolConstants DEF PoolInv
<1>1. ASSUME NEW j \in Job, ExecuteInsidePool(j) PROVE JobPlaces'
  <2>1. /\ ToSet(jobQueue') = ToSet(jobQueue) \cup {j} /\ started[j] = 0 /\ finished[j] = 0
        /\ \A i \in Index : pool[i] \in {"took", "busy"} => jobOf[i] # j
        /\ UNCHANGED <<pool, jobOf, started, finished>>
    BY <1>1, PutJobQueue DEF ExecuteInsidePool, threadVars, jobVars
  <2>2. QED
    BY <2>1 DEF JobPlaces
<1>2. ASSUME NEW i \in Index, GetJob(i) PROVE JobPlaces'
  <2>1. /\ pool[i] = "token" /\ jobQueue # <<>> /\ jobQueue' = Tail(jobQueue) /\ pool'[i] = "took"
        /\ jobOf'[i] = Head(jobQueue)
        /\ \A k \in Index : k # i => pool'[k] = pool[k] /\ jobOf'[k] = jobOf[k]
        /\ UNCHANGED <<started, finished>>
    BY <1>2 DEF GetJob, PoolTypes, jobVars
  <2>2. /\ ToSet(jobQueue) = ToSet(jobQueue') \cup {Head(jobQueue)} /\ Head(jobQueue) \notin ToSet(jobQueue')
        /\ Head(jobQueue) \in Job \cup {Terminate}
    BY <2>1, GetJobQueue
  <2>3. (\A j \in Job : j \in ToSet(jobQueue) =>
          started[j] = 0 /\ \A k \in Index : pool[k] \in {"took", "busy"} => jobOf[k] # j)'
    BY <2>1, <2>2 DEF JobPlaces
  <2>4. (\A k, l \in Index : pool[k] \in {"took", "busy"} /\ pool[l] \in {"took", "busy"}
           /\ jobOf[k] = jobOf[l] /\ jobOf[k] # Terminate => k = l)'
    <3> SUFFICES ASSUME NEW k \in Index, NEW l \in Index, pool'[k] \in {"took", "busy"},
                        pool'[l] \in {"took", "busy"}, jobOf'[k] = jobOf'[l], jobOf'[k] # Terminate
                 PROVE  k = l
      OBVIOUS
    <3>1. ASSUME NEW m \in Index, m # i, pool'[m] \in {"took", "busy"}, Head(jobQueue) \in Job
          PROVE  jobOf'[m] # Head(jobQueue)
      <4>1. jobOf'[m] = jobOf[m] /\ pool[m] \in {"took", "busy"}
        BY <2>1, <3>1
      <4>2. Head(jobQueue) \in ToSet(jobQueue)
        BY <2>2
      <4>3. QED
        <5>1. PICK h \in Job : h = Head(jobQueue)
          BY <3>1
        <5>2. \A n \in Index : pool[n] \in {"took", "busy"} => jobOf[n] # h
          BY <4>2, <5>1 DEF JobPlaces
        <5>3. QED
          BY <3>1, <4>1, <5>1, <5>2
    <3>2. k = i \/ l = i => k = l
      <4>1. jobOf'[k] = Head(jobQueue) \/ jobOf'[l] = Head(jobQueue) => Head(jobQueue) \in Job
        BY <2>2
      <4>2. k = i /\ l # i => FALSE
        BY <2>1, <3>1, <4>1
      <4>3. k # i /\ l = i => FALSE
        BY <2>1, <3>1, <4>1
      <4>4. QED
        BY <4>2, <4>3
    <3>3. k # i /\ l # i => k = l
      BY <2>1 DEF JobPlaces
    <3>4. QED
      BY <3>2, <3>3
  <2>5. (\A k \in Index : pool[k] = "took" /\ jobOf[k] # Terminate => started[jobOf[k]] = 0)'
    <3> SUFFICES ASSUME NEW k \in Index, pool'[k] = "took", jobOf'[k] # Terminate
                 PROVE  started'[jobOf'[k]] = 0
      OBVIOUS
    <3>1. CASE k = i
      <4>1. jobOf'[k] = Head(jobQueue) /\ Head(jobQueue) \in Job /\ Head(jobQueue) \in ToSet(jobQueue)
        BY <2>1, <2>2, <3>1
      <4>2. QED
        BY <2>1, <4>1 DEF JobPlaces
    <3>2. CASE k # i
      BY <2>1, <3>2 DEF JobPlaces
    <3>3. QED
      BY <3>1, <3>2
  <2>6. (\A k \in Index : pool[k] = "busy" =>
           jobOf[k] \in Job /\ started[jobOf[k]] = 1 /\ finished[jobOf[k]] = 0)'
    BY <2>1 DEF JobPlaces
  <2>7. (\A j \in Job : started[j] # finished[j] => \E k \in Index : pool[k] = "busy" /\ jobOf[k] = j)'
    BY <2>1 DEF JobPlaces
  <2>8. (\A j \in Job : finished[j] <= started[j])'
    BY <2>1 DEF JobPlaces
  <2>9. QED
    BY <2>3, <2>4, <2>5, <2>6, <2>7, <2>8 DEF JobPlaces
<1>3. ASSUME NEW i \in Index, CallJob(i) PROVE JobPlaces'
  <2>1. /\ pool[i] = "took" /\ jobOf[i] \in Job /\ pool'[i] = "busy" /\ jobOf[i] # Terminate
        /\ \A k \in Index : k # i => pool'[k] = pool[k]
        /\ started' = [started EXCEPT ![jobOf[i]] = @ + 1]
        /\ UNCHANGED <<jobOf, jobQueue, finished>>
    BY <1>3 DEF CallJob, PoolTypes, queueVars
  <2>2. PICK j \in Job : j = jobOf[i]
    BY <2>1
  <2>3. started[j] = 0 /\ finished[j] = 0 /\ j \notin ToSet(jobQueue)
        /\ \A k \in Index : pool[k] \in {"took", "busy"} /\ jobOf[k] = j => k = i
    <3>1. started[j] = 0 /\ finished[j] \in 0 .. 1 /\ finished[j] <= started[j]
      BY <2>1, <2>2 DEF JobPlaces, PoolTypes
    <3>2. QED
      BY <2>1, <2>2, <3>1 DEF JobPlaces
  <2>4. started'[j] = 1 /\ \A l \in Job : l # j => started'[l] = started[l]
    BY <2>1, <2>2, <2>3 DEF PoolTypes
  <2>5. \A k \in Index : pool'[k] \in {"took", "busy"} <=> pool[k] \in {"took", "busy"}
    BY <2>1
  <2>6. (\A l \in Job : l \in ToSet(jobQueue) =>
          started[l] = 0 /\ \A k \in Index : pool[k] \in {"took", "busy"} => jobOf[k] # l)'
    BY <2>1, <2>3, <2>4, <2>5 DEF JobPlaces
  <2>7. (\A k, l \in Index : pool[k] \in {"took", "busy"} /\ pool[l] \in {"took", "busy"}
           /\ jobOf[k] = jobOf[l] /\ jobOf[k] # Terminate => k = l)'
    BY <2>1, <2>5 DEF JobPlaces
  <2>8. (\A k \in Index : pool[k] = "took" /\ jobOf[k] # Terminate => started[jobOf[k]] = 0)'
    <3> SUFFICES ASSUME NEW k \in Index, pool'[k] = "took", jobOf[k] # Terminate
                 PROVE  started'[jobOf[k]] = 0
      BY <2>1
    <3>1. k # i /\ pool[k] = "took" /\ jobOf[k] \in Job
      BY <2>1 DEF PoolTypes
    <3>2. QED
      BY <2>3, <2>4, <3>1 DEF JobPlaces
  <2>9. (\A k \in Index : pool[k] = "busy" =>
           jobOf[k] \in Job /\ started[jobOf[k]] = 1 /\ finished[jobOf[k]] = 0)'
    <3> SUFFICES ASSUME NEW k \in Index, pool'[k] = "busy"
                 PROVE  jobOf[k] \in Job /\ started'[jobOf[k]] = 1 /\ finished[jobOf[k]] = 0
      BY <2>1
    <3>1. CASE k = i
      BY <2>1, <2>2, <2>3, <2>4, <3>1
    <3>2. CASE k # i
      BY <2>1, <2>3, <2>4, <3>2 DEF JobPlaces
    <3>3. QED
      BY <3>1, <3>2
  <2>10. (\A l \in Job : started[l] # finished[l] => \E k \in Index : pool[k] = "busy" /\ jobOf[k] = l)'
    <3> SUFFICES ASSUME NEW l \in Job, started'[l] # finished[l]
                 PROVE  \E k \in Index : pool'[k] = "busy" /\ jobOf[k] = l
      BY <2>1
    <3>1. CASE l = j
      BY <2>1, <2>2, <3>1
    <3>2. CASE l # j
      BY <2>1, <2>4, <3>2 DEF JobPlaces
    <3>3. QED
      BY <3>1, <3>2
  <2>11. (\A l \in Job : finished[l] <= started[l])'
    BY <2>1, <2>3, <2>4 DEF JobPlaces
  <2>12. QED
    BY <2>6, <2>7, <2>8, <2>9, <2>10, <2>11 DEF JobPlaces
<1>4. ASSUME NEW i \in Index, FinishJob(i) PROVE JobPlaces'
  <2>1. /\ pool[i] = "busy" /\ pool'[i] = "wait"
        /\ \A k \in Index : k # i => pool'[k] = pool[k]
        /\ finished' = [finished EXCEPT ![jobOf[i]] = @ + 1]
        /\ UNCHANGED <<jobOf, jobQueue, started>>
    BY <1>4 DEF FinishJob, PoolTypes, queueVars
  <2>2. PICK j \in Job : j = jobOf[i]
    BY <2>1 DEF JobPlaces
  <2>3. /\ started[j] = 1 /\ finished[j] = 0 /\ j # Terminate
        /\ \A k \in Index : pool[k] \in {"took", "busy"} /\ jobOf[k] = j => k = i
    BY <2>1, <2>2 DEF JobPlaces
  <2>4. finished'[j] = 1 /\ \A l \in Job : l # j => finished'[l] = finished[l]
    BY <2>1, <2>2, <2>3 DEF PoolTypes
  <2>5. \A k \in Index : pool'[k] \in {"took", "busy"} => k # i /\ pool'[k] = pool[k]
    BY <2>1
  <2>6. (\A l \in Job : l \in ToSet(jobQueue) =>
          started[l] = 0 /\ \A k \in Index : pool[k] \in {"took", "busy"} => jobOf[k] # l)'
    BY <2>1, <2>5 DEF JobPlaces
  <2>7. (\A k, l \in Index : pool[k] \in {"took", "busy"} /\ pool[l] \in {"took", "busy"}
           /\ jobOf[k] = jobOf[l] /\ jobOf[k] # Terminate => k = l)'
    BY <2>1, <2>5 DEF JobPlaces
  <2>8. (\A k \in Index : pool[k] = "took" /\ jobOf[k] # Terminate => started[jobOf[k]] = 0)'
    BY <2>1, <2>5 DEF JobPlaces
  <2>9. (\A k \in Index : pool[k] = "busy" =>
           jobOf[k] \in Job /\ started[jobOf[k]] = 1 /\ finished[jobOf[k]] = 0)'
    BY <2>1, <2>3, <2>4, <2>5 DEF JobPlaces
  <2>10. (\A l \in Job : started[l] # finished[l] => \E k \in Index : pool[k] = "busy" /\ jobOf[k] = l)'
    BY <2>1, <2>2, <2>3, <2>4 DEF JobPlaces
  <2>11. (\A l \in Job : finished[l] <= started[l])'
    BY <2>1, <2>3, <2>4 DEF JobPlaces
  <2>12. QED
    BY <2>6, <2>7, <2>8, <2>9, <2>10, <2>11 DEF JobPlaces
<1>5. ASSUME UNCHANGED <<jobOf, started, finished>>, Terminate \notin Job,
             ToSet(jobQueue') \subseteq ToSet(jobQueue) \cup {Terminate},
             \A k \in Index : \/ pool'[k] = pool[k]
                             \/ (pool[k] # "busy" /\ pool'[k] \notin {"busy", "took"})
      PROVE  JobPlaces'
  BY <1>5 DEF JobPlaces
<1>6. CASE TestThread
  <2>1. ToSet(jobQueue') \subseteq ToSet(jobQueue) \cup {Terminate}
    <3>1. CASE PutJob(Terminate)
      <4>1. PutJob(Terminate) /\ Terminate \in Job \cup {Terminate} /\ PoolTypes
        BY <3>1
      <4>2. QED
        BY ONLY <4>1, PutJobQueue
    <3>2. CASE UNCHANGED queueVars
      BY <3>2 DEF queueVars
    <3>3. QED
      BY <1>6, <3>1, <3>2 DEF TestThread
  <2>2. QED
    <3>1. UNCHANGED <<pool, jobOf, started, finished>>
      BY <1>6 DEF TestThread, threadVars, jobVars
    <3>2. QED
      BY <1>5, <2>1, <3>1
<1>7. ASSUME \/ CreateThread \/ MarkRunning \/ Stop \/ WaitToTerminate \/ Join \/ UNCHANGED poolVars
             \/ \E i \in Index : BeginThread(i) \/ GetToken(i) \/ EndThread(i)
      PROVE  JobPlaces'
  <2>1. UNCHANGED <<jobOf, started, finished, jobQueue>>
    BY <1>7 DEF CreateThread, MarkRunning, Stop, WaitToTerminate, Join, poolVars, BeginThread,
       GetToken, EndThread, threadVars, queueVars, jobVars
  <2>2. \A k \in Index : \/ pool'[k] = pool[k]
                        \/ (pool[k] # "busy" /\ pool'[k] \notin {"busy", "took"})
    <3>1. CASE CreateThread
      <4>1. pool[loop] = "none" /\ pool' = [pool EXCEPT ![loop] = "begin"]
        BY <3>1 DEF CreateThread, MadeInv, Made, Index, PoolTypes
      <4>2. QED
        BY <4>1 DEF PoolTypes
    <3>2. CASE Join
      BY <3>2 DEF Join, PoolTypes
    <3>3. ASSUME NEW i \in Index, BeginThread(i) \/ GetToken(i) \/ EndThread(i)
          PROVE  \A k \in Index : \/ pool'[k] = pool[k]
                                 \/ (pool[k] # "busy" /\ pool'[k] \notin {"busy", "took"})
      BY <3>3 DEF BeginThread, GetToken, EndThread, PoolTypes
    <3>4. CASE MarkRunning \/ Stop \/ WaitToTerminate \/ UNCHANGED poolVars
      BY <3>4 DEF MarkRunning, Stop, WaitToTerminate, poolVars, threadVars
    <3>5. QED
      BY <1>7, <3>1, <3>2, <3>3, <3>4
  <2>3. ToSet(jobQueue') \subseteq ToSet(jobQueue) \cup {Terminate}
    BY <2>1
  <2>4. QED
    BY <1>5, <2>1, <2>2, <2>3
<1>8. QED
  BY <1>1, <1>2, <1>3, <1>4, <1>6, <1>7 DEF PoolNext, PoolRun, PoolThreads

\* Tokens of the semaphore and in hands are as many as there are jobs.
LEMMA TokensKept ==
  ASSUME PoolInv, [PoolNext]_poolVars
  PROVE  TokenInv'
<1> USE PoolConstants DEF PoolInv
<1>0. IsFiniteSet(Tokens) /\ Cardinality(Tokens) \in Nat /\ waitForJob \in Nat
      /\ waitForJob + Cardinality(Tokens) = Len(jobQueue)
  BY FS_CardinalityType DEF TokenInv, PoolTypes
<1>1. ASSUME NEW j \in Job \cup {Terminate}, PutJob(j), pool' = pool PROVE TokenInv'
  <2>1. Len(jobQueue') = Len(jobQueue) + 1 /\ waitForJob' = waitForJob + 1
    BY <1>1, PutJobQueue
  <2>2. Tokens' = Tokens
    BY <1>1 DEF Tokens
  <2>3. QED
    BY <1>0, <2>1, <2>2 DEF TokenInv
<1>2. ASSUME NEW i \in Index, GetToken(i) PROVE TokenInv'
  <2>1. Tokens' = Tokens \cup {i} /\ i \notin Tokens
    BY <1>2 DEF GetToken, Tokens, PoolTypes
  <2>2. IsFiniteSet(Tokens') /\ Cardinality(Tokens') = Cardinality(Tokens) + 1
    BY <1>0, <2>1, FS_AddElement
  <2>3. waitForJob' = waitForJob - 1 /\ jobQueue' = jobQueue
    BY <1>2 DEF GetToken
  <2>4. QED
    BY <1>0, <2>2, <2>3 DEF TokenInv
<1>3. ASSUME NEW i \in Index, GetJob(i) PROVE TokenInv'
  <2>1. Tokens' = Tokens \ {i} /\ i \in Tokens
    BY <1>3 DEF GetJob, Tokens, PoolTypes
  <2>2. IsFiniteSet(Tokens') /\ Cardinality(Tokens') = Cardinality(Tokens) - 1
    BY <1>0, <2>1, FS_RemoveElement
  <2>3. waitForJob' = waitForJob /\ Len(jobQueue') = Len(jobQueue) - 1
    BY <1>3, GetJobQueue DEF GetJob
  <2>4. QED
    BY <1>0, <2>2, <2>3 DEF TokenInv
<1>4. ASSUME UNCHANGED <<waitForJob, jobQueue>>, Tokens' = Tokens PROVE TokenInv'
  BY <1>0, <1>4 DEF TokenInv
<1>5. ASSUME NEW j \in Job, ExecuteInsidePool(j) PROVE TokenInv'
  BY <1>1, <1>5 DEF ExecuteInsidePool, threadVars
<1>6. CASE TestThread
  <2>1. CASE PutJob(Terminate)
    BY <1>1, <1>6, <2>1 DEF TestThread, threadVars
  <2>2. CASE UNCHANGED queueVars
    BY <1>4, <1>6, <2>2 DEF TestThread, threadVars, queueVars, Tokens
  <2>3. QED
    BY <1>6, <2>1, <2>2 DEF TestThread
<1>7. ASSUME \/ CreateThread \/ MarkRunning \/ Stop \/ WaitToTerminate \/ Join \/ UNCHANGED poolVars
             \/ \E i \in Index : BeginThread(i) \/ CallJob(i) \/ FinishJob(i) \/ EndThread(i)
      PROVE  TokenInv'
  <2>1. UNCHANGED <<waitForJob, jobQueue>>
    BY <1>7 DEF CreateThread, MarkRunning, Stop, WaitToTerminate, Join, poolVars, BeginThread,
       CallJob, FinishJob, EndThread, queueVars
  <2>2. \A k \in Index : pool'[k] = "token" <=> pool[k] = "token"
    <3>1. CASE CreateThread
      <4>1. pool[loop] = "none" /\ pool' = [pool EXCEPT ![loop] = "begin"]
        BY <3>1 DEF CreateThread, MadeInv, Made, Index, PoolTypes
      <4>2. QED
        BY <4>1 DEF PoolTypes
    <3>2. CASE Join
      BY <3>2 DEF Join, PoolTypes
    <3>3. ASSUME NEW i \in Index, BeginThread(i) \/ CallJob(i) \/ FinishJob(i) \/ EndThread(i)
          PROVE  \A k \in Index : pool'[k] = "token" <=> pool[k] = "token"
      BY <3>3 DEF BeginThread, CallJob, FinishJob, EndThread, PoolTypes
    <3>4. CASE MarkRunning \/ Stop \/ WaitToTerminate \/ UNCHANGED poolVars
      BY <3>4 DEF MarkRunning, Stop, WaitToTerminate, poolVars, threadVars
    <3>5. QED
      BY <1>7, <3>1, <3>2, <3>3, <3>4
  <2>3. Tokens' = Tokens
    BY <2>2 DEF Tokens
  <2>4. QED
    BY <1>4, <2>1, <2>3
<1>8. QED
  BY <1>2, <1>3, <1>5, <1>6, <1>7 DEF PoolNext, PoolRun, PoolThreads

\* The two calls of stop.
LEMMA JoinKept ==
  ASSUME PoolInv, [PoolNext]_poolVars
  PROVE  JoinInv'
<1> USE PoolConstants DEF PoolInv
<1>0. /\ poolSize \in Nat /\ poolSize >= 1 /\ loop \in Nat /\ loop <= poolSize /\ stops \in Nat /\ stops <= 2
  BY DEF PoolTypes
<1>00. \A i \in Index : i \in Nat
  OBVIOUS
<1>1. ASSUME UNCHANGED <<poolSize, owner, stops, loop>>, Joined' = Joined, Alive' = Alive PROVE JoinInv'
  BY <1>1 DEF JoinInv, TwoJoined
<1>2. CASE Stop
  <2>1. /\ owner \in {"using", "stopped"} /\ owner' = "stopping" /\ loop' = 0 /\ stops' = stops + 1
        /\ UNCHANGED <<poolSize, pool>>
    BY <1>2 DEF Stop, threadVars
  <2>2. Joined' = Joined /\ Alive' = Alive
    BY <2>1 DEF Joined, Alive
  <2>3. CASE owner = "using"
    <3>1. stops = 0 /\ Joined = {}
      BY <2>3 DEF MadeInv, Joined
    <3>2. QED
      BY <2>1, <2>2, <3>1 DEF JoinInv
  <2>4. CASE owner = "stopped"
    <3>1. stops # 0
      BY <2>4 DEF MadeInv
    <3>2. stops = 1 /\ stops' = 2
      BY <1>0, <1>2, <2>1, <3>1 DEF Stop
    <3>3. loop = poolSize
      BY <2>4 DEF JoinInv
    <3>4. ASSUME poolSize <= 3, NEW i \in Alive, NEW k \in Alive PROVE i = k
      <4>1. i \in Index /\ k \in Index /\ i \notin Joined /\ k \notin Joined /\ i < poolSize /\ k < poolSize
        BY <1>0, <2>4 DEF Alive, Joined, MadeInv, Made
      <4>2. \A a \in Joined : a \in Index /\ a < poolSize
        BY <1>0, <2>4 DEF Joined, MadeInv, Made
      <4>3. CASE poolSize = 1
        BY <4>1, <4>3
      <4>4. CASE poolSize = 2
        <5>1. PICK a \in Joined : TRUE
          BY <3>2, <3>3, <4>4 DEF JoinInv
        <5>2. QED
          BY <4>1, <4>2, <4>4, <5>1
      <4>5. CASE poolSize = 3
        <5>1. PICK a \in Joined, b \in Joined : a # b
          BY <3>2, <3>3, <4>5 DEF JoinInv, TwoJoined
        <5>2. QED
          BY <4>1, <4>2, <4>5, <5>1
      <4>6. QED
        BY <1>0, <3>4, <4>3, <4>4, <4>5
    <3>5. \A i \in Alive : i >= 0
      BY DEF Alive
    <3>6. QED
      BY <2>1, <2>2, <3>2, <3>4, <3>5 DEF JoinInv
  <2>5. QED
    BY <2>1, <2>3, <2>4
<1>3. CASE TestThread
  <2>1. /\ owner = "stopping" /\ UNCHANGED <<poolSize, pool, stops>>
    BY <1>3 DEF TestThread, threadVars, stopVars
  <2>2. Joined' = Joined /\ Alive' = Alive
    BY <2>1 DEF Joined, Alive
  <2>3. CASE UNCHANGED loop /\ owner' \in {"stopped", "waiting"} /\ (owner' = "stopped" => loop = poolSize)
    BY <2>1, <2>2, <2>3 DEF JoinInv, TwoJoined
  <2>4. CASE loop' = loop + 1 /\ UNCHANGED owner /\ loop # poolSize /\ ~poolFlag[loop]
    <3>1. loop \in Index /\ loop < Marked /\ loop < Made
      BY <1>0, <2>1, <2>4 DEF Index, PoolTypes, Marked, Made
    <3>2. pool[loop] \in {"ended", "joined"} /\ pool[loop] # "ended"
      BY <2>1, <2>4, <3>1 DEF MadeInv, TerminateInv
    <3>3. loop \in Joined /\ loop \notin Alive
      BY <3>1, <3>2 DEF Joined, Alive
    <3>4. CASE stops = 1
      <4>1. loop # 0
        BY <2>1, <3>3, <3>4 DEF JoinInv
      <4>2. poolSize <= 3 /\ loop = 2 => TwoJoined
        <5>1. poolSize <= 3 /\ loop = 2 => 1 \in Joined \/ TwoJoined
          BY <1>0, <2>1, <3>4 DEF JoinInv
        <5>2. QED
          BY <3>3, <5>1 DEF TwoJoined
      <4>3. QED
        BY <1>0, <2>1, <2>2, <2>4, <3>3, <3>4, <4>1, <4>2 DEF JoinInv, TwoJoined
    <3>5. CASE stops = 2
      <4>1. \A i \in Alive : i \in Nat /\ i # loop
        BY <3>3 DEF Alive
      <4>2. QED
        BY <1>0, <2>1, <2>2, <2>4, <3>5, <4>1 DEF JoinInv
    <3>6. QED
      BY <2>1, <3>4, <3>5 DEF MadeInv, PoolTypes
  <2>5. QED
    BY <1>3, <2>3, <2>4 DEF TestThread
<1>4. CASE WaitToTerminate
  BY <1>4 DEF WaitToTerminate, JoinInv, Joined, Alive, TwoJoined, threadVars
<1>5. CASE Join
  <2> DEFINE e == turnedOffIndex
  <2>1. /\ owner = "joining" /\ owner' = "stopping" /\ e \in Index /\ loop' = loop + 1
        /\ pool[e] = "ended" /\ pool' = [pool EXCEPT ![e] = "joined"]
        /\ UNCHANGED <<stops, poolSize>>
    BY <1>5 DEF Join, stopVars, PoolTypes
  <2>2. Joined' = Joined \cup {e} /\ e \notin Joined /\ Alive' = Alive \ {e} /\ e \in Alive
    BY <2>1 DEF Joined, Alive, PoolTypes
  <2> HIDE DEF e
  <2>3. loop' # 0
    BY <1>0, <2>1
  <2>4. CASE stops = 1 /\ poolSize <= 3
    <3>1. loop' >= 1 => Joined' # {}
      BY <2>2
    <3>2. loop' >= 2 => TwoJoined'
      <4> SUFFICES ASSUME loop' >= 2 PROVE TwoJoined'
        OBVIOUS
      <4>1. PICK a \in Joined : TRUE
        BY <1>0, <2>1, <2>4 DEF JoinInv
      <4>2. QED
        BY <2>2, <4>1 DEF TwoJoined
    <3>3. QED
      BY <1>0, <2>1, <2>3, <2>4, <3>1, <3>2 DEF JoinInv
  <2>5. CASE stops = 2 /\ poolSize <= 3
    <3>1. Alive' = {}
      BY <2>2, <2>5 DEF JoinInv
    <3>2. QED
      BY <2>1, <2>5, <3>1 DEF JoinInv
  <2>6. QED
    BY <2>1, <2>3, <2>4, <2>5 DEF JoinInv
<1>6. CASE CreateThread \/ MarkRunning
  <2>1. stops = 0 /\ stops' = stops /\ owner' \in {"new", "created", "using"}
    BY <1>6 DEF CreateThread, MarkRunning, MadeInv, stopVars
  <2>2. QED
    BY <2>1 DEF JoinInv
<1>7. ASSUME \/ UNCHANGED poolVars \/ \E j \in Job : ExecuteInsidePool(j)
             \/ \E i \in Index : BeginThread(i) \/ GetToken(i) \/ GetJob(i) \/ CallJob(i)
                                 \/ FinishJob(i) \/ EndThread(i)
      PROVE  JoinInv'
  <2>1. UNCHANGED <<poolSize, owner, stops, loop>>
    BY <1>7 DEF poolVars, stopVars, ExecuteInsidePool, BeginThread, GetToken, GetJob, CallJob,
       FinishJob, EndThread
  <2>2. \A k \in Index : /\ pool'[k] = "joined" <=> pool[k] = "joined"
                         /\ pool'[k] = "none" <=> pool[k] = "none"
    BY <1>7 DEF poolVars, threadVars, ExecuteInsidePool, BeginThread, GetToken, GetJob, CallJob,
       FinishJob, EndThread, PoolTypes
  <2>3. Joined' = Joined /\ Alive' = Alive
    BY <2>2 DEF Joined, Alive
  <2>4. QED
    BY <1>1, <2>1, <2>3
<1>8. QED
  BY <1>2, <1>3, <1>4, <1>5, <1>6, <1>7 DEF PoolNext, PoolRun, PoolThreads

\* No step of a ThreadPool breaks the invariant.
LEMMA PoolStep == PoolInv /\ [PoolNext]_poolVars => PoolInv'
  BY PoolTypesKept, MadeKept, TerminateKept, JobPlacesKept, TokensKept, JoinKept DEF PoolInv

\* Every job is in exactly one of the places it goes through.
LEMMA PoolImplied == PoolInv => JobsCalledOnce
<1> USE PoolConstants DEF PoolInv
<1> SUFFICES ASSUME PoolInv PROVE JobsCalledOnce
  OBVIOUS
<1>1. \A j \in Job : started[j] <= 1 /\ finished[j] <= started[j]
  BY DEF PoolTypes, JobPlaces
<1>2. waitForJob + Cardinality({i \in Index : pool[i] = "token"}) = Len(jobQueue)
  BY DEF TokenInv, Tokens
<1>3. owner = "stopped" => jobQueue = <<>>
  BY DEF TerminateInv
<1>4. ASSUME owner = "stopped" PROVE loop = poolSize /\ Made = poolSize /\ (stops = 1 \/ stops = 2)
  BY <1>4 DEF JoinInv, MadeInv, PoolTypes, Made
<1>5. \A i \in Alive : i \in Index /\ (owner = "stopped" => i < poolSize)
  BY <1>4 DEF Alive, MadeInv, PoolTypes
<1>6. owner = "stopped" /\ stops = 2 /\ poolSize <= 3 => Alive = {}
  BY <1>4, <1>5 DEF JoinInv, PoolTypes
<1>7. ASSUME owner = "stopped", poolSize = 1 PROVE started = finished
  <2>1. Alive = {}
    <3>1. CASE stops = 2
      BY <1>6, <1>7, <3>1
    <3>2. CASE stops = 1
      <4>1. PICK a \in Joined : TRUE
        BY <1>4, <1>7, <3>2 DEF JoinInv
      <4>2. a \in Index /\ a < 1 /\ pool[a] = "joined"
        BY <1>4, <1>7, <4>1 DEF Joined, MadeInv
      <4>3. \A i \in Alive : i = a
        BY <1>5, <1>7, <4>2
      <4>4. QED
        BY <4>2, <4>3 DEF Alive
    <3>3. QED
      BY <1>4, <1>7, <3>1, <3>2
  <2>2. \A j \in Job : started[j] = finished[j]
    BY <2>1 DEF JobPlaces, Alive
  <2>3. QED
    BY <2>2, SMTT(60) DEF PoolTypes
<1>8. QED
  BY <1>1, <1>2, <1>3, <1>6, <1>7 DEF JobsCalledOnce

\* A job given to a ThreadPool is called once and none is lost, however its threads and
\* stop meet (ThreadPool.cc).
THEOREM JobsAreCalledOnce == PoolSpec => []JobsCalledOnce
  BY PoolInitInv, PoolStep, PoolImplied, PTL DEF PoolSpec

-----------------------------------------------------------------------------
\* The threads that send frames (Frames).

(***************************************************************************)
(* Frames: threads, buffers and headers.                                   *)
(***************************************************************************)
\* Where a thread of sendPkt has a buffer, and where one of init is.
Holding == {"refused", "ip", "udp", "copy", "send"}
Starting == {"init", "create"}

\* The datagrams there are, and those no thread ever had.
Pkts == [door : Door \cup {0}, dst : Nat, len : Nat]
Buffers == Nat \X Nat
ThreadStates ==
  [pc : {"idle"} \cup Starting \cup Holding, pkt : Pkts, call : Nat, msg : Buffers \cup {<<>>},
   tries : Nat, ret : {"none", "sent", "error", "closed"}]
Heads == [ip : Pkts, udp : Pkts, check : Pkts \X Pkts]
Holders == {t \in Thread : thread[t].pc \in Holding}

\* Which values the variables of the threads that send frames have.
FramesTypes ==
  /\ msgPool \in [stack : Seq(Buffers), chunk : Nat, top : 1 .. PerPool, reuse : BOOLEAN]
  /\ thread \in [Thread -> ThreadStates] /\ headers \in [Door -> Heads]
  /\ opSock \in [Door -> {"none", "null", "open"}] /\ instance \in 0 .. 1 /\ calls \in Nat
  /\ \A t \in Thread :
       /\ thread[t].pc \in Holding \cup Starting => thread[t].pkt.door \in Door
       /\ thread[t].pc \in Holding <=> thread[t].msg # <<>>

\* A buffer that the pool has cut from a chunk.
CutBuffer(p, m) == m[1] <= p.chunk /\ (m[1] = p.chunk => m[2] <= p.top)

\* Every buffer that was cut is in one place.
BuffersInv ==
  /\ Unique(msgPool.stack)
  /\ \A m \in ToSet(msgPool.stack) : CutBuffer(msgPool, m)
  /\ \A t \in Holders : CutBuffer(msgPool, thread[t].msg) /\ thread[t].msg \notin ToSet(msgPool.stack)
  /\ \A t, u \in Holders : thread[t].msg = thread[u].msg => t = u
  /\ IsFiniteSet(Holders)
  /\ msgPool.reuse => Cardinality(Holders) + Len(msgPool.stack)
                        = (msgPool.chunk - 1) * PerPool + msgPool.top

\* What a thread has written of its packet it finds again, when no two threads send
\* by one interface at a time.
Own(p) == [ip |-> p, udp |-> p, check |-> <<p, p>>]
FrameInv ==
  /\ \A t, u \in Thread : thread[t].pc \in Filling /\ thread[u].pc \in Filling
       /\ thread[t].pkt.door = thread[u].pkt.door => t = u
  /\ \A t \in Thread :
       /\ thread[t].pc = "udp" => headers[thread[t].pkt.door].ip = thread[t].pkt
       /\ thread[t].pc = "copy" => headers[thread[t].pkt.door] = Own(thread[t].pkt)
       /\ thread[t].pc = "send" =>
            thread[t].msg \in DOMAIN buffer /\ buffer[thread[t].msg] = Own(thread[t].pkt)
  /\ FrameOwn

\* Calls of sendPkt are told apart by their number.
CallsInv ==
  /\ \A t \in Thread : thread[t].call <= calls
  /\ \A t, u \in Thread : thread[t].call = thread[u].call /\ thread[t].call # 0 => t = u
  /\ \A f \in wire : f.call \in 1 .. calls
  /\ \A t \in Holders : thread[t].call # 0 /\ \A f \in wire : f.call # thread[t].call
  /\ \A f, g \in wire : f.call = g.call => f = g
  /\ \A t \in Thread : thread[t].pc = "idle" /\ thread[t].call # 0 =>
       (thread[t].ret = "sent" <=> \E f \in wire : f.call = thread[t].call)

\* An interface is opened once, before anybody sends by it.
SocketsInv ==
  /\ \A t, u \in Thread : thread[t].pc \in Starting /\ thread[u].pc \in Starting
       /\ thread[t].pkt.door = thread[u].pkt.door => t = u
  /\ \A t \in Thread : thread[t].pc \in Starting => opSock[thread[t].pkt.door] = "none"
  /\ \A t \in Holders : opSock[thread[t].pkt.door] = "open"

\* The inductive invariant of the threads that send frames.
FramesInv ==
  /\ FramesTypes /\ BuffersInv /\ CallsInv
  /\ "shared" \notin FrameFaults => FrameInv
  /\ "initFails" \notin FrameFaults => SocketsInv

\* What the assumption on the constants says.
LEMMA FramesConstants ==
  /\ PerPool \in Nat /\ PerPool > 0 /\ MaxTries \in Nat
  /\ \A p \in Datagram : p \in Pkts /\ p.door \in Door
  /\ NoPkt \in Pkts /\ Rest \in ThreadStates /\ NoHeader \in Heads
<1>1. NoPkt \in Pkts
  BY DEF NoPkt, Pkts
<1>2. Rest \in ThreadStates /\ NoHeader \in Heads
  BY <1>1 DEF Rest, ThreadStates, NoHeader, Heads
<1>3. QED
  BY <1>1, <1>2, FramesAssumption DEF FramesAssumption, Pkts

\* No thread sends and nothing is in the pool.
LEMMA FramesInitInv == FramesInit => FramesInv
<1> SUFFICES ASSUME FramesInit PROVE FramesInv
  OBVIOUS
<1>0. /\ \A t \in Thread : thread[t].pc = "idle" /\ thread[t].call = 0 /\ thread[t].msg = <<>>
      /\ Holders = {}
  BY DEF FramesInit, Rest, Holders, Holding
<1>1. FramesTypes
  <2>1. msgPool \in [stack : Seq(Buffers), chunk : Nat, top : 1 .. PerPool, reuse : BOOLEAN]
    <3>1. /\ msgPool = [stack |-> msgPool.stack, chunk |-> msgPool.chunk, top |-> msgPool.top,
                        reuse |-> msgPool.reuse]
          /\ msgPool.stack = <<>> /\ msgPool.chunk = 0 /\ msgPool.top = PerPool
          /\ msgPool.reuse \in BOOLEAN
      BY DEF FramesInit
    <3>2. <<>> \in Seq(Buffers) /\ PerPool \in 1 .. PerPool /\ 0 \in Nat
      BY FramesConstants, EmptySeq
    <3>3. QED
      BY <3>1, <3>2
  <2>2. thread \in [Thread -> ThreadStates] /\ headers \in [Door -> Heads]
        /\ opSock \in [Door -> {"none", "null", "open"}] /\ instance \in 0 .. 1 /\ calls \in Nat
    BY FramesConstants DEF FramesInit
  <2>3. QED
    BY <1>0, <2>1, <2>2 DEF FramesTypes, Holding, Starting
<1>2. msgPool.stack = <<>> /\ msgPool.chunk = 0 /\ msgPool.top = PerPool
  BY DEF FramesInit
<1>3. BuffersInv
  <2>1. ToSet(<<>>) = {} /\ Unique(<<>>) /\ Len(<<>>) = 0
    BY EmptySeq DEF ToSet, Unique
  <2>2. IsFiniteSet(Holders) /\ Cardinality(Holders) = 0
    BY <1>0, FS_EmptySet
  <2>3. (msgPool.chunk - 1) * PerPool + msgPool.top = 0
    BY <1>2, FramesConstants
  <2>4. QED
    BY <1>0, <1>2, <2>1, <2>2, <2>3 DEF BuffersInv
<1>4. wire = {} /\ calls = 0
  BY DEF FramesInit
<1>5. CallsInv
  BY <1>0, <1>4 DEF CallsInv
<1>6. FrameInv
  BY <1>0, <1>4 DEF FrameInv, FrameOwn, Filling
<1>7. SocketsInv
  BY <1>0 DEF SocketsInv, Starting
<1>8. QED
  BY <1>1, <1>3, <1>5, <1>6, <1>7 DEF FramesInv

\* What every step does to the threads: one of them moves.
Others(t) == \A u \in Thread : u # t => thread'[u] = thread[u]
Same(t) == thread'[t].pkt = thread[t].pkt /\ thread'[t].call = thread[t].call
Releases(t, ret) ==
  /\ thread[t].pc \in Holding /\ thread'[t].pc = "idle" /\ thread'[t].msg = <<>> /\ Same(t)
  /\ thread'[t].ret = ret /\ Free(thread[t].msg)
Advances(t, from, to) ==
  /\ thread[t].pc = from /\ thread'[t].pc = to /\ thread'[t].msg = thread[t].msg /\ Same(t)
  /\ UNCHANGED msgPool

\* A thread that goes to another place keeps the rest of its state, or its datagram.
LEMMA MoveThread ==
  ASSUME FramesTypes, NEW t \in Thread
  PROVE  /\ \A pc \in {"idle"} \cup Starting \cup Holding : Goto(t, pc) =>
              /\ thread' \in [Thread -> ThreadStates] /\ Others(t) /\ Same(t)
              /\ thread'[t].pc = pc /\ thread'[t].msg = thread[t].msg
         /\ \A ret \in {"none", "sent", "error", "closed"} : thread[t].pc \in Holding /\ Return(t, ret) =>
              thread' \in [Thread -> ThreadStates] /\ Others(t) /\ Releases(t, ret)
<1>1. thread \in [Thread -> ThreadStates] /\ thread[t] \in ThreadStates
  BY DEF FramesTypes
<1>2. ASSUME NEW pc \in {"idle"} \cup Starting \cup Holding, Goto(t, pc)
      PROVE  /\ thread' \in [Thread -> ThreadStates] /\ Others(t) /\ Same(t)
             /\ thread'[t].pc = pc /\ thread'[t].msg = thread[t].msg
  <2>1. PICK r : r = [thread[t] EXCEPT !.pc = pc]
    OBVIOUS
  <2>2. r \in ThreadStates /\ r.pc = pc /\ r.msg = thread[t].msg /\ r.pkt = thread[t].pkt
        /\ r.call = thread[t].call
    BY <1>1, <2>1 DEF ThreadStates
  <2>3. thread' = [thread EXCEPT ![t] = r]
    BY <1>2, <2>1 DEF Goto
  <2>4. QED
    BY <1>1, <2>2, <2>3 DEF Others, Same
<1>3. ASSUME NEW ret \in {"none", "sent", "error", "closed"}, thread[t].pc \in Holding, Return(t, ret)
      PROVE  thread' \in [Thread -> ThreadStates] /\ Others(t) /\ Releases(t, ret)
  <2>1. PICK r : r = [thread[t] EXCEPT !.pc = "idle", !.msg = <<>>, !.ret = ret]
    OBVIOUS
  <2>2. r \in ThreadStates /\ r.pc = "idle" /\ r.msg = <<>> /\ r.pkt = thread[t].pkt
        /\ r.call = thread[t].call /\ r.ret = ret
    BY <1>1, <2>1 DEF ThreadStates
  <2>3. thread' = [thread EXCEPT ![t] = r]
    BY <1>3, <2>1 DEF Return
  <2>4. QED
    BY <1>1, <1>3, <2>2, <2>3 DEF Others, Same, Releases, Return
<1>4. QED
  BY <1>2, <1>3

\* A thread that begins has a datagram and no buffer yet.
LEMMA BeginThreadMove ==
  ASSUME FramesTypes, NEW t \in Thread
  PROVE  /\ \A d \in Door : StartDoor(t, d) =>
              /\ thread' \in [Thread -> ThreadStates] /\ Others(t)
              /\ thread'[t].pc = "init" /\ thread'[t].pkt.door = d /\ thread'[t].call = 0
              /\ thread'[t].msg = <<>>
         /\ thread' = [thread EXCEPT ![t] = Rest] =>
              /\ thread' \in [Thread -> ThreadStates] /\ Others(t)
              /\ thread'[t].pc = "idle" /\ thread'[t].call = 0 /\ thread'[t].msg = <<>>
         /\ \A p \in Datagram : SendPkt(t, p) /\ Fresh \in Buffers =>
              /\ thread' \in [Thread -> ThreadStates] /\ Others(t)
              /\ thread'[t].pc \in {"refused", "ip"} /\ thread'[t].pkt = p
              /\ thread'[t].call = calls + 1 /\ thread'[t].msg = Fresh
<1>1. thread \in [Thread -> ThreadStates] /\ calls \in Nat
  BY DEF FramesTypes
<1>2. ASSUME NEW d \in Door, StartDoor(t, d)
      PROVE  /\ thread' \in [Thread -> ThreadStates] /\ Others(t)
             /\ thread'[t].pc = "init" /\ thread'[t].pkt.door = d /\ thread'[t].call = 0
             /\ thread'[t].msg = <<>>
  <2>1. PICK r : r = [Rest EXCEPT !.pc = "init", !.pkt.door = d]
    OBVIOUS
  <2>2. r = [pc |-> "init", pkt |-> [NoPkt EXCEPT !.door = d], call |-> 0, msg |-> <<>>,
             tries |-> 0, ret |-> "none"]
    BY <2>1 DEF Rest
  <2>3. [NoPkt EXCEPT !.door = d] \in Pkts /\ [NoPkt EXCEPT !.door = d].door = d
    BY DEF NoPkt, Pkts
  <2>4. r \in ThreadStates /\ r.pc = "init" /\ r.pkt.door = d /\ r.call = 0 /\ r.msg = <<>>
    BY <2>2, <2>3 DEF ThreadStates, Starting
  <2>5. thread' = [thread EXCEPT ![t] = r]
    BY <1>2, <2>1 DEF StartDoor
  <2>6. QED
    BY <1>1, <2>4, <2>5 DEF Others
<1>3. ASSUME thread' = [thread EXCEPT ![t] = Rest]
      PROVE  /\ thread' \in [Thread -> ThreadStates] /\ Others(t)
             /\ thread'[t].pc = "idle" /\ thread'[t].call = 0 /\ thread'[t].msg = <<>>
  <2>1. Rest \in ThreadStates /\ Rest.pc = "idle" /\ Rest.call = 0 /\ Rest.msg = <<>>
    BY FramesConstants DEF Rest
  <2>2. QED
    BY <1>1, <1>3, <2>1 DEF Others
<1>4. ASSUME NEW p \in Datagram, SendPkt(t, p), Fresh \in Buffers
      PROVE  /\ thread' \in [Thread -> ThreadStates] /\ Others(t)
             /\ thread'[t].pc \in {"refused", "ip"} /\ thread'[t].pkt = p
             /\ thread'[t].call = calls + 1 /\ thread'[t].msg = Fresh
  <2>1. PICK r : r = [pc |-> IF p.len = 0 THEN "refused" ELSE "ip", pkt |-> p,
                      call |-> calls + 1, msg |-> Fresh, tries |-> 0, ret |-> "none"]
    OBVIOUS
  <2>2. r \in ThreadStates /\ r.pc \in {"refused", "ip"} /\ r.pkt = p /\ r.call = calls + 1
        /\ r.msg = Fresh
    BY <1>1, <1>4, <2>1, FramesConstants DEF ThreadStates, Holding
  <2>3. thread' = [thread EXCEPT ![t] = r]
    BY <1>4, <2>1 DEF SendPkt
  <2>4. QED
    BY <1>1, <2>2, <2>3 DEF Others
<1>5. QED
  BY <1>2, <1>3, <1>4

\* What GetNew hands out was cut, and nobody else has it.
LEMMA GetNewBuffer ==
  ASSUME FramesTypes, BuffersInv, GetNew
  PROVE  /\ Fresh \in Buffers
         /\ msgPool' \in [stack : Seq(Buffers), chunk : Nat, top : 1 .. PerPool, reuse : BOOLEAN]
         /\ msgPool'.reuse = msgPool.reuse
         /\ Unique(msgPool'.stack) /\ ToSet(msgPool'.stack) \subseteq ToSet(msgPool.stack)
         /\ Fresh \notin ToSet(msgPool'.stack)
         /\ \A t \in Holders : thread[t].msg # Fresh
         /\ CutBuffer(msgPool', Fresh)
         /\ \A m \in Buffers : CutBuffer(msgPool, m) => CutBuffer(msgPool', m)
         /\ msgPool.reuse => ((msgPool'.chunk - 1) * PerPool + msgPool'.top) - Len(msgPool'.stack)
              = ((msgPool.chunk - 1) * PerPool + msgPool.top) - Len(msgPool.stack) + 1
<1> USE FramesConstants
<1>1. PICK p \in [stack : Seq(Buffers), chunk : Nat, top : 1 .. PerPool, reuse : BOOLEAN] : p = msgPool
  BY DEF FramesTypes
<1>2. /\ p.stack \in Seq(Buffers) /\ p.chunk \in Nat /\ p.top \in Nat /\ p.top >= 1 /\ p.top <= PerPool
      /\ Unique(p.stack) /\ Len(p.stack) \in Nat
  BY <1>1, LenProperties DEF BuffersInv
<1>3. \A t \in Holders : thread[t].msg \in Buffers
  BY DEF FramesTypes, Holders, ThreadStates
<1>4. CASE NextChunk
  <2>1. /\ p.stack = <<>> /\ Fresh = <<p.chunk + 1, 1>> /\ msgPool' = [p EXCEPT !.chunk = @ + 1, !.top = 1]
    BY <1>1, <1>4 DEF NextChunk, Fresh, GetNew
  <2>2. p.chunk + 1 \in Nat /\ 1 \in 1 .. PerPool
    BY <1>2
  <2>3. /\ msgPool'.stack = p.stack /\ msgPool'.chunk = p.chunk + 1 /\ msgPool'.top = 1
        /\ msgPool'.reuse = p.reuse
        /\ msgPool' \in [stack : Seq(Buffers), chunk : Nat, top : 1 .. PerPool, reuse : BOOLEAN]
    BY <2>1, <2>2
  <2>4. p.reuse => p.top = PerPool
    BY <1>1, <1>4 DEF NextChunk, UsedUp
  <2>5. (p.chunk + 1 - 1) * PerPool = (p.chunk - 1) * PerPool + PerPool
    BY <1>2
  <2>6. Fresh \in Buffers /\ CutBuffer(msgPool', Fresh) /\ ~CutBuffer(p, Fresh)
    BY <1>2, <2>1, <2>2, <2>3 DEF Buffers, CutBuffer
  <2>7. \A m \in Buffers : CutBuffer(p, m) => CutBuffer(msgPool', m)
    BY <1>2, <2>3 DEF Buffers, CutBuffer
  <2>8. Fresh \notin ToSet(msgPool'.stack) /\ \A t \in Holders : thread[t].msg # Fresh
    BY <1>1, <2>3, <2>6 DEF BuffersInv
  <2>9. p.reuse => ((msgPool'.chunk - 1) * PerPool + msgPool'.top) - Len(msgPool'.stack)
                     = ((p.chunk - 1) * PerPool + p.top) - Len(p.stack) + 1
    <3>1. PICK k \in Int : k = (p.chunk - 1) * PerPool
      BY <1>2
    <3>2. (msgPool'.chunk - 1) * PerPool = k + PerPool
      BY <2>3, <2>5, <3>1
    <3>3. p.reuse => ((k + PerPool) + 1) - Len(p.stack) = (k + p.top) - Len(p.stack) + 1
      BY <1>2, <2>4
    <3>4. QED
      BY <2>3, <3>1, <3>2, <3>3
  <2>10. QED
    BY <1>1, <1>2, <2>3, <2>6, <2>7, <2>8, <2>9
<1>5. CASE UsedUp /\ ~NextChunk
  <2>1. p.stack # <<>> /\ Fresh = Last(p.stack) /\ msgPool' = [p EXCEPT !.stack = Front(@)]
    BY <1>1, <1>5 DEF NextChunk, Fresh, GetNew
  <2>2. /\ Front(p.stack) \in Seq(Buffers) /\ Len(Front(p.stack)) = Len(p.stack) - 1
        /\ Fresh \in Buffers /\ ToSet(p.stack) = ToSet(Front(p.stack)) \cup {Fresh}
        /\ Unique(Front(p.stack)) /\ Fresh \notin ToSet(Front(p.stack))
    BY <1>2, <2>1, FrontElements
  <2>3. /\ msgPool'.stack = Front(p.stack) /\ msgPool'.chunk = p.chunk /\ msgPool'.top = p.top
        /\ msgPool'.reuse = p.reuse
        /\ msgPool' \in [stack : Seq(Buffers), chunk : Nat, top : 1 .. PerPool, reuse : BOOLEAN]
    BY <2>1, <2>2
  <2>4. Fresh \in ToSet(p.stack)
    BY <2>2
  <2>5. CutBuffer(p, Fresh) /\ \A t \in Holders : thread[t].msg # Fresh
    BY <1>1, <2>4 DEF BuffersInv
  <2>6. \A m : CutBuffer(p, m) <=> CutBuffer(msgPool', m)
    BY <2>3 DEF CutBuffer
  <2>7. ((msgPool'.chunk - 1) * PerPool + msgPool'.top) - Len(msgPool'.stack)
          = ((p.chunk - 1) * PerPool + p.top) - Len(p.stack) + 1
    <3>1. PICK k \in Int : k = (p.chunk - 1) * PerPool
      BY <1>2
    <3>2. QED
      <4>1. (msgPool'.chunk - 1) * PerPool = k /\ Len(msgPool'.stack) = Len(p.stack) - 1
        BY <2>2, <2>3, <3>1
      <4>2. (k + p.top) - (Len(p.stack) - 1) = (k + p.top) - Len(p.stack) + 1
        BY <1>2
      <4>3. QED
        BY <2>3, <3>1, <4>1, <4>2
  <2>8. QED
    BY <1>1, <2>2, <2>3, <2>5, <2>6, <2>7
<1>6. CASE ~UsedUp
  <2>1. p.top # PerPool /\ Fresh = <<p.chunk, p.top + 1>> /\ msgPool' = [p EXCEPT !.top = @ + 1]
    BY <1>1, <1>6 DEF NextChunk, UsedUp, Fresh, GetNew
  <2>2. p.top + 1 \in 1 .. PerPool /\ p.top + 1 \in Nat
    BY <1>2, <2>1
  <2>3. /\ msgPool'.stack = p.stack /\ msgPool'.chunk = p.chunk /\ msgPool'.top = p.top + 1
        /\ msgPool'.reuse = p.reuse
        /\ msgPool' \in [stack : Seq(Buffers), chunk : Nat, top : 1 .. PerPool, reuse : BOOLEAN]
    BY <2>1, <2>2
  <2>4. Fresh \in Buffers /\ CutBuffer(msgPool', Fresh) /\ ~CutBuffer(p, Fresh)
    BY <1>2, <2>1, <2>2, <2>3 DEF Buffers, CutBuffer
  <2>5. \A m \in Buffers : CutBuffer(p, m) => CutBuffer(msgPool', m)
    BY <1>2, <2>3 DEF Buffers, CutBuffer
  <2>6. Fresh \notin ToSet(msgPool'.stack) /\ \A t \in Holders : thread[t].msg # Fresh
    BY <1>1, <2>3, <2>4 DEF BuffersInv
  <2>7. ((msgPool'.chunk - 1) * PerPool + msgPool'.top) - Len(msgPool'.stack)
          = ((p.chunk - 1) * PerPool + p.top) - Len(p.stack) + 1
    <3>1. PICK k \in Int : k = (p.chunk - 1) * PerPool
      BY <1>2
    <3>2. QED
      BY <1>2, <2>3, <3>1
  <2>8. QED
    BY <1>1, <1>2, <2>3, <2>4, <2>5, <2>6, <2>7
<1>7. QED
  BY <1>4, <1>5, <1>6 DEF NextChunk

\* What goes back to the pool has one place again.
LEMMA FreeBuffer ==
  ASSUME FramesTypes, BuffersInv, NEW m \in Buffers, m \notin ToSet(msgPool.stack),
         CutBuffer(msgPool, m), Free(m)
  PROVE  /\ msgPool' \in [stack : Seq(Buffers), chunk : Nat, top : 1 .. PerPool, reuse : BOOLEAN]
         /\ msgPool'.reuse = msgPool.reuse /\ msgPool'.chunk = msgPool.chunk
         /\ msgPool'.top = msgPool.top
         /\ Unique(msgPool'.stack) /\ ToSet(msgPool'.stack) \subseteq ToSet(msgPool.stack) \cup {m}
         /\ \A k : CutBuffer(msgPool', k) <=> CutBuffer(msgPool, k)
         /\ msgPool.reuse => Len(msgPool'.stack) = Len(msgPool.stack) + 1
<1>1. PICK p \in [stack : Seq(Buffers), chunk : Nat, top : 1 .. PerPool, reuse : BOOLEAN] : p = msgPool
  BY DEF FramesTypes
<1>2. p.stack \in Seq(Buffers) /\ Unique(p.stack) /\ m \notin ToSet(p.stack)
  BY <1>1 DEF BuffersInv
<1>3. /\ Append(p.stack, m) \in Seq(Buffers) /\ Len(Append(p.stack, m)) = Len(p.stack) + 1
      /\ ToSet(Append(p.stack, m)) = ToSet(p.stack) \cup {m} /\ Unique(Append(p.stack, m))
  BY <1>2, AppendElements
<1>4. msgPool' = IF p.reuse THEN [p EXCEPT !.stack = Append(p.stack, m)] ELSE p
  BY <1>1 DEF Free
<1>5. /\ msgPool' \in [stack : Seq(Buffers), chunk : Nat, top : 1 .. PerPool, reuse : BOOLEAN]
      /\ msgPool'.reuse = p.reuse /\ msgPool'.chunk = p.chunk /\ msgPool'.top = p.top
      /\ msgPool'.stack = IF p.reuse THEN Append(p.stack, m) ELSE p.stack
  BY <1>3, <1>4
<1>6. QED
  BY <1>1, <1>2, <1>3, <1>5 DEF CutBuffer

\* Every step is a thread that begins to send, one that gives its buffer back, or one
\* that keeps what it has.
Begins(t, p) ==
  /\ thread[t].pc = "idle" /\ thread'[t].pc \in {"refused", "ip"} /\ thread'[t].pkt = p
  /\ thread'[t].call = calls + 1 /\ thread'[t].msg = Fresh /\ GetNew /\ calls' = calls + 1
  /\ "initFails" \notin FrameFaults => opSock[p.door] = "open"
  /\ "shared" \notin FrameFaults =>
       \A u \in Thread : thread[u].pc \notin Filling \/ thread[u].pkt.door # p.door
  /\ UNCHANGED <<headers, buffer, opSock, instance, wire>>
Keeps(t) ==
  /\ thread[t].pc \in Holding <=> thread'[t].pc \in Holding
  /\ thread'[t].msg = thread[t].msg /\ UNCHANGED msgPool

\* The result of sendto, and what else a step changes.
Frame(t) == [call |-> thread[t].call, pkt |-> thread[t].pkt, frame |-> buffer[thread[t].msg]]
Gives(t, ret) ==
  /\ Releases(t, ret) /\ UNCHANGED <<headers, buffer, opSock, instance, calls>>
  /\ ret = "sent" => thread[t].pc = "send"
  /\ wire' = IF ret = "sent" THEN wire \cup {Frame(t)} ELSE wire
Starts(t) ==
  /\ thread[t].pc = "idle" /\ thread'[t].pc = "init" /\ thread'[t].call = 0
  /\ thread'[t].pkt.door \in Door /\ opSock[thread'[t].pkt.door] = "none"
  /\ \A u \in Thread : thread[u].pc \in Starting => thread[u].pkt.door # thread'[t].pkt.door
  /\ UNCHANGED <<headers, buffer, opSock, instance, wire, calls>>
Opens(t) ==
  /\ thread[t].pc \in Starting /\ thread'[t].pc = "idle" /\ thread'[t].call = 0
  /\ \E sock \in {"null", "open"} : opSock' = [opSock EXCEPT ![thread[t].pkt.door] = sock]
  /\ instance' \in {instance, 1} /\ UNCHANGED <<headers, buffer, wire, calls>>
Writes(t) ==
  /\ Same(t) /\ UNCHANGED <<opSock, instance, wire, calls>>
  /\ \/ (thread[t].pc = "init" /\ thread'[t].pc = "create" /\ UNCHANGED <<headers, buffer>>)
     \/ (thread[t].pc = "ip" /\ thread'[t].pc = "udp" /\ WriteIp(t))
     \/ (thread[t].pc = "udp" /\ thread'[t].pc = "copy" /\ WriteUdp(t))
     \/ (thread[t].pc = "copy" /\ thread'[t].pc = "send" /\ CopyHeaders(t))
     \/ (thread[t].pc = "send" /\ thread'[t].pc = "send" /\ UNCHANGED <<headers, buffer>>)
Works(t) == Keeps(t) /\ (Starts(t) \/ Opens(t) \/ Writes(t))

\* Every step is one of one thread.
LEMMA Moves ==
  ASSUME FramesTypes, BuffersInv, FramesNext
  PROVE  \E t \in Thread :
           /\ thread' \in [Thread -> ThreadStates] /\ Others(t)
           /\ \/ \E p \in Datagram : Begins(t, p)
              \/ \E ret \in {"sent", "error", "closed"} : Gives(t, ret)
              \/ Works(t)
<1>1. PICK t \in Thread :
        \/ \E d \in Door : StartDoor(t, d)
        \/ FailInit(t) \/ UseInstance(t) \/ SeeNoInstance(t) \/ CreateInstance(t)
        \/ \E p \in Datagram : SendPkt(t, p)
        \/ Refuse(t) \/ WriteIp(t) \/ WriteUdp(t) \/ CopyHeaders(t)
        \/ SystemTakes(t) \/ NoBuffers(t) \/ SystemFails(t)
  BY DEF FramesNext
<1> DEFINE Goal ==
      /\ thread' \in [Thread -> ThreadStates] /\ Others(t)
      /\ \/ \E p \in Datagram : Begins(t, p)
         \/ \E ret \in {"sent", "error", "closed"} : Gives(t, ret)
         \/ Works(t)
<1> SUFFICES Goal
  OBVIOUS
<1>2. ASSUME NEW d \in Door, StartDoor(t, d) PROVE Goal
  <2>1. /\ thread[t].pc = "idle" /\ thread[t].msg = <<>> /\ opSock[d] = "none"
        /\ \A u \in Thread : thread[u].pc \in Starting => thread[u].pkt.door # d
        /\ UNCHANGED <<msgPool, headers, buffer, opSock, instance, wire, calls>>
    BY <1>2 DEF StartDoor, FramesTypes, Holding, Starting
  <2>2. /\ thread' \in [Thread -> ThreadStates] /\ Others(t)
        /\ thread'[t].pc = "init" /\ thread'[t].pkt.door = d /\ thread'[t].call = 0
        /\ thread'[t].msg = <<>>
    BY <1>2, BeginThreadMove
  <2>3. Keeps(t)
    BY <2>1, <2>2 DEF Keeps, Holding
  <2>4. Starts(t)
    BY <2>1, <2>2 DEF Starts
  <2>5. QED
    BY <2>2, <2>3, <2>4 DEF Works
<1>3. CASE FailInit(t) \/ UseInstance(t) \/ CreateInstance(t)
  <2>1. /\ thread[t].pc \in {"init", "create"} /\ thread[t].msg = <<>> /\ UNCHANGED msgPool
        /\ thread' = [thread EXCEPT ![t] = Rest]
    BY <1>3 DEF FailInit, UseInstance, CreateInstance, FramesTypes, Holding
  <2>2. /\ \E sock \in {"null", "open"} : opSock' = [opSock EXCEPT ![thread[t].pkt.door] = sock]
        /\ instance' \in {instance, 1} /\ UNCHANGED <<headers, buffer, wire, calls>>
    BY <1>3 DEF FailInit, UseInstance, CreateInstance
  <2>3. /\ thread' \in [Thread -> ThreadStates] /\ Others(t)
        /\ thread'[t].pc = "idle" /\ thread'[t].call = 0 /\ thread'[t].msg = <<>>
    BY <2>1, BeginThreadMove
  <2>4. Keeps(t)
    BY <2>1, <2>3 DEF Keeps, Holding
  <2>5. Opens(t)
    BY <2>1, <2>2, <2>3 DEF Opens, Starting
  <2>6. QED
    BY <2>3, <2>4, <2>5 DEF Works
<1>4. ASSUME NEW p \in Datagram, SendPkt(t, p) PROVE Goal
  <2>1. thread[t].pc = "idle" /\ GetNew
    BY <1>4 DEF SendPkt
  <2>2. Fresh \in Buffers
    BY <2>1, GetNewBuffer
  <2>3. /\ thread' \in [Thread -> ThreadStates] /\ Others(t)
        /\ thread'[t].pc \in {"refused", "ip"} /\ thread'[t].pkt = p
        /\ thread'[t].call = calls + 1 /\ thread'[t].msg = Fresh
    BY <1>4, <2>2, BeginThreadMove
  <2>4. Begins(t, p)
    BY <1>4, <2>1, <2>3 DEF Begins, SendPkt
  <2>5. QED
    BY <2>3, <2>4
<1>5. ASSUME NEW to \in Starting \cup Holding, thread[t].pc \in Holding <=> to \in Holding,
             Goto(t, to), UNCHANGED msgPool
      PROVE  /\ thread' \in [Thread -> ThreadStates] /\ Others(t)
             /\ Same(t) /\ thread'[t].pc = to /\ Keeps(t)
  <2>1. /\ thread' \in [Thread -> ThreadStates] /\ Others(t) /\ Same(t)
        /\ thread'[t].pc = to /\ thread'[t].msg = thread[t].msg
    BY <1>5, MoveThread
  <2>2. QED
    BY <1>5, <2>1 DEF Keeps
<1>6. CASE SeeNoInstance(t)
  <2>1. /\ thread[t].pc = "init" /\ Goto(t, "create")
        /\ UNCHANGED <<msgPool, headers, buffer, opSock, instance, wire, calls>>
    BY <1>6 DEF SeeNoInstance
  <2>2. /\ thread' \in [Thread -> ThreadStates] /\ Others(t)
        /\ Same(t) /\ thread'[t].pc = "create" /\ Keeps(t)
    BY <1>5, <2>1 DEF Starting, Holding
  <2>3. QED
    BY <2>1, <2>2 DEF Works, Writes
<1>7. CASE WriteIp(t)
  <2>1. thread[t].pc = "ip" /\ Goto(t, "udp") /\ UNCHANGED <<msgPool, opSock, instance, wire, calls>>
    BY <1>7 DEF WriteIp
  <2>2. /\ thread' \in [Thread -> ThreadStates] /\ Others(t)
        /\ Same(t) /\ thread'[t].pc = "udp" /\ Keeps(t)
    BY <1>5, <2>1 DEF Holding
  <2>3. QED
    BY <1>7, <2>1, <2>2 DEF Works, Writes
<1>8. CASE WriteUdp(t)
  <2>1. thread[t].pc = "udp" /\ Goto(t, "copy") /\ UNCHANGED <<msgPool, opSock, instance, wire, calls>>
    BY <1>8 DEF WriteUdp
  <2>2. /\ thread' \in [Thread -> ThreadStates] /\ Others(t)
        /\ Same(t) /\ thread'[t].pc = "copy" /\ Keeps(t)
    BY <1>5, <2>1 DEF Holding
  <2>3. QED
    BY <1>8, <2>1, <2>2 DEF Works, Writes
<1>9. CASE CopyHeaders(t)
  <2>1. thread[t].pc = "copy" /\ Goto(t, "send") /\ UNCHANGED <<msgPool, opSock, instance, wire, calls>>
    BY <1>9 DEF CopyHeaders
  <2>2. /\ thread' \in [Thread -> ThreadStates] /\ Others(t)
        /\ Same(t) /\ thread'[t].pc = "send" /\ Keeps(t)
    BY <1>5, <2>1 DEF Holding
  <2>3. QED
    BY <1>9, <2>1, <2>2 DEF Works, Writes
<1>10. ASSUME NEW ret \in {"sent", "error", "closed"}, thread[t].pc \in Holding, Return(t, ret),
              ret = "sent" => thread[t].pc = "send",
              UNCHANGED <<headers, buffer, opSock, instance, calls>>,
              wire' = IF ret = "sent" THEN wire \cup {Frame(t)} ELSE wire
       PROVE Goal
  <2>1. thread' \in [Thread -> ThreadStates] /\ Others(t) /\ Releases(t, ret)
    BY <1>10, MoveThread
  <2>2. Gives(t, ret)
    BY <1>10, <2>1 DEF Gives
  <2>3. QED
    BY <2>1, <2>2
<1>11. CASE Refuse(t)
  <2>1. Return(t, "error") /\ thread[t].pc \in Holding /\ wire' = wire
        /\ UNCHANGED <<headers, buffer, opSock, instance, calls>>
    BY <1>11 DEF Refuse, Return, Holding
  <2>2. QED
    BY <1>10, <2>1
<1>12. CASE SystemTakes(t) \/ SystemFails(t)
  <2>1. thread[t].pc = "send" /\ thread[t].pc \in Holding
        /\ UNCHANGED <<headers, buffer, opSock, instance, calls>>
    BY <1>12 DEF SystemTakes, SystemFails, SendTo, Holding
  <2>2. CASE SystemTakes(t)
    BY <1>10, <2>1, <2>2 DEF SystemTakes, Frame
  <2>3. CASE SystemFails(t)
    BY <1>10, <2>1, <2>3 DEF SystemFails
  <2>4. QED
    BY <1>12, <2>2, <2>3
<1>13. CASE NoBuffers(t)
  <2>1. thread[t].pc = "send" /\ thread[t].pc \in Holding /\ wire' = wire
        /\ UNCHANGED <<headers, buffer, opSock, instance, calls>>
    BY <1>13 DEF NoBuffers, SendTo, Holding
  <2>2. CASE Return(t, "error")
    BY <1>10, <2>1, <2>2
  <2>3. CASE thread' = [thread EXCEPT ![t].tries = @ + 1] /\ UNCHANGED msgPool
    <3>1. PICK r : r = [thread[t] EXCEPT !.tries = @ + 1]
      OBVIOUS
    <3>2. thread \in [Thread -> ThreadStates] /\ thread[t] \in ThreadStates
      BY DEF FramesTypes
    <3>3. r \in ThreadStates /\ r.pc = thread[t].pc /\ r.msg = thread[t].msg
          /\ r.pkt = thread[t].pkt /\ r.call = thread[t].call
      BY <3>1, <3>2 DEF ThreadStates
    <3>4. thread' = [thread EXCEPT ![t] = r]
      BY <2>3, <3>1
    <3>5. thread' \in [Thread -> ThreadStates] /\ thread'[t] = r /\ Others(t)
      BY <3>2, <3>3, <3>4 DEF Others
    <3>6. Keeps(t)
      BY <2>3, <3>3, <3>5 DEF Keeps
    <3>7. Writes(t)
      BY <2>1, <3>3, <3>5 DEF Writes, Same
    <3>8. QED
      BY <3>5, <3>6, <3>7 DEF Works
  <2>4. QED
    BY <1>13, <2>2, <2>3 DEF NoBuffers
<1>14. QED
  BY <1>1, <1>2, <1>3, <1>4, <1>6, <1>7, <1>8, <1>9, <1>11, <1>12, <1>13

\* The buffers after a step.
LEMMA BuffersKept ==
  ASSUME FramesTypes, BuffersInv, FramesNext
  PROVE  BuffersInv' /\ msgPool' \in [stack : Seq(Buffers), chunk : Nat, top : 1 .. PerPool, reuse : BOOLEAN]
<1>1. PICK t \in Thread :
        /\ thread' \in [Thread -> ThreadStates] /\ Others(t)
        /\ \/ \E p \in Datagram : Begins(t, p)
           \/ \E ret \in {"sent", "error", "closed"} : Releases(t, ret)
           \/ Keeps(t)
  BY Moves DEF Gives, Works
<1>2. /\ msgPool.stack \in Seq(Buffers) /\ Len(msgPool.stack) \in Nat
      /\ msgPool \in [stack : Seq(Buffers), chunk : Nat, top : 1 .. PerPool, reuse : BOOLEAN]
      /\ IsFiniteSet(Holders) /\ Cardinality(Holders) \in Nat
  BY LenProperties, FS_CardinalityType DEF FramesTypes, BuffersInv
<1>3. \A u \in Thread : u # t => (u \in Holders' <=> u \in Holders) /\ thread'[u] = thread[u]
  BY <1>1 DEF Others, Holders
<1>4. \A u \in Holders : u \in Thread /\ thread[u].msg \in Buffers
  BY DEF FramesTypes, Holders, ThreadStates
<1>5. PICK k \in Int : k = (msgPool.chunk - 1) * PerPool + msgPool.top
  BY <1>2, FramesConstants
<1>6. ASSUME NEW p \in Datagram, Begins(t, p)
      PROVE  BuffersInv' /\ msgPool' \in [stack : Seq(Buffers), chunk : Nat, top : 1 .. PerPool, reuse : BOOLEAN]
  <2>1. GetNew /\ t \in Holders' /\ t \notin Holders /\ thread'[t].msg = Fresh
    BY <1>6 DEF Begins, Holders, Holding
  <2>2. /\ Fresh \in Buffers
        /\ msgPool' \in [stack : Seq(Buffers), chunk : Nat, top : 1 .. PerPool, reuse : BOOLEAN]
        /\ msgPool'.reuse = msgPool.reuse
        /\ Unique(msgPool'.stack) /\ ToSet(msgPool'.stack) \subseteq ToSet(msgPool.stack)
        /\ Fresh \notin ToSet(msgPool'.stack)
        /\ \A u \in Holders : thread[u].msg # Fresh
        /\ CutBuffer(msgPool', Fresh)
        /\ \A m \in Buffers : CutBuffer(msgPool, m) => CutBuffer(msgPool', m)
        /\ msgPool.reuse => ((msgPool'.chunk - 1) * PerPool + msgPool'.top) - Len(msgPool'.stack)
             = ((msgPool.chunk - 1) * PerPool + msgPool.top) - Len(msgPool.stack) + 1
    BY <2>1, GetNewBuffer
  <2>3. Holders' = Holders \cup {t}
    BY <1>3, <2>1 DEF Holders
  <2>4. IsFiniteSet(Holders') /\ Cardinality(Holders') = Cardinality(Holders) + 1
    BY <1>2, <2>1, <2>3, FS_AddElement
  <2>5. \A m \in ToSet(msgPool.stack) : m \in Buffers
    BY <1>2, Elements
  <2>6. (\A m \in ToSet(msgPool.stack) : CutBuffer(msgPool, m))'
    BY <2>2, <2>5 DEF BuffersInv
  <2>7. (\A u \in Holders : CutBuffer(msgPool, thread[u].msg) /\ thread[u].msg \notin ToSet(msgPool.stack))'
    <3> SUFFICES ASSUME NEW u \in Holders'
                 PROVE  CutBuffer(msgPool', thread'[u].msg) /\ thread'[u].msg \notin ToSet(msgPool'.stack)
      OBVIOUS
    <3>1. CASE u = t
      BY <2>1, <2>2, <3>1
    <3>2. CASE u # t
      <4>1. u \in Holders /\ thread'[u] = thread[u] /\ thread[u].msg \in Buffers
        BY <1>3, <1>4, <2>3, <3>2
      <4>2. CutBuffer(msgPool, thread[u].msg) /\ thread[u].msg \notin ToSet(msgPool.stack)
        BY <4>1 DEF BuffersInv
      <4>3. QED
        BY <2>2, <4>1, <4>2
    <3>3. QED
      BY <3>1, <3>2
  <2>8. (\A u, v \in Holders : thread[u].msg = thread[v].msg => u = v)'
    BY <1>3, <1>4, <2>1, <2>2, <2>3 DEF BuffersInv
  <2>9. (msgPool.reuse => Cardinality(Holders) + Len(msgPool.stack)
                        = (msgPool.chunk - 1) * PerPool + msgPool.top)'
    <3>1. PICK k2 \in Int : k2 = (msgPool'.chunk - 1) * PerPool + msgPool'.top
      BY <2>2, FramesConstants
    <3>2. Len(msgPool'.stack) \in Nat
      BY <2>2, LenProperties
    <3>3. msgPool.reuse => Cardinality(Holders) + Len(msgPool.stack) = k
      BY <1>5 DEF BuffersInv
    <3>4. msgPool.reuse => k2 - Len(msgPool'.stack) = k - Len(msgPool.stack) + 1
      <4> SUFFICES ASSUME msgPool.reuse PROVE k2 - Len(msgPool'.stack) = k - Len(msgPool.stack) + 1
        OBVIOUS
      <4>1. ((msgPool'.chunk - 1) * PerPool + msgPool'.top) - Len(msgPool'.stack)
              = ((msgPool.chunk - 1) * PerPool + msgPool.top) - Len(msgPool.stack) + 1
        BY <2>2
      <4>2. QED
        BY ONLY <1>5, <3>1, <4>1, Zenon
    <3>5. ASSUME msgPool.reuse PROVE Cardinality(Holders') + Len(msgPool'.stack) = k2
      <4>1. PICK a \in Nat, b \in Nat, c \in Nat :
              a = Cardinality(Holders) /\ b = Len(msgPool.stack) /\ c = Len(msgPool'.stack)
        BY <1>2, <3>2
      <4>2. a + b = k /\ k2 - c = k - b + 1
        BY <3>3, <3>4, <3>5, <4>1
      <4>3. (a + 1) + c = k2
        BY ONLY <4>2, k \in Int, k2 \in Int, a \in Nat, b \in Nat, c \in Nat
      <4>4. QED
        BY <2>4, <4>1, <4>3
    <3>6. QED
      BY <2>2, <3>1, <3>5
  <2>10. QED
    BY <2>2, <2>4, <2>6, <2>7, <2>8, <2>9 DEF BuffersInv
<1>7. ASSUME NEW ret \in {"sent", "error", "closed"}, Releases(t, ret)
      PROVE  BuffersInv' /\ msgPool' \in [stack : Seq(Buffers), chunk : Nat, top : 1 .. PerPool, reuse : BOOLEAN]
  <2>1. t \in Holders /\ t \notin Holders' /\ Free(thread[t].msg)
    BY <1>7 DEF Releases, Holders, Holding
  <2>2. PICK m \in Buffers : m = thread[t].msg
    BY <1>4, <2>1
  <2>3. m \notin ToSet(msgPool.stack) /\ CutBuffer(msgPool, m) /\ Free(m)
    BY <2>1, <2>2 DEF BuffersInv
  <2>4. /\ msgPool' \in [stack : Seq(Buffers), chunk : Nat, top : 1 .. PerPool, reuse : BOOLEAN]
        /\ msgPool'.reuse = msgPool.reuse /\ msgPool'.chunk = msgPool.chunk
        /\ msgPool'.top = msgPool.top
        /\ Unique(msgPool'.stack) /\ ToSet(msgPool'.stack) \subseteq ToSet(msgPool.stack) \cup {m}
        /\ \A n : CutBuffer(msgPool', n) <=> CutBuffer(msgPool, n)
        /\ msgPool.reuse => Len(msgPool'.stack) = Len(msgPool.stack) + 1
    BY <2>3, FreeBuffer
  <2>5. Holders' = Holders \ {t}
    BY <1>3, <2>1 DEF Holders
  <2>6. IsFiniteSet(Holders') /\ Cardinality(Holders') = Cardinality(Holders) - 1
    BY <1>2, <2>1, <2>5, FS_RemoveElement
  <2>7. (\A n \in ToSet(msgPool.stack) : CutBuffer(msgPool, n))'
    BY <2>3, <2>4 DEF BuffersInv
  <2>8. \A u \in Holders' : u \in Holders /\ u # t /\ thread'[u] = thread[u] /\ thread[u].msg # m
    BY <1>3, <2>1, <2>2, <2>5 DEF BuffersInv, Holders
  <2>9. (\A u \in Holders : CutBuffer(msgPool, thread[u].msg) /\ thread[u].msg \notin ToSet(msgPool.stack))'
    BY <2>4, <2>8 DEF BuffersInv
  <2>10. (\A u, v \in Holders : thread[u].msg = thread[v].msg => u = v)'
    BY <2>8 DEF BuffersInv
  <2>11. msgPool.reuse => Cardinality(Holders') + Len(msgPool'.stack) = k
    BY <1>2, <1>5, <2>4, <2>6 DEF BuffersInv
  <2>12. (msgPool'.chunk - 1) * PerPool + msgPool'.top = k
    BY <1>5, <2>4
  <2>13. (msgPool.reuse => Cardinality(Holders) + Len(msgPool.stack)
                        = (msgPool.chunk - 1) * PerPool + msgPool.top)'
    BY <2>4, <2>11, <2>12
  <2>14. QED
    BY <2>4, <2>6, <2>7, <2>9, <2>10, <2>13 DEF BuffersInv
<1>8. CASE Keeps(t)
  <2>1. Holders' = Holders /\ msgPool' = msgPool /\ \A u \in Holders : thread'[u].msg = thread[u].msg
    BY <1>3, <1>8 DEF Keeps, Holders
  <2>2. QED
    BY <1>2, <2>1 DEF BuffersInv
<1>9. QED
  BY <1>1, <1>6, <1>7, <1>8
\* The rest of the types.
LEMMA FramesTypesKept ==
  ASSUME FramesTypes, BuffersInv, FramesNext
  PROVE  FramesTypes'
<1>1. PICK t \in Thread :
        /\ thread' \in [Thread -> ThreadStates] /\ Others(t)
        /\ \/ \E p \in Datagram : Begins(t, p)
           \/ \E ret \in {"sent", "error", "closed"} : Gives(t, ret)
           \/ Works(t)
  BY Moves
<1>2. msgPool' \in [stack : Seq(Buffers), chunk : Nat, top : 1 .. PerPool, reuse : BOOLEAN]
  BY BuffersKept
<1>3. /\ headers \in [Door -> Heads] /\ opSock \in [Door -> {"none", "null", "open"}]
      /\ instance \in 0 .. 1 /\ calls \in Nat /\ thread[t] \in ThreadStates
      /\ thread[t].pc \in Holding \cup Starting => thread[t].pkt.door \in Door
      /\ thread[t].pc \in Holding <=> thread[t].msg # <<>>
  BY DEF FramesTypes
<1>4. \A u \in Thread : u # t =>
        /\ thread'[u].pc \in Holding \cup Starting => thread'[u].pkt.door \in Door
        /\ thread'[u].pc \in Holding <=> thread'[u].msg # <<>>
  BY <1>1 DEF Others, FramesTypes
<1>5. ASSUME NEW p \in Datagram, Begins(t, p) PROVE FramesTypes'
  <2>1. Fresh \in Buffers
    BY <1>5, GetNewBuffer DEF Begins
  <2>2. Fresh # <<>>
    BY <2>1 DEF Buffers
  <2>3. /\ thread'[t].pc \in Holding /\ thread'[t].msg # <<>> /\ thread'[t].pkt.door \in Door
        /\ calls' \in Nat /\ UNCHANGED <<headers, opSock, instance>>
    BY <1>3, <1>5, <2>2, FramesConstants DEF Begins, Holding
  <2>4. QED
    BY <1>1, <1>2, <1>3, <1>4, <2>3 DEF FramesTypes
<1>6. ASSUME NEW ret \in {"sent", "error", "closed"}, Gives(t, ret) PROVE FramesTypes'
  <2>1. /\ thread'[t].pc = "idle" /\ thread'[t].msg = <<>> /\ UNCHANGED <<headers, opSock, instance, calls>>
    BY <1>6 DEF Gives, Releases
  <2>2. QED
    BY <1>1, <1>2, <1>3, <1>4, <2>1 DEF FramesTypes, Holding, Starting
<1>7. CASE Works(t)
  <2>1. thread'[t].pc \in Holding <=> thread'[t].msg # <<>>
    BY <1>3, <1>7 DEF Works, Keeps
  <2>2. CASE Starts(t)
    BY <1>1, <1>2, <1>3, <1>4, <2>1, <2>2 DEF FramesTypes, Starts
  <2>3. CASE Opens(t)
    <3>1. opSock' \in [Door -> {"none", "null", "open"}] /\ instance' \in 0 .. 1
      BY <1>3, <2>3 DEF Opens
    <3>2. thread'[t].pc \notin Holding \cup Starting /\ UNCHANGED <<headers, calls>>
      BY <2>3 DEF Opens, Holding, Starting
    <3>3. QED
      BY <1>1, <1>2, <1>3, <1>4, <2>1, <3>1, <3>2 DEF FramesTypes
  <2>4. CASE Writes(t)
    <3>1. thread[t].pc \in Holding \cup Starting /\ thread'[t].pkt.door \in Door
          /\ thread[t].pkt \in Pkts
      BY <1>3, <2>4 DEF Writes, Same, Holding, Starting, ThreadStates
    <3>2. headers' \in [Door -> Heads]
      <4>1. CASE UNCHANGED headers \/ CopyHeaders(t)
        BY <1>3, <4>1 DEF CopyHeaders
      <4>2. PICK d \in Door : d = thread[t].pkt.door
        BY <2>4, <3>1 DEF Writes, Same
      <4>3. CASE WriteIp(t)
        <5>1. PICK h : h = [headers[d] EXCEPT !.ip = thread[t].pkt]
          OBVIOUS
        <5>2. headers[d] \in Heads
          BY <1>3
        <5>3. h \in Heads
          BY <3>1, <5>1, <5>2 DEF Heads
        <5>4. headers' = [headers EXCEPT ![d] = h]
          BY <4>2, <4>3, <5>1 DEF WriteIp
        <5>5. QED
          BY <1>3, <5>3, <5>4
      <4>4. CASE WriteUdp(t)
        <5>1. PICK h : h = [ip |-> headers[d].ip, udp |-> thread[t].pkt, check |-> <<headers[d].ip, thread[t].pkt>>]
          OBVIOUS
        <5>2. headers[d] \in Heads
          BY <1>3
        <5>3. h \in Heads
          BY <3>1, <5>1, <5>2 DEF Heads
        <5>4. headers' = [headers EXCEPT ![d] = h]
          BY <4>2, <4>4, <5>1 DEF WriteUdp
        <5>5. QED
          BY <1>3, <5>3, <5>4
      <4>5. QED
        BY <2>4, <4>1, <4>3, <4>4 DEF Writes
    <3>3. UNCHANGED <<opSock, instance, calls>>
      BY <2>4 DEF Writes
    <3>4. QED
      BY <1>1, <1>2, <1>3, <1>4, <2>1, <3>1, <3>2, <3>3 DEF FramesTypes
  <2>5. QED
    BY <1>7, <2>2, <2>3, <2>4 DEF Works
<1>8. QED
  BY <1>1, <1>5, <1>6, <1>7

\* Calls stay apart, and what sendPkt returns stays true.
LEMMA CallsKept ==
  ASSUME FramesTypes, BuffersInv, CallsInv, FramesNext
  PROVE  CallsInv'
<1>1. PICK t \in Thread :
        /\ thread' \in [Thread -> ThreadStates] /\ Others(t)
        /\ \/ \E p \in Datagram : Begins(t, p)
           \/ \E ret \in {"sent", "error", "closed"} : Gives(t, ret)
           \/ Works(t)
  BY Moves
<1>2. calls \in Nat /\ \A u \in Thread : thread[u].call \in Nat /\ thread'[u].call \in Nat
  BY <1>1 DEF FramesTypes, ThreadStates
<1>3. \A u \in Thread : u # t => thread'[u] = thread[u] /\ (u \in Holders' <=> u \in Holders)
  BY <1>1 DEF Others, Holders
<1>4. ASSUME NEW p \in Datagram, Begins(t, p) PROVE CallsInv'
  <2>1. /\ calls' = calls + 1 /\ thread'[t].call = calls + 1 /\ wire' = wire
        /\ thread'[t].pc # "idle"
    BY <1>4 DEF Begins
  <2>2. \A u \in Thread : thread[u].call # calls + 1
    BY <1>2 DEF CallsInv
  <2>3. \A f \in wire : f.call # calls + 1 /\ f.call \in 1 .. calls + 1
    BY <1>2 DEF CallsInv
  <2>4. (\A u \in Thread : thread[u].call <= calls)'
    BY <1>2, <1>3, <2>1 DEF CallsInv
  <2>5. (\A u, v \in Thread : thread[u].call = thread[v].call /\ thread[u].call # 0 => u = v)'
    BY <1>3, <2>1, <2>2 DEF CallsInv
  <2>6. (\A u \in Holders : thread[u].call # 0 /\ \A f \in wire : f.call # thread[u].call)'
    BY <1>2, <1>3, <2>1, <2>3 DEF CallsInv, Holders
  <2>7. (\A u \in Thread : thread[u].pc = "idle" /\ thread[u].call # 0 =>
          (thread[u].ret = "sent" <=> \E f \in wire : f.call = thread[u].call))'
    BY <1>3, <2>1 DEF CallsInv
  <2>8. QED
    BY <2>1, <2>3, <2>4, <2>5, <2>6, <2>7 DEF CallsInv
<1>5. ASSUME NEW ret \in {"sent", "error", "closed"}, Gives(t, ret) PROVE CallsInv'
  <2>1. /\ calls' = calls /\ thread'[t].call = thread[t].call /\ t \in Holders /\ thread'[t].ret = ret
        /\ thread'[t].pc = "idle" /\ t \notin Holders'
    BY <1>5 DEF Gives, Releases, Same, Holders, Holding
  <2>2. thread[t].call # 0 /\ \A f \in wire : f.call # thread[t].call
    BY <2>1 DEF CallsInv
  <2>3. Frame(t).call = thread[t].call
    BY DEF Frame
  <2>4. \A f \in wire' : f \in wire \/ (ret = "sent" /\ f = Frame(t))
    BY <1>5 DEF Gives
  <2>5. wire \subseteq wire' /\ (ret = "sent" => Frame(t) \in wire')
    BY <1>5 DEF Gives
  <2>6. (\A u \in Thread : thread[u].call <= calls)'
    BY <1>3, <2>1 DEF CallsInv
  <2>7. (\A u, v \in Thread : thread[u].call = thread[v].call /\ thread[u].call # 0 => u = v)'
    BY <1>3, <2>1 DEF CallsInv
  <2>8. (\A f \in wire : f.call \in 1 .. calls)'
    <3>1. thread[t].call \in 1 .. calls
      BY <1>2, <2>2 DEF CallsInv
    <3>2. QED
      BY <2>1, <2>3, <2>4, <3>1 DEF CallsInv
  <2>9. (\A u \in Holders : thread[u].call # 0 /\ \A f \in wire : f.call # thread[u].call)'
    <3> SUFFICES ASSUME NEW u \in Holders' PROVE thread'[u].call # 0 /\ \A f \in wire' : f.call # thread'[u].call
      OBVIOUS
    <3>1. u \in Thread /\ u # t /\ u \in Holders /\ thread'[u] = thread[u]
      BY <1>3, <2>1 DEF Holders
    <3>2. thread[u].call # 0 /\ (\A f \in wire : f.call # thread[u].call) /\ thread[u].call # thread[t].call
      BY <3>1 DEF CallsInv
    <3>3. QED
      BY <2>3, <2>4, <3>1, <3>2
  <2>10. (\A f, g \in wire : f.call = g.call => f = g)'
    BY <2>2, <2>3, <2>4 DEF CallsInv
  <2>11. (\A u \in Thread : thread[u].pc = "idle" /\ thread[u].call # 0 =>
          (thread[u].ret = "sent" <=> \E f \in wire : f.call = thread[u].call))'
    <3> SUFFICES ASSUME NEW u \in Thread, thread'[u].pc = "idle", thread'[u].call # 0
                 PROVE  thread'[u].ret = "sent" <=> \E f \in wire' : f.call = thread'[u].call
      OBVIOUS
    <3>1. CASE u = t
      BY <2>1, <2>2, <2>3, <2>4, <2>5, <3>1
    <3>2. CASE u # t
      <4>1. thread'[u] = thread[u] /\ thread[u].call # thread[t].call
        BY <1>3, <3>2 DEF CallsInv
      <4>2. thread[u].ret = "sent" <=> \E f \in wire : f.call = thread[u].call
        BY <4>1 DEF CallsInv
      <4>3. QED
        BY <2>3, <2>4, <2>5, <4>1, <4>2
    <3>3. QED
      BY <3>1, <3>2
  <2>12. QED
    BY <2>6, <2>7, <2>8, <2>9, <2>10, <2>11 DEF CallsInv
<1>6. CASE Works(t)
  <2>1. /\ UNCHANGED <<wire, calls>> /\ (t \in Holders' <=> t \in Holders)
    BY <1>6 DEF Works, Keeps, Starts, Opens, Writes, Holders
  <2>2. \/ (thread'[t].call = 0 /\ t \notin Holders)
        \/ (thread'[t].call = thread[t].call /\ thread'[t].pc # "idle")
    BY <1>6 DEF Works, Starts, Opens, Writes, Same, Holders, Holding, Starting
  <2>3. (\A u \in Thread : thread[u].call <= calls)'
    BY <1>2, <1>3, <2>1, <2>2 DEF CallsInv
  <2>4. (\A u, v \in Thread : thread[u].call = thread[v].call /\ thread[u].call # 0 => u = v)'
    BY <1>3, <2>2 DEF CallsInv
  <2>5. (\A u \in Holders : thread[u].call # 0 /\ \A f \in wire : f.call # thread[u].call)'
    <3> SUFFICES ASSUME NEW u \in Holders'
                 PROVE  thread'[u].call # 0 /\ \A f \in wire' : f.call # thread'[u].call
      OBVIOUS
    <3>1. u \in Holders /\ thread'[u].call = thread[u].call
      BY <1>3, <2>1, <2>2 DEF Holders
    <3>2. QED
      BY <2>1, <3>1 DEF CallsInv
  <2>6. (\A u \in Thread : thread[u].pc = "idle" /\ thread[u].call # 0 =>
          (thread[u].ret = "sent" <=> \E f \in wire : f.call = thread[u].call))'
    BY <1>3, <2>1, <2>2 DEF CallsInv
  <2>7. QED
    BY <2>1, <2>3, <2>4, <2>5, <2>6 DEF CallsInv
<1>7. QED
  BY <1>1, <1>4, <1>5, <1>6

\* No interface is opened twice.
LEMMA SocketsKept ==
  ASSUME FramesTypes, BuffersInv, SocketsInv, FramesNext, "initFails" \notin FrameFaults
  PROVE  SocketsInv'
<1>1. PICK t \in Thread :
        /\ thread' \in [Thread -> ThreadStates] /\ Others(t)
        /\ \/ \E p \in Datagram : Begins(t, p)
           \/ \E ret \in {"sent", "error", "closed"} : Gives(t, ret)
           \/ Works(t)
  BY Moves
<1>2. \A u \in Thread : u # t => thread'[u] = thread[u] /\ (u \in Holders' <=> u \in Holders)
  BY <1>1 DEF Others, Holders
<1>3. ASSUME UNCHANGED opSock, thread'[t].pc \notin Starting,
             thread'[t].pc \in Holding => opSock[thread'[t].pkt.door] = "open"
      PROVE  SocketsInv'
  BY <1>2, <1>3 DEF SocketsInv, Holders
<1>4. ASSUME NEW p \in Datagram, Begins(t, p) PROVE SocketsInv'
  BY <1>3, <1>4 DEF Begins, Starting
<1>5. ASSUME NEW ret \in {"sent", "error", "closed"}, Gives(t, ret) PROVE SocketsInv'
  BY <1>3, <1>5 DEF Gives, Releases, Starting, Holding
<1>6. CASE Starts(t)
  BY <1>2, <1>6 DEF SocketsInv, Starts, Holders, Holding
<1>7. CASE Opens(t)
  <2>1. PICK d \in Door : d = thread[t].pkt.door
    BY <1>7 DEF Opens, FramesTypes
  <2>2. opSock[d] = "none" /\ \A e \in Door : e # d => opSock'[e] = opSock[e]
    BY <1>7, <2>1 DEF Opens, FramesTypes, SocketsInv
  <2>3. /\ thread'[t].pc \notin Starting \cup Holding
        /\ \A u \in Thread : u # t /\ thread[u].pc \in Starting \cup Holding =>
             thread[u].pkt.door # d /\ thread[u].pkt.door \in Door
    BY <1>7, <2>1, <2>2 DEF Opens, Starting, Holding, SocketsInv, FramesTypes, Holders
  <2>4. QED
    BY <1>2, <2>2, <2>3 DEF SocketsInv, Holders
<1>8. CASE Writes(t)
  <2>1. /\ opSock' = opSock /\ thread'[t].pkt = thread[t].pkt
        /\ thread'[t].pc \in Starting => thread[t].pc \in Starting
        /\ thread'[t].pc \in Holding => thread[t].pc \in Holding
    BY <1>8 DEF Writes, Same, Starting, Holding
  <2>2. QED
    BY <1>2, <2>1 DEF SocketsInv, Holders
<1>9. QED
  BY <1>1, <1>4, <1>5, <1>6, <1>7, <1>8 DEF Works

\* Headers and frames, when threads do not share an interface.
LEMMA HeadersKept ==
  ASSUME FramesTypes, BuffersInv, FrameInv, FramesNext, "shared" \notin FrameFaults
  PROVE  FrameInv'
<1>1. PICK t \in Thread :
        /\ thread' \in [Thread -> ThreadStates] /\ Others(t)
        /\ \/ \E p \in Datagram : Begins(t, p)
           \/ \E ret \in {"sent", "error", "closed"} : Gives(t, ret)
           \/ Works(t)
  BY Moves
<1>2. \A u \in Thread : u # t => thread'[u] = thread[u]
  BY <1>1 DEF Others
<1>3. ASSUME UNCHANGED <<headers, buffer, wire>>, thread'[t].pc \notin {"udp", "copy", "send"},
             thread'[t].pc \in Filling => \A u \in Thread : u # t =>
               thread[u].pc \notin Filling \/ thread[u].pkt.door # thread'[t].pkt.door
      PROVE  FrameInv'
  BY <1>2, <1>3 DEF FrameInv, FrameOwn
<1>4. ASSUME NEW p \in Datagram, Begins(t, p) PROVE FrameInv'
  BY <1>3, <1>4 DEF Begins
<1>5. ASSUME NEW ret \in {"sent", "error", "closed"}, Gives(t, ret) PROVE FrameInv'
  <2>1. UNCHANGED <<headers, buffer>> /\ thread'[t].pc = "idle"
    BY <1>5 DEF Gives, Releases
  <2>2. FrameOwn'
    <3>1. CASE wire' = wire
      BY <3>1 DEF FrameInv, FrameOwn
    <3>2. CASE ret = "sent"
      <4>1. wire' = wire \cup {Frame(t)} /\ thread[t].pc = "send"
        BY <1>5, <3>2 DEF Gives
      <4>2. Frame(t).frame = buffer[thread[t].msg] /\ Frame(t).pkt = thread[t].pkt
        BY DEF Frame
      <4>3. Frame(t).frame = Own(thread[t].pkt)
        BY <4>1, <4>2 DEF FrameInv
      <4>4. QED
        BY <4>1, <4>2, <4>3 DEF FrameInv, FrameOwn, Own
    <3>3. QED
      BY <1>5, <3>1, <3>2 DEF Gives
  <2>3. QED
    BY <1>2, <2>1, <2>2 DEF FrameInv, Filling
<1>6. CASE Starts(t) \/ Opens(t)
  BY <1>3, <1>6 DEF Starts, Opens, Filling
<1>7. ASSUME Works(t), Writes(t), thread[t].pc \in {"init", "send"} PROVE FrameInv'
  <2>1. /\ UNCHANGED <<headers, buffer, wire>> /\ thread'[t].pkt = thread[t].pkt
        /\ thread'[t].pc \notin Filling /\ thread'[t].msg = thread[t].msg
        /\ thread'[t].pc \notin {"udp", "copy"} /\ (thread'[t].pc = "send" => thread[t].pc = "send")
    BY <1>7 DEF Writes, Same, Filling, Works, Keeps
  <2>2. QED
    BY <1>2, <2>1 DEF FrameInv, FrameOwn
<1>8. ASSUME Writes(t), thread[t].pc \in Filling PROVE FrameInv'
  <2>1. PICK d \in Door : d = thread[t].pkt.door
    BY <1>8 DEF FramesTypes, Filling, Holding
  <2>2. /\ thread'[t].pkt = thread[t].pkt /\ wire' = wire
        /\ \A u \in Thread : u # t /\ thread[u].pc \in Filling => thread[u].pkt.door # d
    BY <1>8, <2>1 DEF Writes, Same, FrameInv
  <2>3. (\A u, v \in Thread : thread[u].pc \in Filling /\ thread[v].pc \in Filling
           /\ thread[u].pkt.door = thread[v].pkt.door => u = v)'
    BY <1>2, <2>1, <2>2 DEF FrameInv
  <2>4. headers \in [Door -> Heads] /\ \A e \in Door : headers[e] \in Heads
    BY DEF FramesTypes
  <2>5. CASE thread[t].pc = "ip"
    <3>1. WriteIp(t) /\ thread'[t].pc = "udp" /\ buffer' = buffer
      BY <1>8, <2>5 DEF Writes, WriteIp
    <3>2. headers'[d].ip = thread[t].pkt /\ \A e \in Door : e # d => headers'[e] = headers[e]
      <4>1. PICK h : h = [headers[d] EXCEPT !.ip = thread[t].pkt]
        OBVIOUS
      <4>2. h.ip = thread[t].pkt
        BY <2>4, <4>1 DEF Heads
      <4>3. headers' = [headers EXCEPT ![d] = h]
        BY <2>1, <3>1, <4>1 DEF WriteIp
      <4>4. QED
        BY <2>4, <4>2, <4>3
    <3>3. QED
      BY <1>2, <2>1, <2>2, <2>3, <3>1, <3>2 DEF FrameInv, FrameOwn, FramesTypes, Filling, Holding
  <2>6. CASE thread[t].pc = "udp"
    <3>1. WriteUdp(t) /\ thread'[t].pc = "copy" /\ buffer' = buffer
      BY <1>8, <2>6 DEF Writes, WriteUdp
    <3>2. headers'[d] = Own(thread[t].pkt) /\ \A e \in Door : e # d => headers'[e] = headers[e]
      <4>1. headers[d].ip = thread[t].pkt
        BY <2>1, <2>6 DEF FrameInv
      <4>2. headers' = [headers EXCEPT ![d] = Own(thread[t].pkt)]
        BY <2>1, <3>1, <4>1 DEF WriteUdp, Own
      <4>3. QED
        BY <2>4, <4>2
    <3>3. QED
      BY <1>2, <2>1, <2>2, <2>3, <3>1, <3>2 DEF FrameInv, FrameOwn, FramesTypes, Filling, Holding
  <2>7. CASE thread[t].pc = "copy"
    <3>1. CopyHeaders(t) /\ thread'[t].pc = "send" /\ headers' = headers
      BY <1>8, <2>7 DEF Writes, CopyHeaders
    <3>2. PICK m : m = thread[t].msg
      OBVIOUS
    <3>3. headers[d] = Own(thread[t].pkt)
      BY <2>1, <2>7 DEF FrameInv
    <3>4. buffer' = [n \in DOMAIN buffer \cup {m} |-> IF n = m THEN Own(thread[t].pkt) ELSE buffer[n]]
      BY <2>1, <3>1, <3>2, <3>3 DEF CopyHeaders
    <3>5. \A u \in Thread : u # t /\ thread[u].pc = "send" => thread[u].msg # m
      BY <2>7, <3>2 DEF BuffersInv, Holders, Holding
    <3>6. m \in DOMAIN buffer' /\ buffer'[m] = Own(thread[t].pkt)
          /\ \A n \in DOMAIN buffer : n # m => n \in DOMAIN buffer' /\ buffer'[n] = buffer[n]
      BY <3>4
    <3>7. thread'[t].msg = m
      BY <1>1, <1>8, <2>7, <3>1, <3>2, MoveThread DEF CopyHeaders, Holding
    <3>8. (\A u \in Thread :
       /\ thread[u].pc = "udp" => headers[thread[u].pkt.door].ip = thread[u].pkt
       /\ thread[u].pc = "copy" => headers[thread[u].pkt.door] = Own(thread[u].pkt)
       /\ thread[u].pc = "send" =>
            thread[u].msg \in DOMAIN buffer /\ buffer[thread[u].msg] = Own(thread[u].pkt))'
      <4> SUFFICES ASSUME NEW u \in Thread
                   PROVE  /\ thread'[u].pc = "udp" => headers'[thread'[u].pkt.door].ip = thread'[u].pkt
                          /\ thread'[u].pc = "copy" => headers'[thread'[u].pkt.door] = Own(thread'[u].pkt)
                          /\ thread'[u].pc = "send" => thread'[u].msg \in DOMAIN buffer'
                               /\ buffer'[thread'[u].msg] = Own(thread'[u].pkt)
        OBVIOUS
      <4>1. CASE u = t
        BY <2>2, <3>1, <3>6, <3>7, <4>1
      <4>2. CASE u # t
        BY <1>2, <3>1, <3>5, <3>6, <4>2 DEF FrameInv
      <4>3. QED
        BY <4>1, <4>2
    <3>9. FrameOwn'
      BY <2>2 DEF FrameInv, FrameOwn
    <3>10. QED
      BY <2>3, <3>8, <3>9 DEF FrameInv
  <2>8. QED
    BY <1>8, <2>5, <2>6, <2>7 DEF Filling
<1>9. ASSUME Writes(t) PROVE thread[t].pc \in {"init", "send"} \cup Filling
  BY <1>9 DEF Writes, Filling
<1>10. QED
  BY <1>1, <1>4, <1>5, <1>6, <1>7, <1>8, <1>9 DEF Works

\* No step of a thread breaks the invariant.
LEMMA FramesStep == FramesInv /\ [FramesNext]_framesVars => FramesInv'
<1>1. ASSUME FramesInv, FramesNext PROVE FramesInv'
  BY <1>1, FramesTypesKept, BuffersKept, CallsKept, HeadersKept, SocketsKept DEF FramesInv
<1>2. ASSUME FramesInv, UNCHANGED framesVars PROVE FramesInv'
  BY <1>2 DEF FramesInv, framesVars, FramesTypes, BuffersInv, CallsInv, FrameInv, SocketsInv, FrameOwn,
     Holders, Filling
<1>3. QED
  BY <1>1, <1>2

\* The invariant says what FramesSound does: nobody shares a buffer, and each frame
\* that left had the address and the length of its own datagram.
LEMMA FramesImplied ==
  ASSUME FramesInv
  PROVE  /\ BufferOwned
         /\ "shared" \notin FrameFaults => FrameOwn
         /\ "initFails" \notin FrameFaults => SentTruly
<1>1. {t \in Thread : thread[t].msg # <<>>} = Holders
  BY DEF FramesInv, FramesTypes, Holders
<1>2. msgPool.stack \in Seq(Buffers) /\ Unique(msgPool.stack)
  BY DEF FramesInv, FramesTypes, BuffersInv
<1>3. Cardinality(ToSet(msgPool.stack)) = Len(msgPool.stack)
  BY <1>2, UniqueCounts
<1>4. BufferOwned
  <2>1. /\ \A t, u \in Holders : thread[t].msg = thread[u].msg => t = u
        /\ ToSet(msgPool.stack) \cap {thread[t].msg : t \in Holders} = {}
        /\ msgPool.reuse => Cardinality(Holders) + Len(msgPool.stack)
              = (msgPool.chunk - 1) * PerPool + msgPool.top
    BY DEF FramesInv, BuffersInv
  <2>2. QED
    BY ONLY <1>1, <1>3, <2>1 DEF BufferOwned
<1>5. "shared" \notin FrameFaults => FrameOwn
  BY DEF FramesInv, FrameInv
<1>6. "initFails" \notin FrameFaults => SentTruly
  BY DEF FramesInv, FramesTypes, CallsInv, SocketsInv, SentTruly, Holders, Holding
<1>7. QED
  BY <1>4, <1>5, <1>6

\* The threads that send frames never share a buffer of the pool, and a frame leaves
\* with the address, the length and the socket of its own datagram.
THEOREM FramesAreSound ==
  ASSUME FrameFaults = {}
  PROVE  FramesInit /\ [][FramesNext]_framesVars => []FramesSound
<1>1. FramesInv => FramesSound
  BY FramesImplied DEF FramesSound
<1>2. QED
  BY <1>1, FramesInitInv, FramesStep, PTL

-----------------------------------------------------------------------------
\* Packets and their pools (PacketPool).

(***************************************************************************)
(* Packets and headers.                                                    *)
(***************************************************************************)
ObjectPools == [stack : Seq(Nat), top : 1 .. PacketsPerPool, total : Nat, out : Int]

\* How many objects of a pool were handed out at least once, and which.
Used(objs) == IF pooled THEN objs.total - PacketsPerPool + objs.top ELSE objs.total
WasUsed(objs, m) == m \in 1 .. Used(objs)

\* What was given back is on the stack once.
SoundPool(objs) ==
  /\ objs \in ObjectPools /\ Used(objs) >= 0
  /\ Unique(objs.stack) /\ \A m \in ToSet(objs.stack) : WasUsed(objs, m)

\* What the assumption on the constants says.
LEMMA PacketConstants ==
  /\ PacketsPerPool \in Nat /\ PacketsPerPool > 0 /\ MaxDataSize \in Nat /\ MaxHeaders \in Nat
  BY PacketPoolAssumption DEF PacketPoolAssumption

\* A new object was never used, or it leaves the stack.
LEMMA TakeObject ==
  ASSUME NEW objs, SoundPool(objs), pooled \in BOOLEAN
  PROVE  /\ SoundPool(Taken(objs)) /\ Object(objs) \in Nat /\ WasUsed(Taken(objs), Object(objs))
         /\ Object(objs) \notin ToSet(Taken(objs).stack)
         /\ ToSet(Taken(objs).stack) \subseteq ToSet(objs.stack)
         /\ \A m : WasUsed(objs, m) => WasUsed(Taken(objs), m)
         /\ WasUsed(objs, Object(objs)) => Object(objs) \in ToSet(objs.stack)
         /\ Taken(objs).out = objs.out + 1
         /\ Taken(objs).total = objs.total + (IF NewArray(objs) THEN Cut ELSE 0)
<1> USE PacketConstants
<1>1. /\ objs \in ObjectPools /\ objs.stack \in Seq(Nat) /\ objs.total \in Nat /\ objs.out \in Int
      /\ objs.top \in Nat /\ objs.top >= 1 /\ objs.top <= PacketsPerPool
      /\ Unique(objs.stack) /\ \A m \in ToSet(objs.stack) : WasUsed(objs, m)
      /\ Used(objs) \in Nat
  BY DEF SoundPool, ObjectPools, Used
<1>2. CASE NewArray(objs)
  <2>1. Cut \in Nat /\ (pooled => Cut = PacketsPerPool /\ objs.top = PacketsPerPool) /\ (~pooled => Cut = 1)
    BY <1>2 DEF Cut, NewArray, ArrayUsed
  <2>2. Taken(objs) = [[objs EXCEPT !.total = objs.total + Cut, !.top = 1] EXCEPT !.out = objs.out + 1]
    BY <1>1, <1>2 DEF Taken, ObjectPools
  <2>3. /\ Taken(objs).stack = objs.stack /\ Taken(objs).total = objs.total + Cut /\ Taken(objs).top = 1
        /\ Taken(objs).out = objs.out + 1 /\ Taken(objs) \in ObjectPools
    <3>1. objs.total + Cut \in Nat /\ 1 \in 1 .. PacketsPerPool /\ objs.out + 1 \in Int
      BY <1>1, <2>1
    <3>2. PICK n \in Nat, t \in 1 .. PacketsPerPool, o \in Int : n = objs.total + Cut /\ t = 1 /\ o = objs.out + 1
      BY <1>1, <2>1, <2>2, <3>1
    <3>3. PICK r : r = Taken(objs)
      OBVIOUS
    <3>4. r = [[objs EXCEPT !.total = n, !.top = t] EXCEPT !.out = o] /\ objs \in ObjectPools
      BY <1>1, <2>2, <3>2, <3>3
    <3>5. r \in ObjectPools /\ r.stack = objs.stack /\ r.total = n /\ r.top = t /\ r.out = o
      <4>1. /\ objs = [stack |-> objs.stack, top |-> objs.top, total |-> objs.total, out |-> objs.out]
            /\ objs.stack \in Seq(Nat) /\ objs.top \in 1 .. PacketsPerPool /\ objs.total \in Nat
        BY <1>1 DEF ObjectPools
      <4>2. PICK aa, bb, cc, dd : aa = objs.stack /\ bb = objs.top /\ cc = objs.total /\ dd = objs.out
        OBVIOUS
      <4>3. objs = [stack |-> aa, top |-> bb, total |-> cc, out |-> dd]
        BY <4>1, <4>2
      <4>4. QED
        BY ONLY <3>2, <3>4, <4>1, <4>2, <4>3 DEF ObjectPools
    <3>6. QED
      BY <3>2, <3>3, <3>5
  <2>4. Object(objs) = objs.total + 1
    BY <1>2 DEF Object
  <2>5. Used(Taken(objs)) = objs.total + 1 /\ Used(objs) = objs.total
    BY <1>1, <2>1, <2>3 DEF Used
  <2>6. Object(objs) \in Nat /\ ~WasUsed(objs, Object(objs)) /\ WasUsed(Taken(objs), Object(objs))
        /\ \A m : WasUsed(objs, m) => WasUsed(Taken(objs), m)
    BY <1>1, <2>4, <2>5 DEF WasUsed
  <2>7. Object(objs) \notin ToSet(objs.stack)
    BY <1>1, <2>6
  <2>8. QED
    BY <1>1, <1>2, <2>3, <2>5, <2>6, <2>7 DEF SoundPool
<1>3. CASE ~NewArray(objs) /\ ArrayUsed(objs)
  <2>1. pooled /\ objs.stack # <<>>
    BY <1>3 DEF NewArray, Empty
  <2>2. /\ Taken(objs) = [[objs EXCEPT !.stack = Front(objs.stack)] EXCEPT !.out = objs.out + 1]
        /\ Object(objs) = Last(objs.stack)
    BY <1>1, <1>3 DEF Taken, Pop, Object, Top, ObjectPools
  <2>3. /\ Front(objs.stack) \in Seq(Nat) /\ Last(objs.stack) \in Nat
        /\ ToSet(objs.stack) = ToSet(Front(objs.stack)) \cup {Last(objs.stack)}
        /\ Unique(Front(objs.stack)) /\ Last(objs.stack) \notin ToSet(Front(objs.stack))
    BY <1>1, <2>1, FrontElements
  <2>4. /\ Taken(objs).stack = Front(objs.stack) /\ Taken(objs).total = objs.total
        /\ Taken(objs).top = objs.top /\ Taken(objs).out = objs.out + 1 /\ Taken(objs) \in ObjectPools
    <3>1. objs.out + 1 \in Int
      BY <1>1
    <3>2. PICK s \in Seq(Nat), o \in Int : s = Front(objs.stack) /\ o = objs.out + 1
      BY <1>1, <2>1, <2>2, <2>3, <3>1
    <3>3. PICK r : r = Taken(objs)
      OBVIOUS
    <3>4. r = [[objs EXCEPT !.stack = s] EXCEPT !.out = o] /\ objs \in ObjectPools
      BY <1>1, <2>2, <3>2, <3>3
    <3>5. r \in ObjectPools /\ r.stack = s /\ r.total = objs.total /\ r.top = objs.top /\ r.out = o
      <4>1. /\ objs = [stack |-> objs.stack, top |-> objs.top, total |-> objs.total, out |-> objs.out]
            /\ objs.stack \in Seq(Nat) /\ objs.top \in 1 .. PacketsPerPool /\ objs.total \in Nat
        BY <1>1 DEF ObjectPools
      <4>2. PICK aa, bb, cc, dd : aa = objs.stack /\ bb = objs.top /\ cc = objs.total /\ dd = objs.out
        OBVIOUS
      <4>3. objs = [stack |-> aa, top |-> bb, total |-> cc, out |-> dd]
        BY <4>1, <4>2
      <4>4. QED
        BY ONLY <3>2, <3>4, <4>1, <4>2, <4>3 DEF ObjectPools
    <3>6. QED
      BY <3>2, <3>3, <3>5
  <2>5. Used(Taken(objs)) = Used(objs)
    BY <2>4 DEF Used
  <2>6. \A m : WasUsed(objs, m) <=> WasUsed(Taken(objs), m)
    BY <2>5 DEF WasUsed
  <2>7. WasUsed(objs, Object(objs)) /\ Object(objs) \in ToSet(objs.stack)
    BY <1>1, <2>2, <2>3
  <2>8. QED
    BY <1>1, <1>3, <2>2, <2>3, <2>4, <2>5, <2>6, <2>7 DEF SoundPool
<1>4. CASE ~NewArray(objs) /\ ~ArrayUsed(objs)
  <2>1. pooled /\ objs.top # PacketsPerPool /\ objs.top + 1 \in 1 .. PacketsPerPool
    BY <1>1, <1>4 DEF NewArray, ArrayUsed
  <2>2. /\ Taken(objs) = [[objs EXCEPT !.top = objs.top + 1] EXCEPT !.out = objs.out + 1]
        /\ Object(objs) = objs.total - PacketsPerPool + objs.top + 1
    BY <1>1, <1>4 DEF Taken, Object, ObjectPools
  <2>4. /\ Taken(objs).stack = objs.stack /\ Taken(objs).total = objs.total
        /\ Taken(objs).top = objs.top + 1 /\ Taken(objs).out = objs.out + 1 /\ Taken(objs) \in ObjectPools
    <3>1. objs.out + 1 \in Int
      BY <1>1
    <3>2. PICK n \in Nat, t \in 1 .. PacketsPerPool, o \in Int : n = objs.total /\ t = objs.top + 1 /\ o = objs.out + 1
      BY <1>1, <2>1, <2>2, <3>1
    <3>3. PICK r : r = Taken(objs)
      OBVIOUS
    <3>4. r = [[objs EXCEPT !.top = t] EXCEPT !.out = o] /\ objs \in ObjectPools
      BY <1>1, <2>2, <3>2, <3>3
    <3>5. r \in ObjectPools /\ r.stack = objs.stack /\ r.total = n /\ r.top = t /\ r.out = o
      <4>1. /\ objs = [stack |-> objs.stack, top |-> objs.top, total |-> objs.total, out |-> objs.out]
            /\ objs.stack \in Seq(Nat) /\ objs.top \in 1 .. PacketsPerPool /\ objs.total \in Nat
        BY <1>1 DEF ObjectPools
      <4>2. PICK aa, bb, cc, dd : aa = objs.stack /\ bb = objs.top /\ cc = objs.total /\ dd = objs.out
        OBVIOUS
      <4>3. objs = [stack |-> aa, top |-> bb, total |-> cc, out |-> dd]
        BY <4>1, <4>2
      <4>4. QED
        BY ONLY <3>2, <3>4, <4>1, <4>2, <4>3 DEF ObjectPools
    <3>6. QED
      BY <3>2, <3>3, <3>5
  <2>5. Used(Taken(objs)) = Used(objs) + 1 /\ Object(objs) = Used(objs) + 1
    <3>1. PICK r : r = Taken(objs)
      OBVIOUS
    <3>2. r.top = objs.top + 1 /\ r.total = objs.total
      BY ONLY <2>4, <3>1
    <3>3. Used(r) = r.total - PacketsPerPool + r.top /\ Used(objs) = objs.total - PacketsPerPool + objs.top
      BY <2>1 DEF Used
    <3>4. objs.total \in Int /\ objs.top \in Int /\ PacketsPerPool \in Int
      BY <1>1, PacketConstants
    <3>5. QED
      BY ONLY <2>2, <3>1, <3>2, <3>3, <3>4
  <2>6. Object(objs) \in Nat /\ ~WasUsed(objs, Object(objs)) /\ WasUsed(Taken(objs), Object(objs))
        /\ \A m : WasUsed(objs, m) => WasUsed(Taken(objs), m)
    BY <1>1, <2>5 DEF WasUsed
  <2>7. Object(objs) \notin ToSet(objs.stack)
    BY <1>1, <2>6
  <2>8. QED
    BY <1>1, <1>4, <2>4, <2>5, <2>6, <2>7 DEF SoundPool
<1>5. QED
  BY <1>2, <1>3, <1>4

\* Objects that go back are not on the stack before.
LEMMA GiveObjects ==
  ASSUME NEW objs, SoundPool(objs), pooled \in BOOLEAN, NEW objects \in Seq(Nat), Unique(objects),
         ToSet(objects) \cap ToSet(objs.stack) = {}, \A m \in ToSet(objects) : WasUsed(objs, m)
  PROVE  LET after == FreeOptionalHeader(objs, objects)
         IN /\ SoundPool(after) /\ ToSet(after.stack) \subseteq ToSet(objs.stack) \cup ToSet(objects)
            /\ \A m : WasUsed(objs, m) <=> WasUsed(after, m)
            /\ after.out = objs.out - Len(objects) /\ after.total = objs.total
<1>1. /\ objs \in ObjectPools /\ objs.stack \in Seq(Nat) /\ objs.out \in Int /\ Unique(objs.stack)
      /\ \A m \in ToSet(objs.stack) : WasUsed(objs, m)
  BY DEF SoundPool, ObjectPools
<1>2. /\ objs.stack \o objects \in Seq(Nat) /\ Unique(objs.stack \o objects)
      /\ ToSet(objs.stack \o objects) = ToSet(objs.stack) \cup ToSet(objects)
      /\ Len(objects) \in Nat
  BY <1>1, ConcatElements, LenProperties
<1>3. PICK r : r = FreeOptionalHeader(objs, objects)
  OBVIOUS
<1>4. r = [objs EXCEPT !.stack = IF pooled THEN objs.stack \o objects ELSE objs.stack,
                       !.out = objs.out - Len(objects)]
  BY <1>3 DEF FreeOptionalHeader
<1>5. /\ r \in ObjectPools /\ r.stack = (IF pooled THEN objs.stack \o objects ELSE objs.stack)
      /\ r.out = objs.out - Len(objects) /\ r.total = objs.total /\ r.top = objs.top
  <2>1. PICK s \in Seq(Nat) : s = IF pooled THEN objs.stack \o objects ELSE objs.stack
    BY <1>1, <1>2
  <2>2. PICK o \in Int : o = objs.out - Len(objects)
    BY <1>1, <1>2
  <2>3. r = [objs EXCEPT !.stack = s, !.out = o] /\ objs \in ObjectPools
    BY <1>1, <1>4, <2>1, <2>2
  <2>4. r \in ObjectPools /\ r.stack = s /\ r.total = objs.total /\ r.top = objs.top /\ r.out = o
    <3>1. /\ objs = [stack |-> objs.stack, top |-> objs.top, total |-> objs.total, out |-> objs.out]
          /\ objs.stack \in Seq(Nat) /\ objs.top \in 1 .. PacketsPerPool /\ objs.total \in Nat
      BY <1>1 DEF ObjectPools
    <3>2. PICK aa, bb, cc, dd : aa = objs.stack /\ bb = objs.top /\ cc = objs.total /\ dd = objs.out
      OBVIOUS
    <3>3. objs = [stack |-> aa, top |-> bb, total |-> cc, out |-> dd]
      BY <3>1, <3>2
    <3>4. QED
      BY ONLY <2>1, <2>2, <2>3, <3>1, <3>2, <3>3 DEF ObjectPools
  <2>5. QED
    BY <2>1, <2>2, <2>4
<1>6. Used(r) = Used(objs)
  BY <1>5 DEF Used
<1>7. \A m : WasUsed(objs, m) <=> WasUsed(r, m)
  BY <1>6 DEF WasUsed
<1>8. SoundPool(r) /\ ToSet(r.stack) \subseteq ToSet(objs.stack) \cup ToSet(objects)
  <2>1. Used(r) >= 0
    BY <1>6 DEF SoundPool
  <2>2. QED
    BY <1>1, <1>2, <1>5, <1>7, <2>1 DEF SoundPool
<1>9. QED
  BY <1>3, <1>5, <1>7, <1>8

\* An object that is freed goes on the stack, once.
LEMMA GiveObject ==
  ASSUME NEW objs, SoundPool(objs), pooled \in BOOLEAN, NEW x \in Nat,
         x \notin ToSet(objs.stack), WasUsed(objs, x)
  PROVE  /\ SoundPool(Push(objs, x)) /\ ToSet(Push(objs, x).stack) \subseteq ToSet(objs.stack) \cup {x}
         /\ \A m : WasUsed(objs, m) <=> WasUsed(Push(objs, x), m)
         /\ Push(objs, x).out = objs.out - 1 /\ Push(objs, x).total = objs.total
<1>1. /\ objs \in ObjectPools /\ objs.stack \in Seq(Nat) /\ objs.out \in Int /\ Unique(objs.stack)
      /\ \A m \in ToSet(objs.stack) : WasUsed(objs, m)
  BY DEF SoundPool, ObjectPools
<1>2. /\ Append(objs.stack, x) \in Seq(Nat) /\ Unique(Append(objs.stack, x))
      /\ ToSet(Append(objs.stack, x)) = ToSet(objs.stack) \cup {x}
  BY <1>1, AppendElements
<1>3. PICK r : r = Push(objs, x)
  OBVIOUS
<1>4. r = [objs EXCEPT !.stack = IF pooled THEN Append(objs.stack, x) ELSE objs.stack,
                       !.out = objs.out - 1]
  BY <1>3 DEF Push
<1>5. /\ r \in ObjectPools /\ r.stack = (IF pooled THEN Append(objs.stack, x) ELSE objs.stack)
      /\ r.out = objs.out - 1 /\ r.total = objs.total /\ r.top = objs.top
  <2>1. PICK s \in Seq(Nat) : s = IF pooled THEN Append(objs.stack, x) ELSE objs.stack
    BY <1>1, <1>2
  <2>2. PICK o \in Int : o = objs.out - 1
    BY <1>1
  <2>3. r = [objs EXCEPT !.stack = s, !.out = o] /\ objs \in ObjectPools
    BY <1>1, <1>4, <2>1, <2>2
  <2>4. r \in ObjectPools /\ r.stack = s /\ r.total = objs.total /\ r.top = objs.top /\ r.out = o
    <3>1. /\ objs = [stack |-> objs.stack, top |-> objs.top, total |-> objs.total, out |-> objs.out]
          /\ objs.stack \in Seq(Nat) /\ objs.top \in 1 .. PacketsPerPool /\ objs.total \in Nat
      BY <1>1 DEF ObjectPools
    <3>2. PICK aa, bb, cc, dd : aa = objs.stack /\ bb = objs.top /\ cc = objs.total /\ dd = objs.out
      OBVIOUS
    <3>3. objs = [stack |-> aa, top |-> bb, total |-> cc, out |-> dd]
      BY <3>1, <3>2
    <3>4. QED
      BY ONLY <2>1, <2>2, <2>3, <3>1, <3>2, <3>3 DEF ObjectPools
  <2>5. QED
    BY <2>1, <2>2, <2>4
<1>6. Used(r) = Used(objs)
  BY <1>5 DEF Used
<1>7. \A m : WasUsed(objs, m) <=> WasUsed(r, m)
  BY <1>6 DEF WasUsed
<1>8. SoundPool(r) /\ ToSet(r.stack) \subseteq ToSet(objs.stack) \cup {x}
  <2>1. Used(r) >= 0
    BY <1>6 DEF SoundPool
  <2>2. QED
    BY <1>1, <1>2, <1>5, <1>7, <2>1 DEF SoundPool
<1>9. QED
  BY <1>3, <1>5, <1>7, <1>8

(***************************************************************************)
(* Who has which packet, and what is in it.                                *)
(***************************************************************************)
PacketShapes == [data : BOOLEAN, capa : Nat, used : BOOLEAN, opt : Seq(Nat)]
TakerStates == [pc : {"idle", "clear", "new"}, pkt : Nat, withData : BOOLEAN]

\* Which values the variables of the pools have.
PacketTypes ==
  /\ pooled \in BOOLEAN /\ SoundPool(packetPool) /\ SoundPool(headerPool)
  /\ packets \in Seq(PacketShapes) /\ Len(packets) = packetPool.total
  /\ taker \in [PoolThread -> TakerStates]
  /\ \A t \in PoolThread : taker[t].pc = "idle" => taker[t].pkt = 0

\* A packet that was handed out has one holder.
HoldersInv ==
  /\ IsFiniteSet(held \cup InHand) /\ packetPool.out = Cardinality(held \cup InHand)
  /\ \A n \in held \cup InHand : WasUsed(packetPool, n) /\ n \notin ToSet(packetPool.stack)
  /\ held \cap InHand = {}
  /\ \A t, u \in PoolThread : taker[t].pc # "idle" /\ taker[u].pc # "idle"
       /\ taker[t].pkt = taker[u].pkt => t = u

\* What is in a packet that nobody has, and in one that was just handed out.
ContentsInv ==
  /\ \A n \in DOMAIN packets : packets[n].data => packets[n].capa = MaxDataSize
  /\ \A n \in DOMAIN packets : packets[n].opt # <<>> =>
       n \in held \/ \E t \in PoolThread : taker[t].pc = "new" /\ taker[t].pkt = n
  /\ \A t \in PoolThread : taker[t].pc = "new" =>
       /\ ~packets[taker[t].pkt].used
       /\ taker[t].withData => packets[taker[t].pkt].data

\* A header is on one packet, once, or on the stack.
HeadersOf(n) == ToSet(packets[n].opt)
OnPackets == UNION {HeadersOf(n) : n \in DOMAIN packets}
HeadersInv ==
  /\ \A n \in DOMAIN packets : Unique(packets[n].opt)
  /\ \A n, m \in DOMAIN packets : n # m => HeadersOf(n) \cap HeadersOf(m) = {}
  /\ \A h \in OnPackets : WasUsed(headerPool, h) /\ h \notin ToSet(headerPool.stack)
  /\ IsFiniteSet(OnPackets) /\ headerPool.out = Cardinality(OnPackets)

\* The inductive invariant of the pools.
PacketsInv == PacketTypes /\ HoldersInv /\ ContentsInv /\ HeadersInv

\* Nothing was taken yet.
LEMMA PacketsInitInv == PacketPoolInit => PacketsInv
<1> SUFFICES ASSUME PacketPoolInit PROVE PacketsInv
  OBVIOUS
<1> USE PacketConstants
<1>1. /\ <<>> \in Seq(Nat) /\ <<>> \in Seq(PacketShapes) /\ Len(<<>>) = 0 /\ ToSet(<<>>) = {}
      /\ Unique(<<>>) /\ DOMAIN <<>> = {}
  BY EmptySeq DEF ToSet, Unique
<1>2. /\ packetPool = NewPool /\ headerPool = NewPool /\ packets = <<>> /\ held = {}
      /\ taker = [t \in PoolThread |-> IdleTaker] /\ pooled \in BOOLEAN
  BY DEF PacketPoolInit
<1>3. SoundPool(NewPool) /\ NewPool.total = 0 /\ NewPool.out = 0
  <2>1. NewPool \in ObjectPools /\ NewPool.stack = <<>> /\ NewPool.total = 0 /\ NewPool.top = PacketsPerPool
        /\ NewPool.out = 0
    BY <1>1 DEF NewPool, ObjectPools
  <2>2. Used(NewPool) = 0
    BY <2>1 DEF Used
  <2>3. QED
    BY <1>1, <2>1, <2>2 DEF SoundPool
<1>4. \A t \in PoolThread : taker[t].pc = "idle" /\ taker[t].pkt = 0
  BY <1>2 DEF IdleTaker
<1>5. InHand = {}
  BY <1>4 DEF InHand
<1>6. PacketTypes
  <2>1. IdleTaker \in TakerStates
    BY DEF IdleTaker, TakerStates
  <2>2. QED
    BY <1>1, <1>2, <1>3, <1>4, <2>1 DEF PacketTypes
<1>7. HoldersInv
  BY <1>2, <1>3, <1>4, <1>5, FS_EmptySet DEF HoldersInv
<1>8. ContentsInv
  BY <1>1, <1>2, <1>4 DEF ContentsInv
<1>9. HeadersInv
  <2>1. OnPackets = {}
    BY <1>1, <1>2 DEF OnPackets
  <2>2. QED
    BY <1>1, <1>2, <1>3, <2>1, FS_EmptySet DEF HeadersInv
<1>10. QED
  BY <1>6, <1>7, <1>8, <1>9 DEF PacketsInv

\* What happens to one packet.
Changed(n) ==
  /\ packets' \in Seq(PacketShapes) /\ Len(packets') = Len(packets) /\ n \in DOMAIN packets
  /\ \A k \in DOMAIN packets : k # n => packets'[k] = packets[k]

\* A packet that is changed leaves the others as they were.
LEMMA ChangePacket ==
  ASSUME PacketTypes, NEW n \in DOMAIN packets, NEW r \in PacketShapes, packets' = [packets EXCEPT ![n] = r]
  PROVE  Changed(n) /\ packets'[n] = r /\ DOMAIN packets' = DOMAIN packets
<1>1. packets \in Seq(PacketShapes) /\ DOMAIN packets = 1 .. Len(packets)
  BY LenProperties DEF PacketTypes
<1>2. /\ packets' \in Seq(PacketShapes) /\ Len(packets') = Len(packets)
      /\ \A j \in 1 .. Len(packets) : packets'[j] = IF j = n THEN r ELSE packets[j]
  BY <1>1, ExceptSeq
<1>3. DOMAIN packets' = 1 .. Len(packets')
  BY <1>2, LenProperties
<1>4. QED
  BY <1>1, <1>2, <1>3 DEF Changed

\* Which packets there are.
LEMMA PacketsThere ==
  ASSUME PacketTypes
  PROVE  /\ DOMAIN packets = 1 .. Len(packets) /\ Len(packets) \in Nat
         /\ \A n \in DOMAIN packets : /\ packets[n] \in PacketShapes /\ packets[n].opt \in Seq(Nat)
                                      /\ packets[n].capa \in Nat
         /\ \A n : WasUsed(packetPool, n) => n \in DOMAIN packets /\ n \in Nat /\ n > 0
<1> USE PacketConstants
<1>1. DOMAIN packets = 1 .. Len(packets) /\ Len(packets) \in Nat /\ Len(packets) = packetPool.total
  BY LenProperties DEF PacketTypes
<1>2. \A n \in DOMAIN packets : packets[n] \in PacketShapes
  BY <1>1, ElementOfSeq DEF PacketTypes
<1>3. Used(packetPool) <= packetPool.total /\ Used(packetPool) \in Int
  BY DEF PacketTypes, SoundPool, ObjectPools, Used
<1>4. QED
  BY <1>1, <1>2, <1>3 DEF PacketShapes, WasUsed

\* A thread takes packet n from the pool.
Takes(t, n) ==
  /\ taker[t].pc = "idle" /\ taker'[t].pc = "clear" /\ taker'[t].pkt = n
  /\ \A u \in PoolThread : u # t => taker'[u] = taker[u]
  /\ n = Object(packetPool) /\ packetPool' = Taken(packetPool) /\ UNCHANGED <<pooled, headerPool, held>>
  /\ packets' \in Seq(PacketShapes) /\ Len(packets') = packetPool'.total /\ Len(packets) <= Len(packets')
  /\ \A k \in DOMAIN packets' : k # n /\ k \in DOMAIN packets => packets'[k] = packets[k]
  /\ \A k \in DOMAIN packets' : k \in DOMAIN packets =>
       /\ packets'[k].opt = packets[k].opt /\ packets'[k].capa = packets[k].capa
       /\ packets'[k].data => packets[k].data
  /\ \A k \in DOMAIN packets' : k \notin DOMAIN packets => packets'[k].opt = <<>> /\ ~packets'[k].data

\* A thread that takes a packet, with room for data or without, has it to itself.
LEMMA GetNewPacketTakes ==
  ASSUME PacketTypes, NEW t \in PoolThread, NEW withData \in BOOLEAN, GetNewPacket(t, withData)
  PROVE  \E n \in Nat : Takes(t, n) /\ taker' \in [PoolThread -> TakerStates] /\ taker'[t].withData = withData
<1> USE PacketConstants
<1>1. PICK n : n = Object(packetPool)
  OBVIOUS
<1>2. PICK all : all = IF NewArray(packetPool) THEN packets \o [k \in 1 .. Cut |-> NewPacket] ELSE packets
  OBVIOUS
<1>3. /\ SoundPool(Taken(packetPool)) /\ n \in Nat /\ WasUsed(Taken(packetPool), n)
      /\ Taken(packetPool).total = packetPool.total + (IF NewArray(packetPool) THEN Cut ELSE 0)
  BY <1>1, TakeObject DEF PacketTypes
<1>4. /\ taker[t].pc = "idle" /\ packetPool' = Taken(packetPool) /\ UNCHANGED <<pooled, headerPool, held>>
      /\ taker' = [taker EXCEPT ![t] = [pc |-> "clear", pkt |-> n, withData |-> withData]]
      /\ packets' = IF withData THEN all ELSE [all EXCEPT ![n].data = FALSE]
  BY <1>1, <1>2 DEF GetNewPacket
<1>5. /\ taker' \in [PoolThread -> TakerStates] /\ taker'[t].withData = withData /\ taker'[t].pc = "clear"
      /\ taker'[t].pkt = n /\ \A u \in PoolThread : u # t => taker'[u] = taker[u]
  BY <1>3, <1>4 DEF PacketTypes, TakerStates
<1>6. /\ packets \in Seq(PacketShapes) /\ Len(packets) = packetPool.total /\ Len(packets) \in Nat
      /\ DOMAIN packets = 1 .. Len(packets)
  BY LenProperties DEF PacketTypes
<1>7. NewPacket \in PacketShapes /\ NewPacket.opt = <<>> /\ ~NewPacket.data
  BY EmptySeq DEF NewPacket, PacketShapes
<1>8. /\ all \in Seq(PacketShapes) /\ Len(all) = Taken(packetPool).total /\ Len(packets) <= Len(all)
      /\ \A k \in 1 .. Len(all) : IF k \in 1 .. Len(packets) THEN all[k] = packets[k] ELSE all[k] = NewPacket
  <2>1. CASE NewArray(packetPool)
    <3>1. Cut \in Nat
      BY DEF Cut
    <3>2. PICK new : new = [k \in 1 .. Cut |-> NewPacket]
      OBVIOUS
    <3>3. new \in Seq(PacketShapes) /\ Len(new) = Cut /\ \A k \in 1 .. Cut : new[k] = NewPacket
      <4>1. new \in [1 .. Cut -> PacketShapes]
        BY <1>7, <3>2
      <4>2. new \in Seq(PacketShapes)
        BY <3>1, <4>1, SeqDef
      <4>3. Len(new) = Cut
        BY <3>1, <4>1, <4>2, LenProperties
      <4>4. QED
        BY <3>2, <4>2, <4>3
    <3>4. /\ all \in Seq(PacketShapes) /\ Len(all) = Len(packets) + Cut
          /\ \A k \in 1 .. Len(packets) + Cut :
               all[k] = IF k <= Len(packets) THEN packets[k] ELSE new[k - Len(packets)]
      <4>1. all = packets \o new
        BY <1>2, <2>1, <3>2
      <4>2. packets \in Seq(PacketShapes) /\ new \in Seq(PacketShapes)
        BY <1>6, <3>3
      <4>3. /\ packets \o new \in Seq(PacketShapes) /\ Len(packets \o new) = Len(packets) + Len(new)
            /\ \A k \in 1 .. Len(packets) + Len(new) :
                 (packets \o new)[k] = IF k <= Len(packets) THEN packets[k] ELSE new[k - Len(packets)]
        BY ONLY <4>2, ConcatProperties
      <4>4. QED
        BY <3>3, <4>1, <4>3
    <3>5. ASSUME NEW k \in 1 .. Len(all), k \notin 1 .. Len(packets) PROVE all[k] = NewPacket
      <4>1. ~(k <= Len(packets)) /\ k - Len(packets) \in 1 .. Cut
        BY <1>6, <3>1, <3>4, <3>5
      <4>2. all[k] = new[k - Len(packets)]
        BY <3>4, <4>1
      <4>3. QED
        BY <3>3, <4>1, <4>2
    <3>6. \A k \in 1 .. Len(all) : k \in 1 .. Len(packets) => all[k] = packets[k]
      BY <1>6, <3>4
    <3>7. Len(all) = Taken(packetPool).total /\ Len(packets) <= Len(all)
      BY <1>3, <1>6, <2>1, <3>1, <3>4
    <3>8. QED
      BY <3>4, <3>5, <3>6, <3>7
  <2>2. CASE ~NewArray(packetPool)
    <3>1. all = packets
      BY <1>2, <2>2
    <3>2. Len(packets) = Taken(packetPool).total
      BY <1>3, <1>6, <2>2
    <3>3. QED
      BY <1>6, <3>1, <3>2
  <2>3. QED
    BY <2>1, <2>2
<1>9. n \in 1 .. Len(all) /\ \A k \in 1 .. Len(all) : all[k] \in PacketShapes
  <2>1. Used(Taken(packetPool)) <= Taken(packetPool).total /\ Used(Taken(packetPool)) \in Int
        /\ Taken(packetPool).total \in Nat
    <3>1. PICK o : o = Taken(packetPool)
      OBVIOUS
    <3>2. o \in ObjectPools
      BY <1>3, <3>1 DEF SoundPool
    <3>3. o.total \in Nat /\ o.top \in Nat /\ o.top <= PacketsPerPool
      BY <3>2, PacketConstants DEF ObjectPools
    <3>4. Used(o) \in Int /\ Used(o) <= o.total
      BY <3>3, PacketConstants DEF Used
    <3>5. QED
      BY <3>1, <3>3, <3>4
  <2>2. QED
    BY <1>3, <1>8, <2>1, ElementOfSeq DEF WasUsed
<1>10. /\ packets' \in Seq(PacketShapes) /\ Len(packets') = Len(all)
       /\ \A k \in 1 .. Len(all) : k # n => packets'[k] = all[k]
       /\ packets'[n].opt = all[n].opt /\ packets'[n].capa = all[n].capa /\ (packets'[n].data => all[n].data)
  <2>1. CASE withData
    BY <1>4, <1>8, <2>1
  <2>2. CASE ~withData
    <3>1. PICK r : r = [all[n] EXCEPT !.data = FALSE]
      OBVIOUS
    <3>2. r \in PacketShapes /\ r.opt = all[n].opt /\ r.capa = all[n].capa /\ ~r.data
      BY <1>9, <3>1 DEF PacketShapes
    <3>3. packets' = [all EXCEPT ![n] = r]
      BY <1>4, <2>2, <3>1
    <3>4. /\ packets' \in Seq(PacketShapes) /\ Len(packets') = Len(all)
          /\ \A j \in 1 .. Len(all) : packets'[j] = IF j = n THEN r ELSE all[j]
      BY <1>8, <1>9, <3>2, <3>3, ExceptSeq
    <3>5. QED
      BY <1>9, <3>2, <3>4
  <2>3. QED
    BY <2>1, <2>2
<1>11. DOMAIN packets' = 1 .. Len(all)
  BY <1>10, LenProperties
<1>12. \A k \in DOMAIN packets' : packets'[k].opt = all[k].opt /\ packets'[k].capa = all[k].capa
         /\ (packets'[k].data => all[k].data)
  BY <1>10, <1>11
<1>13. \A k \in DOMAIN packets' : IF k \in DOMAIN packets THEN all[k] = packets[k] ELSE all[k] = NewPacket
  BY <1>6, <1>8, <1>11
<1>14. QED
  BY <1>1, <1>3, <1>4, <1>5, <1>6, <1>7, <1>8, <1>10, <1>11, <1>12, <1>13 DEF Takes

\* The other steps of packets.
LEMMA HandOutClears ==
  ASSUME PacketTypes, HoldersInv, ContentsInv, NEW t \in PoolThread, HandOut(t)
  PROVE  /\ Changed(taker[t].pkt) /\ packets'[taker[t].pkt].opt = <<>> /\ packets[taker[t].pkt].opt = <<>>
         /\ ~packets'[taker[t].pkt].used
         /\ packets'[taker[t].pkt].data => packets'[taker[t].pkt].capa = MaxDataSize
         /\ taker[t].withData => packets'[taker[t].pkt].data
         /\ taker[t].pc = "clear" /\ taker'[t].pc = "new" /\ taker'[t].pkt = taker[t].pkt
         /\ taker'[t].withData = taker[t].withData
         /\ taker' \in [PoolThread -> TakerStates] /\ \A u \in PoolThread : u # t => taker'[u] = taker[u]
<1> USE PacketConstants
<1>1. PICK n : n = taker[t].pkt
  OBVIOUS
<1>2. taker[t].pc = "clear" /\ n \in InHand
  BY <1>1 DEF HandOut, InHand
<1>3. n \in DOMAIN packets /\ packets[n] \in PacketShapes
  BY <1>2, PacketsThere DEF HoldersInv
<1>4. packets[n].opt = <<>>
  <2>1. n \notin held /\ \A u \in PoolThread : taker[u].pc = "new" => taker[u].pkt # n
    BY <1>1, <1>2 DEF HoldersInv
  <2>2. QED
    BY <1>3, <2>1 DEF ContentsInv
<1>5. PICK c : c = ReInitHeader(packets[n])
  OBVIOUS
<1>6. c \in PacketShapes /\ c.opt = <<>> /\ ~c.used /\ c.data = packets[n].data /\ c.capa = packets[n].capa
  BY <1>3, <1>5, EmptySeq DEF ReInitHeader, PacketShapes
<1>7. PICK r : r = IF taker[t].withData THEN WithData(c) ELSE c
  OBVIOUS
<1>8. /\ r \in PacketShapes /\ r.opt = <<>> /\ ~r.used /\ (r.data => r.capa = MaxDataSize)
      /\ taker[t].withData => r.data
  <2>1. packets[n].data => packets[n].capa = MaxDataSize
    BY <1>3 DEF ContentsInv
  <2>2. CASE taker[t].withData /\ ~c.data
    <3>1. r = [c EXCEPT !.data = TRUE, !.capa = MaxDataSize]
      BY <1>7, <2>2 DEF WithData
    <3>2. QED
      BY <1>6, <3>1 DEF PacketShapes
  <2>3. CASE ~taker[t].withData \/ c.data
    <3>1. r = c
      BY <1>7, <2>3 DEF WithData
    <3>2. QED
      BY <1>6, <1>7, <2>1, <2>3, <3>1
  <2>4. QED
    BY <2>2, <2>3
<1>9. packets' = [packets EXCEPT ![n] = r]
  BY <1>1, <1>5, <1>7 DEF HandOut
<1>10. Changed(n) /\ packets'[n] = r
  BY <1>3, <1>8, <1>9, ChangePacket
<1>11. taker' = [taker EXCEPT ![t].pc = "new"]
  BY DEF HandOut
<1>12. /\ taker'[t].pc = "new" /\ taker'[t].pkt = taker[t].pkt /\ taker'[t].withData = taker[t].withData
       /\ taker' \in [PoolThread -> TakerStates] /\ \A u \in PoolThread : u # t => taker'[u] = taker[u]
  <2>1. PICK after : after = [taker[t] EXCEPT !.pc = "new"]
    OBVIOUS
  <2>2. taker[t] \in TakerStates
    BY DEF PacketTypes
  <2>3. after \in TakerStates /\ after.pc = "new" /\ after.pkt = taker[t].pkt /\ after.withData = taker[t].withData
    BY <2>1, <2>2 DEF TakerStates
  <2>4. taker' = [taker EXCEPT ![t] = after]
    BY <1>11, <2>1
  <2>5. QED
    BY <2>3, <2>4 DEF PacketTypes
<1>13. QED
  BY <1>1, <1>2, <1>4, <1>8, <1>10, <1>12

\* addAckHeader puts a new header before those the packet has.
LEMMA AddAckHeaderAdds ==
  ASSUME PacketTypes, HoldersInv, NEW t \in PoolThread, AddAckHeader(t)
  PROVE  /\ Changed(taker[t].pkt) /\ packets'[taker[t].pkt].opt = <<Object(headerPool)>> \o packets[taker[t].pkt].opt
         /\ packets'[taker[t].pkt].used = packets[taker[t].pkt].used
         /\ packets'[taker[t].pkt].data = packets[taker[t].pkt].data
         /\ packets'[taker[t].pkt].capa = packets[taker[t].pkt].capa
         /\ taker[t].pc = "new" /\ headerPool' = Taken(headerPool)
         /\ UNCHANGED <<pooled, packetPool, taker, held, takes>>
<1>1. PICK n : n = taker[t].pkt
  OBVIOUS
<1>2. taker[t].pc = "new" /\ n \in InHand /\ Object(headerPool) \in Nat
  BY <1>1, TakeObject DEF AddAckHeader, InHand, PacketTypes
<1>3. n \in DOMAIN packets /\ packets[n] \in PacketShapes /\ packets[n].opt \in Seq(Nat)
  BY <1>2, PacketsThere DEF HoldersInv
<1>4. PICK r : r = [packets[n] EXCEPT !.opt = <<Object(headerPool)>> \o packets[n].opt]
  OBVIOUS
<1>5. <<Object(headerPool)>> \o packets[n].opt \in Seq(Nat)
  BY <1>2, <1>3, ConcatProperties
<1>6. /\ r \in PacketShapes /\ r.opt = <<Object(headerPool)>> \o packets[n].opt /\ r.used = packets[n].used
      /\ r.data = packets[n].data /\ r.capa = packets[n].capa
  BY <1>3, <1>4, <1>5 DEF PacketShapes
<1>7. packets' = [packets EXCEPT ![n] = r]
  BY <1>1, <1>4 DEF AddAckHeader
<1>8. Changed(n) /\ packets'[n] = r
  BY <1>3, <1>6, <1>7, ChangePacket
<1>9. QED
  BY <1>1, <1>2, <1>6, <1>8 DEF AddAckHeader

\* A packet that is passed on was filled, and its headers stay.
LEMMA PassOnUses ==
  ASSUME PacketTypes, HoldersInv, NEW t \in PoolThread, PassOn(t)
  PROVE  /\ Changed(taker[t].pkt) /\ packets'[taker[t].pkt].opt = packets[taker[t].pkt].opt
         /\ packets'[taker[t].pkt].data = packets[taker[t].pkt].data
         /\ packets'[taker[t].pkt].capa = packets[taker[t].pkt].capa
         /\ taker[t].pc = "new" /\ taker'[t].pc = "idle" /\ taker'[t].pkt = 0
         /\ taker' \in [PoolThread -> TakerStates] /\ \A u \in PoolThread : u # t => taker'[u] = taker[u]
         /\ held' = held \cup {taker[t].pkt} /\ UNCHANGED <<pooled, packetPool, headerPool, takes>>
<1>1. PICK n : n = taker[t].pkt
  OBVIOUS
<1>2. taker[t].pc = "new" /\ n \in InHand
  BY <1>1 DEF PassOn, InHand
<1>3. n \in DOMAIN packets /\ packets[n] \in PacketShapes
  BY <1>2, PacketsThere DEF HoldersInv
<1>4. PICK r : r = [packets[n] EXCEPT !.used = TRUE]
  OBVIOUS
<1>5. /\ r \in PacketShapes /\ r.opt = packets[n].opt /\ r.data = packets[n].data /\ r.capa = packets[n].capa
  BY <1>3, <1>4 DEF PacketShapes
<1>6. packets' = [packets EXCEPT ![n] = r]
  BY <1>1, <1>4 DEF PassOn
<1>7. Changed(n) /\ packets'[n] = r
  BY <1>3, <1>5, <1>6, ChangePacket
<1>8. taker' = [taker EXCEPT ![t] = IdleTaker] /\ IdleTaker \in TakerStates /\ IdleTaker.pc = "idle"
      /\ IdleTaker.pkt = 0
  BY DEF PassOn, IdleTaker, TakerStates
<1>9. /\ taker' \in [PoolThread -> TakerStates] /\ taker'[t] = IdleTaker
      /\ \A u \in PoolThread : u # t => taker'[u] = taker[u]
  BY <1>8 DEF PacketTypes
<1>10. QED
  BY <1>1, <1>2, <1>5, <1>7, <1>8, <1>9 DEF PassOn

\* A freed packet has no headers left.
LEMMA FreePacketFrees ==
  ASSUME PacketTypes, HoldersInv, NEW n \in held, FreePacket(n)
  PROVE  /\ Changed(n) /\ packets'[n].opt = <<>> /\ n \in Nat
         /\ packets'[n].data = packets[n].data /\ packets'[n].capa = packets[n].capa
         /\ held' = held \ {n} /\ packetPool' = Push(packetPool, n)
         /\ headerPool' = FreeOptionalHeader(headerPool, packets[n].opt)
         /\ UNCHANGED <<pooled, taker, takes>>
<1>1. n \in DOMAIN packets /\ packets[n] \in PacketShapes /\ n \in Nat
  BY PacketsThere DEF HoldersInv
<1>2. PICK r : r = [packets[n] EXCEPT !.opt = <<>>]
  OBVIOUS
<1>3. /\ r \in PacketShapes /\ r.opt = <<>> /\ r.data = packets[n].data /\ r.capa = packets[n].capa
  BY <1>1, <1>2, EmptySeq DEF PacketShapes
<1>4. packets' = [packets EXCEPT ![n] = r]
  BY <1>2 DEF FreePacket
<1>5. Changed(n) /\ packets'[n] = r
  BY <1>1, <1>3, <1>4, ChangePacket
<1>6. QED
  BY <1>1, <1>3, <1>5 DEF FreePacket

\* The types.
LEMMA PacketTypesKept ==
  ASSUME PacketTypes, HoldersInv, ContentsInv, HeadersInv, PacketPoolNext
  PROVE  PacketTypes'
<1>1. ASSUME NEW t \in PoolThread, NEW withData \in BOOLEAN, GetNewPacket(t, withData) PROVE PacketTypes'
  <2>1. PICK n \in Nat : Takes(t, n) /\ taker' \in [PoolThread -> TakerStates]
    BY <1>1, GetNewPacketTakes
  <2>2. SoundPool(packetPool') /\ SoundPool(headerPool') /\ pooled' \in BOOLEAN
    <3>1. SoundPool(Taken(packetPool))
      BY TakeObject DEF PacketTypes
    <3>2. packetPool' = Taken(packetPool) /\ UNCHANGED <<pooled, headerPool>>
      BY <2>1 DEF Takes
    <3>3. QED
      BY <3>1, <3>2 DEF PacketTypes, SoundPool, Used, WasUsed
  <2>3. QED
    BY <2>1, <2>2 DEF PacketTypes, Takes, SoundPool, Used, WasUsed
<1>2. ASSUME NEW t \in PoolThread, HandOut(t) PROVE PacketTypes'
  <2>1. UNCHANGED <<pooled, packetPool, headerPool>>
    BY <1>2 DEF HandOut
  <2>2. Changed(taker[t].pkt) /\ taker' \in [PoolThread -> TakerStates] /\ taker'[t].pc = "new"
        /\ \A u \in PoolThread : u # t => taker'[u] = taker[u]
    BY <1>2, HandOutClears
  <2>3. QED
    BY <2>1, <2>2 DEF PacketTypes, Changed, SoundPool, Used, WasUsed
<1>3. ASSUME NEW t \in PoolThread, AddAckHeader(t) PROVE PacketTypes'
  <2>1. Changed(taker[t].pkt) /\ headerPool' = Taken(headerPool) /\ UNCHANGED <<pooled, packetPool, taker>>
    BY <1>3, AddAckHeaderAdds
  <2>2. SoundPool(Taken(headerPool))
    BY TakeObject DEF PacketTypes
  <2>3. QED
    BY <2>1, <2>2 DEF PacketTypes, Changed, SoundPool, Used, WasUsed
<1>4. ASSUME NEW t \in PoolThread, PassOn(t) PROVE PacketTypes'
  <2>1. /\ Changed(taker[t].pkt) /\ taker'[t].pc = "idle" /\ taker'[t].pkt = 0
        /\ taker' \in [PoolThread -> TakerStates] /\ \A u \in PoolThread : u # t => taker'[u] = taker[u]
        /\ UNCHANGED <<pooled, packetPool, headerPool>>
    BY <1>4, PassOnUses
  <2>2. QED
    BY <2>1 DEF PacketTypes, Changed, SoundPool, Used, WasUsed
<1>5. ASSUME NEW n \in held, FreePacket(n) PROVE PacketTypes'
  <2>1. /\ Changed(n) /\ n \in Nat /\ packetPool' = Push(packetPool, n)
        /\ headerPool' = FreeOptionalHeader(headerPool, packets[n].opt) /\ UNCHANGED <<pooled, taker>>
    BY <1>5, FreePacketFrees
  <2>2. SoundPool(Push(packetPool, n)) /\ Push(packetPool, n).total = packetPool.total
    <3>1. n \notin ToSet(packetPool.stack) /\ WasUsed(packetPool, n)
      BY DEF HoldersInv
    <3>2. QED
      BY <2>1, <3>1, GiveObject DEF PacketTypes
  <2>3. SoundPool(FreeOptionalHeader(headerPool, packets[n].opt))
    <3>1. n \in DOMAIN packets /\ packets[n].opt \in Seq(Nat)
      BY <2>1, PacketsThere DEF Changed
    <3>2. /\ Unique(packets[n].opt)
          /\ \A m \in ToSet(packets[n].opt) : WasUsed(headerPool, m) /\ m \notin ToSet(headerPool.stack)
      BY <3>1 DEF HeadersInv, OnPackets, HeadersOf
    <3>3. ToSet(packets[n].opt) \cap ToSet(headerPool.stack) = {}
      BY <3>2
    <3>4. PICK opt \in Seq(Nat) : opt = packets[n].opt
      BY <3>1
    <3>5. SoundPool(FreeOptionalHeader(headerPool, opt))
      BY <3>2, <3>3, <3>4, GiveObjects DEF PacketTypes
    <3>6. QED
      BY <3>4, <3>5
  <2>4. QED
    BY <2>1, <2>2, <2>3 DEF PacketTypes, Changed, SoundPool, Used, WasUsed
<1>6. QED
  BY <1>1, <1>2, <1>3, <1>4, <1>5 DEF PacketPoolNext

\* Holders.
LEMMA HoldersKept ==
  ASSUME PacketTypes, HoldersInv, ContentsInv, PacketPoolNext
  PROVE  HoldersInv'
<1>0. /\ IsFiniteSet(held \cup InHand) /\ packetPool.out = Cardinality(held \cup InHand)
      /\ Cardinality(held \cup InHand) \in Nat
  BY FS_CardinalityType DEF HoldersInv
<1>1. ASSUME NEW t \in PoolThread, NEW withData \in BOOLEAN, GetNewPacket(t, withData) PROVE HoldersInv'
  <2>1. PICK n \in Nat : Takes(t, n)
    BY <1>1, GetNewPacketTakes
  <2>2. /\ taker[t].pc = "idle" /\ taker'[t].pc = "clear" /\ taker'[t].pkt = n
        /\ \A u \in PoolThread : u # t => taker'[u] = taker[u]
        /\ n = Object(packetPool) /\ packetPool' = Taken(packetPool) /\ UNCHANGED <<pooled, held>>
    BY <2>1 DEF Takes
  <2>3. /\ WasUsed(Taken(packetPool), n) /\ n \notin ToSet(Taken(packetPool).stack)
        /\ ToSet(Taken(packetPool).stack) \subseteq ToSet(packetPool.stack)
        /\ \A m : WasUsed(packetPool, m) => WasUsed(Taken(packetPool), m)
        /\ WasUsed(packetPool, n) => n \in ToSet(packetPool.stack)
        /\ Taken(packetPool).out = packetPool.out + 1
    BY <2>2, TakeObject DEF PacketTypes
  <2>4. \A m : WasUsed(packetPool, m)' <=> WasUsed(Taken(packetPool), m)
    BY <2>2 DEF WasUsed, Used
  <2>5. InHand' = InHand \cup {n}
    BY <2>2 DEF InHand
  <2>6. n \notin held \cup InHand
    BY <2>3 DEF HoldersInv
  <2>7. IsFiniteSet((held \cup InHand)') /\ Cardinality((held \cup InHand)') = Cardinality(held \cup InHand) + 1
    <3>1. (held \cup InHand)' = (held \cup InHand) \cup {n}
      BY <2>2, <2>5
    <3>2. QED
      BY <1>0, <2>6, <3>1, FS_AddElement
  <2>8. (packetPool.out = Cardinality(held \cup InHand))'
    BY <1>0, <2>2, <2>3, <2>7
  <2>9. (\A m \in held \cup InHand : WasUsed(packetPool, m) /\ m \notin ToSet(packetPool.stack))'
    BY <2>2, <2>3, <2>4, <2>5 DEF HoldersInv
  <2>10. (held \cap InHand = {})'
    BY <2>2, <2>5, <2>6 DEF HoldersInv
  <2>11. \A u \in PoolThread : taker[u].pc # "idle" => taker[u].pkt # n
    BY <2>6 DEF InHand
  <2>12. (\A v, u \in PoolThread : taker[v].pc # "idle" /\ taker[u].pc # "idle"
           /\ taker[v].pkt = taker[u].pkt => v = u)'
    BY <2>2, <2>11 DEF HoldersInv
  <2>13. QED
    BY <2>7, <2>8, <2>9, <2>10, <2>12 DEF HoldersInv
<1>2. ASSUME NEW t \in PoolThread, HandOut(t) \/ AddAckHeader(t) PROVE HoldersInv'
  <2>1. /\ UNCHANGED <<pooled, packetPool, held>>
        /\ \A u \in PoolThread : taker'[u].pkt = taker[u].pkt /\ (taker'[u].pc # "idle" <=> taker[u].pc # "idle")
    <3>1. CASE HandOut(t)
      BY <3>1, HandOutClears DEF HandOut
    <3>2. CASE AddAckHeader(t)
      BY <3>2 DEF AddAckHeader
    <3>3. QED
      BY <1>2, <3>1, <3>2
  <2>2. InHand' = InHand
    BY <2>1 DEF InHand
  <2>3. QED
    BY <2>1, <2>2 DEF HoldersInv, WasUsed, Used
<1>3. ASSUME NEW t \in PoolThread, PassOn(t) PROVE HoldersInv'
  <2>1. /\ taker[t].pc = "new" /\ taker'[t].pc = "idle"
        /\ \A u \in PoolThread : u # t => taker'[u] = taker[u]
        /\ held' = held \cup {taker[t].pkt} /\ UNCHANGED <<pooled, packetPool>>
    BY <1>3, PassOnUses
  <2>2. taker[t].pkt \in InHand /\ \A u \in PoolThread : u # t /\ taker[u].pc # "idle" => taker[u].pkt # taker[t].pkt
    BY <2>1 DEF InHand, HoldersInv
  <2>3. InHand' = InHand \ {taker[t].pkt}
    BY <2>1, <2>2 DEF InHand
  <2>4. (held \cup InHand)' = held \cup InHand /\ (held \cap InHand)' = {}
    BY <2>1, <2>2, <2>3 DEF HoldersInv
  <2>5. (\A v, u \in PoolThread : taker[v].pc # "idle" /\ taker[u].pc # "idle"
           /\ taker[v].pkt = taker[u].pkt => v = u)'
    BY <2>1 DEF HoldersInv
  <2>6. (\A m \in held \cup InHand : WasUsed(packetPool, m) /\ m \notin ToSet(packetPool.stack))'
    BY <2>1, <2>4 DEF HoldersInv, WasUsed, Used
  <2>7. QED
    BY <1>0, <2>1, <2>4, <2>5, <2>6 DEF HoldersInv
<1>4. ASSUME NEW n \in held, FreePacket(n) PROVE HoldersInv'
  <2>1. /\ n \in Nat /\ held' = held \ {n} /\ packetPool' = Push(packetPool, n) /\ UNCHANGED <<pooled, taker>>
    BY <1>4, FreePacketFrees
  <2>2. n \notin ToSet(packetPool.stack) /\ WasUsed(packetPool, n) /\ n \notin InHand
    BY DEF HoldersInv
  <2>3. /\ ToSet(Push(packetPool, n).stack) \subseteq ToSet(packetPool.stack) \cup {n}
        /\ \A m : WasUsed(packetPool, m) <=> WasUsed(Push(packetPool, n), m)
        /\ Push(packetPool, n).out = packetPool.out - 1
    BY <2>1, <2>2, GiveObject DEF PacketTypes
  <2>4. \A m : WasUsed(packetPool, m)' <=> WasUsed(Push(packetPool, n), m)
    BY <2>1 DEF WasUsed, Used
  <2>5. InHand' = InHand /\ (held \cup InHand)' = (held \cup InHand) \ {n}
    BY <2>1, <2>2 DEF InHand
  <2>6. IsFiniteSet((held \cup InHand)') /\ Cardinality((held \cup InHand)') = Cardinality(held \cup InHand) - 1
    BY <1>0, <2>5, FS_RemoveElement
  <2>7. (\A m \in held \cup InHand : WasUsed(packetPool, m) /\ m \notin ToSet(packetPool.stack))'
    BY <2>1, <2>3, <2>4, <2>5 DEF HoldersInv
  <2>8. (packetPool.out = Cardinality(held \cup InHand))'
    BY <1>0, <2>1, <2>3, <2>6
  <2>9. (held \cap InHand = {})'
    BY <2>1, <2>5 DEF HoldersInv
  <2>10. (\A v, u \in PoolThread : taker[v].pc # "idle" /\ taker[u].pc # "idle"
           /\ taker[v].pkt = taker[u].pkt => v = u)'
    BY <2>1 DEF HoldersInv
  <2>11. QED
    BY <2>6, <2>7, <2>8, <2>9, <2>10 DEF HoldersInv
<1>5. QED
  BY <1>1, <1>2, <1>3, <1>4 DEF PacketPoolNext

\* What packets hold.
LEMMA ContentsKept ==
  ASSUME PacketTypes, HoldersInv, ContentsInv, PacketPoolNext
  PROVE  ContentsInv'
<1>0. /\ \A t \in PoolThread : taker[t].pc # "idle" => taker[t].pkt \in InHand /\ taker[t].pkt \in DOMAIN packets
                                                      /\ taker[t].pkt \notin held
      /\ held \subseteq DOMAIN packets
  BY PacketsThere DEF HoldersInv, InHand
<1>1. ASSUME NEW t \in PoolThread, NEW withData \in BOOLEAN, GetNewPacket(t, withData) PROVE ContentsInv'
  <2>1. PICK n \in Nat : Takes(t, n)
    BY <1>1, GetNewPacketTakes
  <2>2. n \notin held \cup InHand
    <3>1. n = Object(packetPool) /\ (WasUsed(packetPool, n) => n \in ToSet(packetPool.stack))
      BY <2>1, TakeObject DEF Takes, PacketTypes
    <3>2. QED
      BY <3>1 DEF HoldersInv
  <2>3. DOMAIN packets' = 1 .. Len(packets') /\ DOMAIN packets = 1 .. Len(packets)
        /\ Len(packets) <= Len(packets') /\ Len(packets) \in Nat /\ Len(packets') \in Nat
    BY <2>1, LenProperties DEF Takes, PacketTypes
  <2>4. DOMAIN packets \subseteq DOMAIN packets'
    BY <2>3
  <2>5. (\A k \in DOMAIN packets : packets[k].data => packets[k].capa = MaxDataSize)'
    BY <2>1 DEF Takes, ContentsInv
  <2>6. (\A k \in DOMAIN packets : packets[k].opt # <<>> =>
          k \in held \/ \E u \in PoolThread : taker[u].pc = "new" /\ taker[u].pkt = k)'
    BY <2>1 DEF Takes, ContentsInv
  <2>7. (\A u \in PoolThread : taker[u].pc = "new" =>
          /\ ~packets[taker[u].pkt].used
          /\ taker[u].withData => packets[taker[u].pkt].data)'
    <3> SUFFICES ASSUME NEW u \in PoolThread, taker'[u].pc = "new"
                 PROVE  ~packets'[taker'[u].pkt].used /\ (taker'[u].withData => packets'[taker'[u].pkt].data)
      OBVIOUS
    <3>1. u # t /\ taker'[u] = taker[u]
      BY <2>1 DEF Takes
    <3>2. taker[u].pkt # n /\ taker[u].pkt \in DOMAIN packets
      BY <1>0, <2>2, <3>1
    <3>3. packets'[taker[u].pkt] = packets[taker[u].pkt]
      BY <2>1, <2>4, <3>2 DEF Takes
    <3>4. QED
      BY <3>1, <3>3 DEF ContentsInv
  <2>8. QED
    BY <2>5, <2>6, <2>7 DEF ContentsInv
<1>2. ASSUME NEW t \in PoolThread, HandOut(t) PROVE ContentsInv'
  <2>1. PICK n : n = taker[t].pkt
    OBVIOUS
  <2>2. /\ Changed(n) /\ packets'[n].opt = <<>> /\ ~packets'[n].used /\ held' = held
        /\ packets'[n].data => packets'[n].capa = MaxDataSize
        /\ taker[t].withData => packets'[n].data
        /\ taker[t].pc = "clear" /\ taker'[t].pc = "new" /\ taker'[t].pkt = n
        /\ taker'[t].withData = taker[t].withData
        /\ \A u \in PoolThread : u # t => taker'[u] = taker[u]
    BY <1>2, <2>1, HandOutClears DEF HandOut
  <2>3. DOMAIN packets' = DOMAIN packets /\ \A k \in DOMAIN packets : k # n => packets'[k] = packets[k]
    BY <2>2, LenProperties DEF Changed, PacketTypes
  <2>4. \A u \in PoolThread : u # t /\ taker[u].pc = "new" => taker[u].pkt # n /\ taker[u].pkt \in DOMAIN packets
    BY <1>0, <2>1, <2>2 DEF HoldersInv
  <2>5. QED
    BY <2>2, <2>3, <2>4 DEF ContentsInv
<1>3. ASSUME NEW t \in PoolThread, AddAckHeader(t) PROVE ContentsInv'
  <2>1. PICK n : n = taker[t].pkt
    OBVIOUS
  <2>2. /\ Changed(n) /\ taker[t].pc = "new" /\ UNCHANGED <<taker, held>>
        /\ packets'[n].used = packets[n].used /\ packets'[n].data = packets[n].data
        /\ packets'[n].capa = packets[n].capa
    BY <1>3, <2>1, AddAckHeaderAdds
  <2>3. DOMAIN packets' = DOMAIN packets /\ \A k \in DOMAIN packets : k # n => packets'[k] = packets[k]
    BY <2>2, LenProperties DEF Changed, PacketTypes
  <2>4. \A u \in PoolThread : taker[u].pc = "new" => taker[u].pkt \in DOMAIN packets
    BY <1>0
  <2>5. QED
    BY <2>1, <2>2, <2>3, <2>4 DEF ContentsInv
<1>4. ASSUME NEW t \in PoolThread, PassOn(t) PROVE ContentsInv'
  <2>1. PICK n : n = taker[t].pkt
    OBVIOUS
  <2>2. /\ Changed(n) /\ packets'[n].opt = packets[n].opt /\ packets'[n].data = packets[n].data
        /\ packets'[n].capa = packets[n].capa
        /\ taker[t].pc = "new" /\ taker'[t].pc = "idle"
        /\ \A u \in PoolThread : u # t => taker'[u] = taker[u]
        /\ held' = held \cup {n}
    BY <1>4, <2>1, PassOnUses
  <2>3. DOMAIN packets' = DOMAIN packets /\ \A k \in DOMAIN packets : k # n => packets'[k] = packets[k]
    BY <2>2, LenProperties DEF Changed, PacketTypes
  <2>4. \A u \in PoolThread : u # t /\ taker[u].pc = "new" => taker[u].pkt # n /\ taker[u].pkt \in DOMAIN packets
    BY <1>0, <2>1, <2>2 DEF HoldersInv
  <2>5. (\A k \in DOMAIN packets : packets[k].opt # <<>> =>
          k \in held \/ \E u \in PoolThread : taker[u].pc = "new" /\ taker[u].pkt = k)'
    BY <2>1, <2>2, <2>3 DEF ContentsInv
  <2>6. QED
    BY <2>2, <2>3, <2>4, <2>5 DEF ContentsInv
<1>5. ASSUME NEW n \in held, FreePacket(n) PROVE ContentsInv'
  <2>1. /\ Changed(n) /\ packets'[n].opt = <<>> /\ packets'[n].data = packets[n].data
        /\ packets'[n].capa = packets[n].capa /\ held' = held \ {n} /\ UNCHANGED taker
    BY <1>5, FreePacketFrees
  <2>2. DOMAIN packets' = DOMAIN packets /\ \A k \in DOMAIN packets : k # n => packets'[k] = packets[k]
    BY <2>1, LenProperties DEF Changed, PacketTypes
  <2>3. \A u \in PoolThread : taker[u].pc = "new" => taker[u].pkt # n /\ taker[u].pkt \in DOMAIN packets
    BY <1>0
  <2>4. QED
    BY <2>1, <2>2, <2>3 DEF ContentsInv
<1>6. QED
  BY <1>1, <1>2, <1>3, <1>4, <1>5 DEF PacketPoolNext

\* When one packet gets other headers, the others keep theirs.
LEMMA ChangeHeaders ==
  ASSUME PacketTypes, HeadersInv, NEW n, Changed(n), Unique(packets'[n].opt),
         ToSet(packets'[n].opt) \cap (OnPackets \ HeadersOf(n)) = {}
  PROVE  /\ OnPackets' = (OnPackets \ HeadersOf(n)) \cup ToSet(packets'[n].opt)
         /\ (\A k \in DOMAIN packets : Unique(packets[k].opt))'
         /\ (\A k, m \in DOMAIN packets : k # m => HeadersOf(k) \cap HeadersOf(m) = {})'
<1>1. /\ DOMAIN packets' = DOMAIN packets /\ n \in DOMAIN packets
      /\ \A k \in DOMAIN packets : k # n => packets'[k] = packets[k]
  BY LenProperties DEF Changed, PacketTypes
<1>2. /\ \A k \in DOMAIN packets : k # n => HeadersOf(k)' = HeadersOf(k)
      /\ HeadersOf(n)' = ToSet(packets'[n].opt)
  BY <1>1 DEF HeadersOf
<1>3. \A k, m \in DOMAIN packets : k # m => HeadersOf(k) \cap HeadersOf(m) = {}
  BY DEF HeadersInv
<1>4. \A k \in DOMAIN packets : k # n => HeadersOf(k) \subseteq OnPackets \ HeadersOf(n)
  BY <1>1, <1>3 DEF OnPackets
<1>5. OnPackets' = UNION {HeadersOf(k)' : k \in DOMAIN packets}
  BY <1>1 DEF OnPackets
<1>6. \A h : h \in OnPackets <=> \E k \in DOMAIN packets : h \in HeadersOf(k)
  BY DEF OnPackets
<1>7. \A h : h \in OnPackets' <=> \E k \in DOMAIN packets : h \in HeadersOf(k)'
  BY <1>5
<1>8. OnPackets' = (OnPackets \ HeadersOf(n)) \cup ToSet(packets'[n].opt)
  <2>1. ASSUME NEW h \in OnPackets' PROVE h \in (OnPackets \ HeadersOf(n)) \cup ToSet(packets'[n].opt)
    <3>1. PICK k \in DOMAIN packets : h \in HeadersOf(k)'
      BY <1>7, <2>1
    <3>2. QED
      BY <1>2, <1>4, <3>1
  <2>2. ASSUME NEW h \in OnPackets \ HeadersOf(n) PROVE h \in OnPackets'
    <3>1. PICK k \in DOMAIN packets : h \in HeadersOf(k)
      BY <1>6, <2>2
    <3>2. k # n
      BY <2>2, <3>1
    <3>3. QED
      BY <1>2, <1>7, <3>1, <3>2
  <2>3. ToSet(packets'[n].opt) \subseteq OnPackets'
    BY <1>1, <1>2, <1>7
  <2>4. QED
    BY <2>1, <2>2, <2>3
<1>9. (\A k \in DOMAIN packets : Unique(packets[k].opt))'
  BY <1>1 DEF HeadersInv
<1>10. \A k, m \in DOMAIN packets : k # m => HeadersOf(k)' \cap HeadersOf(m)' = {}
  <2> SUFFICES ASSUME NEW k \in DOMAIN packets, NEW m \in DOMAIN packets, k # m
               PROVE  HeadersOf(k)' \cap HeadersOf(m)' = {}
    OBVIOUS
  <2>1. CASE k # n /\ m # n
    BY <1>2, <1>3, <2>1
  <2>2. CASE k = n
    BY <1>2, <1>4, <2>2
  <2>3. CASE m = n
    BY <1>2, <1>4, <2>3
  <2>4. QED
    BY <2>1, <2>2, <2>3
<1>11. QED
  BY <1>1, <1>8, <1>9, <1>10

\* Headers.
LEMMA PacketHeadersKept ==
  ASSUME PacketTypes, HoldersInv, ContentsInv, HeadersInv, PacketPoolNext
  PROVE  HeadersInv'
<1>0. /\ IsFiniteSet(OnPackets) /\ headerPool.out = Cardinality(OnPackets) /\ Cardinality(OnPackets) \in Nat
      /\ \A n \in DOMAIN packets : Unique(packets[n].opt) /\ HeadersOf(n) = ToSet(packets[n].opt)
      /\ \A n \in DOMAIN packets : HeadersOf(n) \subseteq OnPackets /\ packets[n].opt \in Seq(Nat)
      /\ \A h \in OnPackets : WasUsed(headerPool, h) /\ h \notin ToSet(headerPool.stack)
  BY FS_CardinalityType, PacketsThere DEF HeadersInv, OnPackets, HeadersOf
<1>1. ASSUME NEW t \in PoolThread, NEW withData \in BOOLEAN, GetNewPacket(t, withData) PROVE HeadersInv'
  <2>1. PICK n \in Nat : Takes(t, n)
    BY <1>1, GetNewPacketTakes
  <2>2. /\ UNCHANGED <<pooled, headerPool>>
        /\ \A k \in DOMAIN packets' : k \in DOMAIN packets => packets'[k].opt = packets[k].opt
        /\ \A k \in DOMAIN packets' : k \notin DOMAIN packets => packets'[k].opt = <<>>
        /\ packets' \in Seq(PacketShapes) /\ Len(packets) <= Len(packets')
    BY <2>1 DEF Takes
  <2>3. DOMAIN packets \subseteq DOMAIN packets'
    <3>1. DOMAIN packets' = 1 .. Len(packets') /\ DOMAIN packets = 1 .. Len(packets)
          /\ Len(packets) \in Nat /\ Len(packets') \in Nat
      BY <2>2, LenProperties DEF PacketTypes
    <3>2. QED
      BY <2>2, <3>1
  <2>4. Unique(<<>>) /\ ToSet(<<>>) = {}
    BY EmptySeq DEF Unique, ToSet
  <2>5. /\ \A k \in DOMAIN packets' : k \in DOMAIN packets => HeadersOf(k)' = HeadersOf(k)
        /\ \A k \in DOMAIN packets' : k \notin DOMAIN packets => HeadersOf(k)' = {}
    BY <2>2, <2>4 DEF HeadersOf
  <2>6. OnPackets' = OnPackets
    <3>1. \A h : h \in OnPackets <=> \E k \in DOMAIN packets : h \in HeadersOf(k)
      BY DEF OnPackets
    <3>2. \A h : h \in OnPackets' <=> \E k \in DOMAIN packets' : h \in HeadersOf(k)'
      BY DEF OnPackets
    <3>3. \A h : h \in OnPackets' <=> h \in OnPackets
      BY <2>3, <2>5, <3>1, <3>2
    <3>4. QED
      BY <3>3
  <2>7. (\A k \in DOMAIN packets : Unique(packets[k].opt))'
    BY <1>0, <2>2, <2>4
  <2>8. \A k, m \in DOMAIN packets' : k # m => HeadersOf(k)' \cap HeadersOf(m)' = {}
    BY <2>5 DEF HeadersInv
  <2>9. (\A h \in OnPackets : WasUsed(headerPool, h) /\ h \notin ToSet(headerPool.stack))'
    BY <1>0, <2>2, <2>6 DEF WasUsed, Used
  <2>10. QED
    BY <1>0, <2>2, <2>6, <2>7, <2>8, <2>9 DEF HeadersInv
<1>2. ASSUME NEW n, Changed(n), ToSet(packets'[n].opt) = HeadersOf(n), Unique(packets'[n].opt),
             UNCHANGED <<pooled, headerPool>>
      PROVE  HeadersInv'
  <2>1. ToSet(packets'[n].opt) \cap (OnPackets \ HeadersOf(n)) = {} /\ HeadersOf(n) \subseteq OnPackets
    BY <1>0, <1>2 DEF Changed
  <2>2. /\ OnPackets' = (OnPackets \ HeadersOf(n)) \cup ToSet(packets'[n].opt)
        /\ (\A k \in DOMAIN packets : Unique(packets[k].opt))'
        /\ (\A k, m \in DOMAIN packets : k # m => HeadersOf(k) \cap HeadersOf(m) = {})'
    BY <1>2, <2>1, ChangeHeaders
  <2>3. OnPackets' = OnPackets
    BY <1>2, <2>1, <2>2
  <2>4. (\A h \in OnPackets : WasUsed(headerPool, h) /\ h \notin ToSet(headerPool.stack))'
    BY <1>0, <1>2, <2>3 DEF WasUsed, Used
  <2>5. QED
    BY <1>0, <1>2, <2>2, <2>3, <2>4 DEF HeadersInv
<1>3. ASSUME NEW t \in PoolThread, HandOut(t) PROVE HeadersInv'
  <2>1. /\ Changed(taker[t].pkt) /\ packets'[taker[t].pkt].opt = <<>> /\ packets[taker[t].pkt].opt = <<>>
        /\ UNCHANGED <<pooled, headerPool>>
    BY <1>3, HandOutClears DEF HandOut
  <2>2. Unique(<<>>)
    BY EmptySeq DEF Unique
  <2>3. QED
    BY <1>2, <2>1, <2>2 DEF HeadersOf
<1>4. ASSUME NEW t \in PoolThread, AddAckHeader(t) PROVE HeadersInv'
  <2>1. PICK n : n = taker[t].pkt
    OBVIOUS
  <2>2. PICK h : h = Object(headerPool)
    OBVIOUS
  <2>3. /\ Changed(n) /\ packets'[n].opt = <<h>> \o packets[n].opt
        /\ headerPool' = Taken(headerPool) /\ UNCHANGED pooled
    BY <1>4, <2>1, <2>2, AddAckHeaderAdds
  <2>4. /\ h \in Nat /\ WasUsed(Taken(headerPool), h) /\ h \notin ToSet(Taken(headerPool).stack)
        /\ ToSet(Taken(headerPool).stack) \subseteq ToSet(headerPool.stack)
        /\ \A m : WasUsed(headerPool, m) => WasUsed(Taken(headerPool), m)
        /\ WasUsed(headerPool, h) => h \in ToSet(headerPool.stack)
        /\ Taken(headerPool).out = headerPool.out + 1
    BY <2>2, TakeObject DEF PacketTypes
  <2>5. h \notin OnPackets
    BY <1>0, <2>4
  <2>6. n \in DOMAIN packets /\ packets[n].opt \in Seq(Nat) /\ Unique(packets[n].opt)
        /\ HeadersOf(n) = ToSet(packets[n].opt) /\ HeadersOf(n) \subseteq OnPackets
    BY <1>0, <2>3 DEF Changed
  <2>7. /\ <<h>> \in Seq(Nat) /\ Unique(<<h>>) /\ ToSet(<<h>>) = {h}
    <3>1. <<h>> \in Seq(Nat) /\ Len(<<h>>) = 1 /\ <<h>>[1] = h
      BY <2>4
    <3>2. ToSet(<<h>>) = {<<h>>[i] : i \in 1 .. 1}
      BY <3>1, Elements
    <3>3. QED
      BY <3>1, <3>2 DEF Unique
  <2>8. /\ ToSet(packets'[n].opt) = HeadersOf(n) \cup {h} /\ Unique(packets'[n].opt)
    <3>1. PICK s \in Seq(Nat), u \in Seq(Nat) : s = <<h>> /\ u = packets[n].opt
      BY <2>6, <2>7
    <3>2. /\ ToSet(s \o u) = ToSet(s) \cup ToSet(u)
          /\ Unique(s) /\ Unique(u) /\ ToSet(s) \cap ToSet(u) = {} => Unique(s \o u)
      BY ONLY s \in Seq(Nat), u \in Seq(Nat), ConcatElements, Zenon
    <3>3. ToSet(s) \cap ToSet(u) = {}
      BY <2>5, <2>6, <2>7, <3>1
    <3>4. QED
      BY <2>3, <2>6, <2>7, <3>1, <3>2, <3>3
  <2>9. /\ OnPackets' = (OnPackets \ HeadersOf(n)) \cup ToSet(packets'[n].opt)
        /\ (\A k \in DOMAIN packets : Unique(packets[k].opt))'
        /\ (\A k, m \in DOMAIN packets : k # m => HeadersOf(k) \cap HeadersOf(m) = {})'
    <3>1. ToSet(packets'[n].opt) \cap (OnPackets \ HeadersOf(n)) = {}
      BY <2>5, <2>8
    <3>2. QED
      BY <2>3, <2>8, <3>1, ChangeHeaders
  <2>10. OnPackets' = OnPackets \cup {h}
    BY <2>6, <2>8, <2>9
  <2>11. IsFiniteSet(OnPackets') /\ Cardinality(OnPackets') = Cardinality(OnPackets) + 1
    BY <1>0, <2>5, <2>10, FS_AddElement
  <2>12. \A m : WasUsed(headerPool, m)' <=> WasUsed(Taken(headerPool), m)
    BY <2>3 DEF WasUsed, Used
  <2>13. (\A m \in OnPackets : WasUsed(headerPool, m) /\ m \notin ToSet(headerPool.stack))'
    BY <1>0, <2>3, <2>4, <2>10, <2>12
  <2>14. QED
    BY <1>0, <2>3, <2>4, <2>9, <2>11, <2>13 DEF HeadersInv
<1>5. ASSUME NEW t \in PoolThread, PassOn(t) PROVE HeadersInv'
  <2>1. /\ Changed(taker[t].pkt) /\ packets'[taker[t].pkt].opt = packets[taker[t].pkt].opt
        /\ UNCHANGED <<pooled, headerPool>>
    BY <1>5, PassOnUses
  <2>2. Unique(packets[taker[t].pkt].opt)
    BY <1>0, <2>1 DEF Changed
  <2>3. QED
    BY <1>2, <2>1, <2>2 DEF HeadersOf
<1>6. ASSUME NEW n \in held, FreePacket(n) PROVE HeadersInv'
  <2>1. /\ Changed(n) /\ packets'[n].opt = <<>> /\ UNCHANGED pooled
        /\ headerPool' = FreeOptionalHeader(headerPool, packets[n].opt)
    BY <1>6, FreePacketFrees
  <2>2. n \in DOMAIN packets /\ Unique(<<>>) /\ ToSet(<<>>) = {}
    BY <2>1, EmptySeq DEF Changed, Unique, ToSet
  <2>3. PICK opt \in Seq(Nat) : opt = packets[n].opt
    BY <1>0, <2>2
  <2>4. /\ Unique(opt) /\ ToSet(opt) \subseteq OnPackets /\ HeadersOf(n) = ToSet(opt)
        /\ ToSet(opt) \cap ToSet(headerPool.stack) = {} /\ \A m \in ToSet(opt) : WasUsed(headerPool, m)
    BY <1>0, <2>2, <2>3
  <2>5. PICK after : after = FreeOptionalHeader(headerPool, opt)
    OBVIOUS
  <2>6. /\ ToSet(after.stack) \subseteq ToSet(headerPool.stack) \cup ToSet(opt)
        /\ \A m : WasUsed(headerPool, m) <=> WasUsed(after, m)
        /\ after.out = headerPool.out - Len(opt)
    BY <2>4, <2>5, GiveObjects DEF PacketTypes
  <2>7. /\ OnPackets' = (OnPackets \ HeadersOf(n)) \cup ToSet(packets'[n].opt)
        /\ (\A k \in DOMAIN packets : Unique(packets[k].opt))'
        /\ (\A k, m \in DOMAIN packets : k # m => HeadersOf(k) \cap HeadersOf(m) = {})'
    BY <2>1, <2>2, ChangeHeaders
  <2>8. OnPackets' = OnPackets \ ToSet(opt)
    BY <2>1, <2>2, <2>4, <2>7
  <2>9. IsFiniteSet(OnPackets') /\ Cardinality(OnPackets') = Cardinality(OnPackets) - Len(opt)
    <3>1. IsFiniteSet(ToSet(opt)) /\ Cardinality(ToSet(opt)) = Len(opt)
      BY <2>4, UniqueCounts
    <3>2. OnPackets \cap ToSet(opt) = ToSet(opt)
      BY <2>4
    <3>3. IsFiniteSet(OnPackets \ ToSet(opt))
          /\ Cardinality(OnPackets \ ToSet(opt)) = Cardinality(OnPackets) - Cardinality(OnPackets \cap ToSet(opt))
      BY <1>0, FS_Difference
    <3>4. QED
      BY <2>8, <3>1, <3>2, <3>3
  <2>10. headerPool' = after
    BY <2>1, <2>3, <2>5
  <2>11. \A m : WasUsed(headerPool, m)' <=> WasUsed(after, m)
    BY <2>1, <2>10 DEF WasUsed, Used
  <2>12. (\A m \in OnPackets : WasUsed(headerPool, m) /\ m \notin ToSet(headerPool.stack))'
    BY <1>0, <2>6, <2>8, <2>10, <2>11
  <2>13. QED
    BY <1>0, <2>6, <2>7, <2>9, <2>10, <2>12 DEF HeadersInv
<1>7. QED
  BY <1>1, <1>3, <1>4, <1>5, <1>6 DEF PacketPoolNext

\* No step of a thread breaks the invariant.
LEMMA PacketsStep ==
  ASSUME PacketsInv, [PacketPoolNext]_packetVars PROVE PacketsInv'
<1>1. CASE PacketPoolNext
  BY <1>1, PacketTypesKept, HoldersKept, ContentsKept, PacketHeadersKept DEF PacketsInv
<1>2. CASE UNCHANGED packetVars
  <2>1. UNCHANGED <<pooled, packetPool, headerPool, packets, taker, held, takes>>
    BY <1>2 DEF packetVars
  <2>2. PacketTypes'
    BY <2>1 DEF PacketsInv, PacketTypes, SoundPool, Used, WasUsed
  <2>3. HoldersInv'
    BY <2>1 DEF PacketsInv, HoldersInv, InHand, Used, WasUsed
  <2>4. ContentsInv'
    BY <2>1 DEF PacketsInv, ContentsInv
  <2>5. HeadersInv'
    BY <2>1 DEF PacketsInv, HeadersInv, OnPackets, HeadersOf, Used, WasUsed
  <2>6. QED
    BY <2>2, <2>3, <2>4, <2>5 DEF PacketsInv
<1>3. QED
  BY <1>1, <1>2

\* Packets and headers are apart, and the pools count what is out.
LEMMA PacketsImplied == PacketsInv => PacketsApart
<1> SUFFICES ASSUME PacketsInv PROVE PacketsApart
  OBVIOUS
<1> USE DEF PacketsInv
<1>1. \A s \in Seq(Nat) : Unique(s) => Distinct(s)
  BY UniqueCounts DEF Distinct
<1>2. packetPool.stack \in Seq(Nat) /\ Unique(packetPool.stack) /\ headerPool.stack \in Seq(Nat) /\ Unique(headerPool.stack)
  BY DEF PacketTypes, SoundPool, ObjectPools
<1>3. Distinct(packetPool.stack) /\ Distinct(headerPool.stack)
  BY <1>1, <1>2
<1>4. ToSet(packetPool.stack) \cap (held \cup InHand) = {} /\ held \cap InHand = {}
      /\ packetPool.out = Cardinality(held \cup InHand)
  BY DEF HoldersInv
<1>5. \A t, u \in PoolThread : taker[t].pc # "idle" /\ taker[t].pkt = taker[u].pkt => t = u
  <2> SUFFICES ASSUME NEW t \in PoolThread, NEW u \in PoolThread, taker[t].pc # "idle", taker[t].pkt = taker[u].pkt
               PROVE  t = u
    OBVIOUS
  <2>1. taker[t].pkt \in InHand
    BY DEF InHand
  <2>2. taker[t].pkt > 0
    BY <2>1, PacketsThere DEF HoldersInv
  <2>3. taker[u].pc # "idle"
    BY <2>2 DEF PacketTypes
  <2>4. QED
    BY <2>3 DEF HoldersInv
<1>6. \A n \in DOMAIN packets : Distinct(packets[n].opt)
  BY <1>1, PacketsThere DEF HeadersInv
<1>7. \A n, m \in DOMAIN packets : n # m => ToSet(packets[n].opt) \cap ToSet(packets[m].opt) = {}
  BY DEF HeadersInv, HeadersOf
<1>8. /\ ToSet(headerPool.stack) \cap UNION {ToSet(packets[n].opt) : n \in DOMAIN packets} = {}
      /\ headerPool.out = Cardinality(UNION {ToSet(packets[n].opt) : n \in DOMAIN packets})
  <2>1. OnPackets = UNION {ToSet(packets[n].opt) : n \in DOMAIN packets}
    BY DEF OnPackets, HeadersOf
  <2>2. ToSet(headerPool.stack) \cap OnPackets = {} /\ headerPool.out = Cardinality(OnPackets)
    BY DEF HeadersInv
  <2>3. QED
    BY <2>1, <2>2
<1>9. \A t \in PoolThread : taker[t].pc = "new" =>
        /\ ~packets[taker[t].pkt].used
        /\ taker[t].withData => packets[taker[t].pkt].data /\ packets[taker[t].pkt].capa = MaxDataSize
  <2> SUFFICES ASSUME NEW t \in PoolThread, taker[t].pc = "new"
               PROVE  /\ ~packets[taker[t].pkt].used
                      /\ taker[t].withData => packets[taker[t].pkt].data /\ packets[taker[t].pkt].capa = MaxDataSize
    OBVIOUS
  <2>1. taker[t].pkt \in InHand
    BY DEF InHand
  <2>2. taker[t].pkt \in DOMAIN packets
    BY <2>1, PacketsThere DEF HoldersInv
  <2>3. QED
    BY <2>2 DEF ContentsInv
<1>10. QED
  BY <1>3, <1>4, <1>5, <1>6, <1>7, <1>8, <1>9 DEF PacketsApart

\* Whatever order the threads take, fill, pass on and free packets in, no packet and no
\* header has two owners, and the pools know how many are out (PacketPool.cc).
THEOREM PacketsStayApart == PacketPoolSpec => []PacketsApart
<1>1. PacketPoolSpec => []PacketsInv
  BY PacketsInitInv, PacketsStep, PTL DEF PacketPoolSpec
<1>2. QED
  BY <1>1, PacketsImplied, PTL
=============================================================================
