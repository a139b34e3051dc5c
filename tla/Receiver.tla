------------------------------ MODULE Receiver ------------------------------
(***************************************************************************)
(* The threads of a PacketEventHandler: one takes datagrams from the       *)
(* socket (Connection::listen) and hands decoded packets to its parent,    *)
(* one ticks and calls every observer of the TimeOutProducer.  Channels    *)
(* are such observers: other threads attach and detach them at any time.   *)
(* The owner starts the handler, closes it, and destroys it, which closes  *)
(* it again.                                                               *)
(***************************************************************************)
EXTENDS Naturals, Sequences, FiniteSets, FiniteSetsExt

CONSTANTS Observer,
          MaxDatagrams, MaxTicks,   \* bounds
          RecvFaults    \* conditions the code does not provide for, see the actions

ReceiverAssumption ==
  /\ MaxDatagrams \in Nat /\ MaxTicks \in Nat
  /\ RecvFaults \subseteq {"slowEnd", "earlyDetach"}
ASSUME ReceiverAssumption

Loop == {"con", "timer"}

VARIABLES handler,      \* where the owner is: the thread that starts, closes and destroys the handler
          where,        \* of both threads
          running,      \* conLoopThreadRunning, timerLoopThreadRunning
          closedWait,   \* the semaphores they notify
          shut,         \* the socket is shut down, timerLoopThreadClosed is set
          socket,       \* datagrams that wait
          arrived, handed,  \* numbers: datagrams so far; packets given to the parent
          ticks,
          life,         \* of observers
          objId,        \* their ids, 0 for none
          nextChildId, childIdFreePool,
          listner, added, remove,
          toCall,       \* observers this tick has still to call
          since         \* 1 when a tick has begun since the observer was detached

loopVars == <<handler, where, running, closedWait, shut>>
sockVars == <<socket, arrived, handed>>
idVars == <<objId, nextChildId, childIdFreePool>>
setVars == <<listner, added, remove>>
recvVars == <<loopVars, sockVars, ticks, life, idVars, setVars, toCall, since>>

RecvInit ==
  /\ handler = "new" /\ where = [l \in Loop |-> "none"] /\ running = [l \in Loop |-> FALSE]
  /\ closedWait = [l \in Loop |-> 0] /\ shut = FALSE
  /\ socket = <<>> /\ arrived = 0 /\ handed = <<>> /\ ticks = 0
  /\ life = [o \in Observer |-> "unborn"] /\ objId = [o \in Observer |-> 0]
  /\ nextChildId = 0 /\ childIdFreePool = {}
  /\ listner = {} /\ added = {} /\ remove = {} /\ toCall = {}
  /\ since = [o \in Observer |-> 0]

-----------------------------------------------------------------------------
(* The owner.  A flag is set by the owner and by the thread itself.           *)

Handler(from, to) == handler = from /\ handler' = to
KeepRest == UNCHANGED <<sockVars, ticks, life, idVars, setVars, toCall, since>>

StartLoop(l, from, to) ==
  /\ Handler(from, to)
  /\ where' = [where EXCEPT ![l] = "begin"]
  /\ UNCHANGED <<running, closedWait, shut>> /\ KeepRest

MarkLoop(l, from, to) ==
  /\ Handler(from, to)
  /\ running' = [running EXCEPT ![l] = TRUE]
  /\ UNCHANGED <<where, closedWait, shut>> /\ KeepRest

StartHandler ==
  \/ StartLoop("con", "new", "con1") \/ MarkLoop("con", "con1", "con2")
  \/ StartLoop("timer", "con2", "timer1") \/ MarkLoop("timer", "timer1", "up")

CloseHandler ==
  /\ (Handler("up", "closing1") \/ Handler("closed", "closing2"))
  /\ shut' = TRUE
  /\ UNCHANGED <<where, running, closedWait>> /\ KeepRest

\* close waits for a thread whose flag it finds set; a thread that ends may still have
\* an instruction to go, then or afterwards ("slowEnd").
Await(l, from, to) ==
  /\ Handler(from, to)
  /\ "slowEnd" \in RecvFaults \/ where[l] \notin {"ending", "notified"}
  /\ IF running[l] THEN closedWait[l] > 0 /\ closedWait' = [closedWait EXCEPT ![l] = @ - 1]
                   ELSE UNCHANGED closedWait
  /\ UNCHANGED <<where, running, shut>> /\ KeepRest

\* Mutant of AwaitLoops: the timer is not waited for.
AwaitListener ==
  \/ Await("con", "closing1", "closed")
  \/ Await("con", "closing2", "gone")

AwaitLoops ==
  \/ Await("con", "closing1", "half1") \/ Await("timer", "half1", "closed")
  \/ Await("con", "closing2", "half2") \/ Await("timer", "half2", "gone")

BeginLoop(l) ==
  /\ where[l] = "begin" /\ where' = [where EXCEPT ![l] = "loop"]
  /\ running' = [running EXCEPT ![l] = TRUE]
  /\ UNCHANGED <<handler, closedWait, shut>> /\ KeepRest

-----------------------------------------------------------------------------
(* The listener.                                                              *)

Arrive(kind) ==
  /\ arrived < MaxDatagrams /\ arrived' = arrived + 1
  /\ socket' = Append(socket, [kind |-> kind, n |-> arrived'])
  /\ UNCHANGED <<loopVars, handed, ticks, life, idVars, setVars, toCall, since>>

\* recvfrom fails ("error"), decodeHeader refuses the datagram ("bad"), or the
\* parent gets the packet.
Listen ==
  /\ where["con"] = "loop" /\ socket # <<>>
  /\ socket' = Tail(socket)
  /\ handed' = IF Head(socket).kind = "good" THEN Append(handed, Head(socket).n) ELSE handed
  /\ UNCHANGED <<loopVars, arrived, ticks, life, idVars, setVars, toCall, since>>

\* recvfrom returns 0.
SeeShutdown ==
  /\ where["con"] = "loop" /\ shut
  /\ where' = [where EXCEPT !["con"] = "ending"]
  /\ running' = [running EXCEPT !["con"] = FALSE]
  /\ UNCHANGED <<handler, closedWait, shut>> /\ KeepRest

EndListener ==
  /\ where["con"] = "ending" /\ where' = [where EXCEPT !["con"] = "ended"]
  /\ closedWait' = [closedWait EXCEPT !["con"] = @ + 1]
  /\ UNCHANGED <<handler, running, shut>> /\ KeepRest

-----------------------------------------------------------------------------
(* The timer.  It notifies before it resets its flag: with "slowEnd" a close in *)
(* between waits for a second notify.                                         *)

\* TimeOutProducer::timeoutEvent, under its mutex.
BeginTick ==
  /\ where["timer"] = "loop" /\ ~shut /\ ticks < MaxTicks
  /\ ticks' = ticks + 1
  /\ where' = [where EXCEPT !["timer"] = "calling"]
  /\ listner' = (listner \ remove) \cup added
  /\ remove' = {} /\ added' = {} /\ toCall' = listner'
  /\ since' = [o \in Observer |-> IF life[o] = "detached" THEN 1 ELSE 0]
  /\ UNCHANGED <<handler, running, closedWait, shut, sockVars, life, idVars>>

CallObserver(o) ==
  /\ where["timer"] = "calling" /\ o \in toCall
  /\ toCall' = toCall \ {o}
  /\ UNCHANGED <<loopVars, sockVars, ticks, life, idVars, setVars, since>>

EndTick ==
  /\ where["timer"] = "calling" /\ toCall = {}
  /\ where' = [where EXCEPT !["timer"] = "loop"]
  /\ UNCHANGED <<handler, running, closedWait, shut>> /\ KeepRest

NotifyTimerEnd ==
  /\ where["timer"] = "loop" /\ shut
  /\ where' = [where EXCEPT !["timer"] = "notified"]
  /\ closedWait' = [closedWait EXCEPT !["timer"] = @ + 1]
  /\ UNCHANGED <<handler, running, shut>> /\ KeepRest

EndTimer ==
  /\ where["timer"] = "notified" /\ where' = [where EXCEPT !["timer"] = "ended"]
  /\ running' = [running EXCEPT !["timer"] = FALSE]
  /\ UNCHANGED <<handler, closedWait, shut>> /\ KeepRest

-----------------------------------------------------------------------------
(* Objects get their id when they are made and give it back when they are     *)
(* destroyed: when nobody refers to them any more.                            *)

\* Mutant of GetNextChildId: the freed ids are forgotten to be erased.
GetNextChildIdKeeps(id) ==
  IF childIdFreePool = {} THEN id = nextChildId + 1 /\ nextChildId' = id /\ UNCHANGED childIdFreePool
  ELSE id = Min(childIdFreePool) /\ UNCHANGED <<nextChildId, childIdFreePool>>

GetNextChildId(id) ==
  IF childIdFreePool = {} THEN id = nextChildId + 1 /\ nextChildId' = id /\ UNCHANGED childIdFreePool
  ELSE /\ id = Min(childIdFreePool) /\ childIdFreePool' = childIdFreePool \ {id}
       /\ UNCHANGED nextChildId

CreateObject(o) ==
  /\ life[o] = "unborn" /\ life' = [life EXCEPT ![o] = "born"]
  /\ \E id \in 1 .. Cardinality(Observer) : GetNextChildId(id) /\ objId' = [objId EXCEPT ![o] = id]
  /\ UNCHANGED <<loopVars, sockVars, ticks, setVars, toCall, since>>

AttachObserver(o) ==
  /\ life[o] = "born" /\ life' = [life EXCEPT ![o] = "attached"]
  /\ added' = IF o \notin listner \cup remove THEN added \cup {o} ELSE added
  /\ UNCHANGED <<loopVars, sockVars, ticks, idVars, listner, remove, toCall, since>>

\* Mutant of DetachObserver: it is put off for an observer that is being called.
DetachLate(o) ==
  /\ life[o] = "attached" /\ life' = [life EXCEPT ![o] = "detached"]
  /\ o \notin added
  /\ remove' = IF o \in listner \ toCall THEN remove \cup {o} ELSE remove
  /\ UNCHANGED <<loopVars, sockVars, ticks, idVars, listner, added, toCall, since>>

\* A detach before the next tick has no effect ("earlyDetach").
DetachObserver(o) ==
  /\ life[o] = "attached" /\ life' = [life EXCEPT ![o] = "detached"]
  /\ "earlyDetach" \in RecvFaults \/ o \notin added
  /\ remove' = IF o \in listner \ added THEN remove \cup {o} ELSE remove
  /\ UNCHANGED <<loopVars, sockVars, ticks, idVars, listner, added, toCall, since>>

DestroyObject(o) ==
  /\ life[o] = "detached" /\ o \notin listner \cup added \cup remove \cup toCall
  /\ life' = [life EXCEPT ![o] = "unborn"]
  /\ childIdFreePool' = childIdFreePool \cup {objId[o]}
  /\ objId' = [objId EXCEPT ![o] = 0]
  /\ UNCHANGED <<loopVars, sockVars, ticks, nextChildId, setVars, toCall, since>>

RecvRun ==
  \/ AwaitLoops \/ (\E l \in Loop : BeginLoop(l)) \/ Listen \/ SeeShutdown \/ EndListener
  \/ BeginTick \/ (\E o \in Observer : CallObserver(o)) \/ EndTick \/ NotifyTimerEnd \/ EndTimer

RecvNext ==
  \/ RecvRun \/ StartHandler \/ CloseHandler
  \/ \E kind \in {"good", "bad", "error"} : Arrive(kind)
  \/ \E o \in Observer : CreateObject(o) \/ AttachObserver(o) \/ DetachObserver(o) \/ DestroyObject(o)

\* The threads run; ticks are bounded, every other such step uses something up.
RecvSpec == RecvInit /\ [][RecvNext]_recvVars
RecvFairSpec == RecvSpec /\ WF_recvVars(RecvRun)

-----------------------------------------------------------------------------
\* The handler's threads are over before it is gone; packets are handed on in the
\* order they came and once; objects that live at the same time have different ids
\* (id2FlowMap); and an observer that was detached may be called in the tick under way
\* but in none that begins later.
ReceiverSound ==
  /\ handler = "gone" => \A l \in Loop : where[l] = "ended"
  /\ \A i, j \in DOMAIN handed : i < j => handed[i] < handed[j]
  /\ \A o, p \in Observer : objId[o] = objId[p] /\ objId[o] # 0 => o = p
  /\ \A o \in toCall : since[o] = 0

\* close returns, the second time too.
HandlerCloses == shut ~> handler \in {"closed", "gone"}
=============================================================================
