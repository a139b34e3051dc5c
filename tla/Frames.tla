------------------------------- MODULE Frames -------------------------------
(***************************************************************************)
(* How a packet leaves an interface: SendThroughInterface puts the IP and  *)
(* UDP headers around it and SendingSocket, one for the whole program,     *)
(* hands the frame to the system.  Buffers of frames come from an AppPool. *)
(* The headers are members of the SendThroughInterface: every thread that  *)
(* sends by the same interface writes them, and no lock protects them.     *)
(***************************************************************************)
EXTENDS Wire

CONSTANTS Thread,       \* threads that send
          Door,         \* the SendThroughInterface objects
          Datagram,     \* what sendPkt is called with: [door, dst, len]; a len of 0
                        \* is a packet encodeHeader refuses
          PerPool,      \* PACKETS_PER_POOL (128)
          MaxTries,     \* sendto calls for one frame (10)
          MaxSends,     \* bound on calls of sendPkt
          FrameFaults   \* conditions the code does not provide for, see the actions

FramesAssumption ==
  /\ Datagram \subseteq [door : Door, dst : Nat, len : Nat]
  /\ PerPool \in Nat \ {0} /\ MaxTries \in Nat \ {0} /\ MaxSends \in Nat
  /\ FrameFaults \subseteq {"shared", "initFails"}
ASSUME FramesAssumption

VARIABLES msgPool,       \* sendMsgPool: freed buffers, chunk, how much of it is used
          thread,     \* threads in init and sendPkt
          headers,    \* iphdr and udpHeader of each object
          buffer,     \* contents of buffers, by buffer
          opSock,     \* of each object: "none" before init, "null" if that failed, "open"
          instance,   \* SendingSocket::instance, 0 for NULL
          wire,       \* frames the system took, with the call they belong to
          calls       \* calls of sendPkt so far

framesVars == <<msgPool, thread, headers, buffer, opSock, instance, wire, calls>>

NoPkt == [door |-> 0, dst |-> 0, len |-> 0]
Rest == [pc |-> "idle", pkt |-> NoPkt, call |-> 0, msg |-> <<>>, tries |-> 0, ret |-> "none"]
NoHeader == [ip |-> NoPkt, udp |-> NoPkt, check |-> <<NoPkt, NoPkt>>]

\* reuse is FALSE when the program is compiled with NO_POOL.
FramesInit ==
  /\ msgPool \in [stack : {<<>>}, chunk : {0}, top : {PerPool}, reuse : BOOLEAN]
  /\ thread = [t \in Thread |-> Rest]
  /\ headers = [d \in Door |-> NoHeader] /\ buffer = [m \in {} |-> NoHeader]
  /\ opSock = [d \in Door |-> "none"] /\ instance = 0
  /\ wire = {} /\ calls = 0

-----------------------------------------------------------------------------
(* AppPool: a new chunk when the last one is used up and nothing was freed.   *)

UsedUp == msgPool.top = PerPool \/ ~msgPool.reuse
NextChunk == UsedUp /\ msgPool.stack = <<>>

Fresh == IF NextChunk THEN <<msgPool.chunk + 1, 1>>
         ELSE IF UsedUp THEN Last(msgPool.stack) ELSE <<msgPool.chunk, msgPool.top + 1>>

\* Mutant of GetNew: the object stays on the stack.
GetNewKeeps ==
  msgPool' = IF NextChunk THEN [msgPool EXCEPT !.chunk = @ + 1, !.top = 1]
          ELSE IF UsedUp THEN msgPool ELSE [msgPool EXCEPT !.top = @ + 1]

GetNew ==
  msgPool' = IF NextChunk THEN [msgPool EXCEPT !.chunk = @ + 1, !.top = 1]
          ELSE IF UsedUp THEN [msgPool EXCEPT !.stack = Front(@)]
          ELSE [msgPool EXCEPT !.top = @ + 1]

Free(m) == msgPool' = IF msgPool.reuse THEN [msgPool EXCEPT !.stack = Append(@, m)] ELSE msgPool

-----------------------------------------------------------------------------
(* init, after which sendPkt may be called; populateInterfaces registers the  *)
(* object even when init fails, and whoever sends by it crashes ("initFails").*)
(* getInstance tests the pointer again under its lock.                        *)

Goto(t, pc) == thread' = [thread EXCEPT ![t].pc = pc]

StartDoor(t, d) ==
  /\ thread[t].pc = "idle" /\ opSock[d] = "none"
  /\ \A u \in Thread : thread[u].pc \notin {"init", "create"} \/ thread[u].pkt.door # d
  /\ thread' = [thread EXCEPT ![t] = [Rest EXCEPT !.pc = "init", !.pkt.door = d]]
  /\ UNCHANGED <<msgPool, headers, buffer, opSock, instance, wire, calls>>

FailInit(t) ==
  /\ thread[t].pc = "init"
  /\ opSock' = [opSock EXCEPT ![thread[t].pkt.door] = "null"]
  /\ thread' = [thread EXCEPT ![t] = Rest]
  /\ UNCHANGED <<msgPool, headers, buffer, instance, wire, calls>>

UseInstance(t) ==
  /\ thread[t].pc = "init" /\ instance # 0
  /\ opSock' = [opSock EXCEPT ![thread[t].pkt.door] = "open"]
  /\ thread' = [thread EXCEPT ![t] = Rest]
  /\ UNCHANGED <<msgPool, headers, buffer, instance, wire, calls>>

SeeNoInstance(t) ==
  /\ thread[t].pc = "init" /\ instance = 0 /\ Goto(t, "create")
  /\ UNCHANGED <<msgPool, headers, buffer, opSock, instance, wire, calls>>

\* Mutant of CreateInstance: the pointer is not tested again.
CreateInstanceAgain(t) ==
  /\ thread[t].pc = "create"
  /\ instance' = instance + 1
  /\ opSock' = [opSock EXCEPT ![thread[t].pkt.door] = "open"]
  /\ thread' = [thread EXCEPT ![t] = Rest]
  /\ UNCHANGED <<msgPool, headers, buffer, wire, calls>>

CreateInstance(t) ==
  /\ thread[t].pc = "create"
  /\ instance' = IF instance = 0 THEN 1 ELSE instance
  /\ opSock' = [opSock EXCEPT ![thread[t].pkt.door] = "open"]
  /\ thread' = [thread EXCEPT ![t] = Rest]
  /\ UNCHANGED <<msgPool, headers, buffer, wire, calls>>

-----------------------------------------------------------------------------
(* sendPkt.  makeMsg writes the members of the object one after the other and *)
(* copies them into the buffer; another thread may do the same in between     *)
(* ("shared").                                                                *)

Filling == {"ip", "udp", "copy"}

SendPkt(t, p) ==
  /\ thread[t].pc = "idle" /\ calls < MaxSends /\ calls' = calls + 1
  /\ opSock[p.door] = "open" \/ (opSock[p.door] = "null" /\ "initFails" \in FrameFaults)
  /\ "shared" \in FrameFaults
       \/ \A u \in Thread : thread[u].pc \notin Filling \/ thread[u].pkt.door # p.door
  /\ GetNew
  /\ thread' = [thread EXCEPT ![t] = [pc |-> IF p.len = 0 THEN "refused" ELSE "ip", pkt |-> p,
                   call |-> calls', msg |-> Fresh, tries |-> 0, ret |-> "none"]]
  /\ UNCHANGED <<headers, buffer, opSock, instance, wire>>

\* encodeHeader returned 0.
Refuse(t) ==
  /\ thread[t].pc = "refused"
  /\ Free(thread[t].msg)
  /\ thread' = [thread EXCEPT ![t] = [@ EXCEPT !.pc = "idle", !.msg = <<>>, !.ret = "error"]]
  /\ UNCHANGED <<headers, buffer, opSock, instance, wire, calls>>

\* Mutant of WriteIp: the length of the packet before.
WriteIpLate(t) ==
  /\ thread[t].pc = "ip" /\ Goto(t, "udp")
  /\ headers' = [headers EXCEPT ![thread[t].pkt.door].ip = [thread[t].pkt EXCEPT !.len =
                   headers[thread[t].pkt.door].udp.len]]
  /\ UNCHANGED <<msgPool, buffer, opSock, instance, wire, calls>>

WriteIp(t) ==
  /\ thread[t].pc = "ip" /\ Goto(t, "udp")
  /\ headers' = [headers EXCEPT ![thread[t].pkt.door].ip = thread[t].pkt]
  /\ UNCHANGED <<msgPool, buffer, opSock, instance, wire, calls>>

\* The checksum covers both headers as they are now.
WriteUdp(t) ==
  /\ thread[t].pc = "udp" /\ Goto(t, "copy")
  /\ headers' = [headers EXCEPT ![thread[t].pkt.door] =
                   [ip |-> @.ip, udp |-> thread[t].pkt, check |-> <<@.ip, thread[t].pkt>>]]
  /\ UNCHANGED <<msgPool, buffer, opSock, instance, wire, calls>>

CopyHeaders(t) ==
  /\ thread[t].pc = "copy" /\ Goto(t, "send")
  /\ buffer' = [m \in DOMAIN buffer \cup {thread[t].msg} |->
                  IF m = thread[t].msg THEN headers[thread[t].pkt.door] ELSE buffer[m]]
  /\ UNCHANGED <<msgPool, headers, opSock, instance, wire, calls>>

-----------------------------------------------------------------------------
(* sendMsgDirectly: at most MaxTries calls of sendto, which blocks no thread  *)
(* but this one, and then the buffer is freed whatever came of it.            *)

Return(t, ret) ==
  /\ Free(thread[t].msg)
  /\ thread' = [thread EXCEPT ![t] = [@ EXCEPT !.pc = "idle", !.msg = <<>>, !.ret = ret]]

SendTo(t) ==
  /\ thread[t].pc = "send" /\ opSock[thread[t].pkt.door] = "open"
  /\ UNCHANGED <<headers, buffer, opSock, instance, calls>>

SystemTakes(t) ==
  /\ SendTo(t) /\ Return(t, "sent")
  /\ wire' = wire \cup {[call |-> thread[t].call, pkt |-> thread[t].pkt,
                         frame |-> buffer[thread[t].msg]]}

\* Mutant of NoBuffers: what was not sent counts as sent.
NoBuffersSent(t) ==
  /\ SendTo(t) /\ wire' = wire
  /\ IF thread[t].tries + 1 < MaxTries
       THEN thread' = [thread EXCEPT ![t].tries = @ + 1] /\ UNCHANGED msgPool
       ELSE Return(t, "sent")

\* ENOBUFS
NoBuffers(t) ==
  /\ SendTo(t) /\ wire' = wire
  /\ IF thread[t].tries + 1 < MaxTries
       THEN thread' = [thread EXCEPT ![t].tries = @ + 1] /\ UNCHANGED msgPool
       ELSE Return(t, "error")

\* ENETDOWN, by which a channel is given up, and every other error.
SystemFails(t) ==
  /\ SendTo(t) /\ wire' = wire
  /\ Return(t, "closed") \/ Return(t, "error")

FramesNext ==
  \E t \in Thread :
    \/ \E d \in Door : StartDoor(t, d)
    \/ FailInit(t) \/ UseInstance(t) \/ SeeNoInstance(t) \/ CreateInstance(t)
    \/ \E p \in Datagram : SendPkt(t, p)
    \/ Refuse(t) \/ WriteIp(t) \/ WriteUdp(t) \/ CopyHeaders(t)
    \/ SystemTakes(t) \/ NoBuffers(t) \/ SystemFails(t)

-----------------------------------------------------------------------------
\* Every frame the system took carries the headers of its own packet and a checksum
\* over exactly those, whatever other threads send by the same interface (makeMsg).
FrameOwn ==
  \A f \in wire : f.frame = [ip |-> f.pkt, udp |-> f.pkt, check |-> <<f.pkt, f.pkt>>]

\* A buffer has one owner: a thread that fills or sends it, or the pool; none is
\* lost or freed twice.
BufferOwned ==
  LET held == {t \in Thread : thread[t].msg # <<>>}
      pooled == ToSet(msgPool.stack)
  IN /\ \A t, u \in held : thread[t].msg = thread[u].msg => t = u
     /\ pooled \cap {thread[t].msg : t \in held} = {}
     /\ Cardinality(pooled) = Len(msgPool.stack)
     /\ msgPool.reuse /\ msgPool.chunk > 0 =>
          Cardinality(held) + Len(msgPool.stack) = (msgPool.chunk - 1) * PerPool + msgPool.top

\* What sendPkt returns is true: the caller is told that a frame went out if and
\* only if it did, and it went once; there is one socket, and nobody sends without.
SentTruly ==
  /\ \A f, g \in wire : f.call = g.call => f = g
  /\ \A t \in Thread : thread[t].pc = "idle" /\ thread[t].call # 0 =>
        (thread[t].ret = "sent" <=> \E f \in wire : f.call = thread[t].call)
  /\ \A t \in Thread : thread[t].pc = "send" => opSock[thread[t].pkt.door] = "open"
  /\ instance <= 1

FramesSound == FrameOwn /\ BufferOwned /\ SentTruly
=============================================================================
