----------------------------- MODULE Multiplexer -----------------------------
(***************************************************************************)
(* The Multiplexer of the end that receives, with several flows: it makes  *)
(* them when their first packet arrives, hands them to the application,    *)
(* and tells the sending end how far each was read.  Every flow has        *)
(* a reader of its own; the count of reads and the scheduler's one slot    *)
(* for control packets are shared by all.  The order of packets is the     *)
(* flow handlers' business (Flow): here they arrive as they were sent.     *)
(***************************************************************************)
EXTENDS Integers, FiniteSets

CONSTANTS FlowIdCnt,      \* values of a flow id, 2^16 in the code
          Acceptor,       \* application threads that call acceptFlow
          FlowPackets,    \* bound: packets of a flow, the last with FLAG_FFN
          FlowWindow,     \* recvWindow, 500 in the code
          StatusAfter,    \* reads before a status is sent, 400
          MuxFaults,      \* conditions the code does not provide for, see the actions
          NoStatus        \* no control packet

MultiplexerAssumption ==
  /\ FlowIdCnt \in Nat /\ FlowIdCnt > 1 /\ FlowPackets \in Nat \ {0}
  /\ FlowWindow \in Nat /\ StatusAfter \in Nat /\ StatusAfter + 1 < FlowWindow
  /\ IsFiniteSet(Acceptor) /\ MuxFaults \subseteq {"overtake", "wrap"}
ASSUME MultiplexerAssumption

MuxId == 0 .. FlowIdCnt - 1

VARIABLES
  nextFlowId,    \* of the ClientConnection that opens the flows
  opened,        \* children of the sending end
  sent, ackedUpto,   \* packets of a flow sent, and known to have been read
  delivered, readUpto, \* packets of a flow that arrived and that were read
  children, pendingFlows, acceptSem,
  acceptor,      \* where each acceptor is
  accepted,      \* how often acceptFlow returned a flow
  muxReader,     \* the thread that reads a flow: where it is, the status it holds
  outPacketCount,
  controlSlot,   \* controlPkt of the scheduler
  statuses       \* control packets on the channels

senderVars == <<nextFlowId, opened, sent, ackedUpto>>
acceptorVars == <<pendingFlows, acceptSem, acceptor, accepted>>
statusVars == <<outPacketCount, controlSlot, statuses>>
muxVars == <<senderVars, delivered, readUpto, children, acceptorVars, muxReader, statusVars>>

MultiplexerInit ==
  /\ nextFlowId = 0 /\ opened = {}
  /\ sent = [f \in MuxId |-> 0] /\ ackedUpto = [f \in MuxId |-> 0]
  /\ delivered = [f \in MuxId |-> 0] /\ readUpto = [f \in MuxId |-> 0]
  /\ children = {} /\ pendingFlows = {} /\ acceptSem = 0
  /\ acceptor = [a \in Acceptor |-> "idle"] /\ accepted = [f \in MuxId |-> 0]
  /\ muxReader = [f \in MuxId |-> [pc |-> "none", status |-> NoStatus]]
  /\ outPacketCount = 0 /\ controlSlot = NoStatus /\ statuses = {}

-----------------------------------------------------------------------------
(* The sending end.                                                          *)

\* getNextFlowId and addNewFlow.  The counter wraps and comes to 0, which is no flow
\* ("wrap"); ids that come a second time are beyond the bound.
OpenMuxFlow ==
  LET f == (nextFlowId + 1) % FlowIdCnt IN
  /\ f \notin opened /\ ("wrap" \in MuxFaults \/ f # 0)
  /\ nextFlowId' = f /\ opened' = opened \cup {f}
  /\ UNCHANGED <<sent, ackedUpto, delivered, readUpto, children, acceptorVars, muxReader, statusVars>>

\* Multiplexer::sendPacketTo refuses a packet without flow id.
SendOnFlow(f) ==
  /\ f \in opened /\ f # 0 /\ sent[f] < FlowPackets
  /\ sent[f] - ackedUpto[f] < FlowWindow
  /\ sent' = [sent EXCEPT ![f] = @ + 1]
  /\ UNCHANGED <<nextFlowId, opened, ackedUpto, delivered, readUpto, children, acceptorVars,
                 muxReader, statusVars>>

\* recvPacketFrom with FLAG_CTR: recvAck of each flow in the header.  A value that is
\* more than a window ahead, or older than the last, is ignored.
RecvStatus(s) ==
  /\ statuses' = statuses \ {s}
  /\ ackedUpto' = [f \in MuxId |->
       IF f \in opened \cap DOMAIN s /\ s[f] - ackedUpto[f] \in 0 .. FlowWindow
       THEN s[f] ELSE ackedUpto[f]]
  /\ UNCHANGED <<nextFlowId, opened, sent, delivered, readUpto, children, acceptorVars, muxReader,
                 outPacketCount, controlSlot>>

-----------------------------------------------------------------------------
(* The connection thread and the application's acceptFlow.                   *)

RecvOnFlow(f) ==
  /\ delivered[f] < sent[f]
  /\ delivered' = [delivered EXCEPT ![f] = @ + 1]
  /\ IF f \in children THEN UNCHANGED <<children, pendingFlows, acceptSem>>
     ELSE /\ children' = children \cup {f} /\ pendingFlows' = pendingFlows \cup {f}
          /\ acceptSem' = acceptSem + 1
  /\ UNCHANGED <<senderVars, readUpto, acceptor, accepted, muxReader, statusVars>>

AcceptWakes(a) ==
  /\ acceptor[a] = "idle" /\ acceptSem > 0
  /\ acceptSem' = acceptSem - 1 /\ acceptor' = [acceptor EXCEPT ![a] = "woken"]
  /\ UNCHANGED <<senderVars, delivered, readUpto, children, pendingFlows, accepted, muxReader, statusVars>>

\* Mutant of AcceptTakes: the flow stays among the pending ones.
AcceptTakesKeeps(a) ==
  \E f \in pendingFlows :
    /\ acceptor[a] = "woken" /\ \A g \in pendingFlows : f <= g
    /\ acceptor' = [acceptor EXCEPT ![a] = "idle"]
    /\ accepted' = [accepted EXCEPT ![f] = @ + 1]
    /\ muxReader' = [muxReader EXCEPT ![f].pc = "reading"]
    /\ UNCHANGED <<senderVars, delivered, readUpto, children, pendingFlows, acceptSem, statusVars>>

\* pendingFlows.begin() is the smallest id.
AcceptTakes(a) ==
  \E f \in pendingFlows :
    /\ acceptor[a] = "woken" /\ \A g \in pendingFlows : f <= g
    /\ pendingFlows' = pendingFlows \ {f} /\ acceptor' = [acceptor EXCEPT ![a] = "idle"]
    /\ accepted' = [accepted EXCEPT ![f] = @ + 1]
    /\ muxReader' = [muxReader EXCEPT ![f].pc = "reading"]
    /\ UNCHANGED <<senderVars, delivered, readUpto, children, acceptSem, statusVars>>

-----------------------------------------------------------------------------
(* Multiplexer::readData on the reader of f.                                 *)

ReaderAt(f, pc) == muxReader' = [muxReader EXCEPT ![f] = [pc |-> pc, status |-> NoStatus]]

\* The last packet has FLAG_FFN: readData of the flow returns 0 and closeFlow erases it.
ReadFromFlow(f) ==
  /\ muxReader[f].pc = "reading" /\ readUpto[f] < delivered[f]
  /\ readUpto' = [readUpto EXCEPT ![f] = @ + 1]
  /\ children' = IF readUpto'[f] = FlowPackets THEN children \ {f} ELSE children
  /\ ReaderAt(f, "read")
  /\ UNCHANGED <<senderVars, delivered, acceptorVars, statusVars>>

CountRead(f) ==
  /\ muxReader[f].pc = "read" /\ outPacketCount' = outPacketCount + 1
  /\ ReaderAt(f, "counted")
  /\ UNCHANGED <<senderVars, delivered, readUpto, children, acceptorVars, controlSlot, statuses>>

NextRead(f) == ReaderAt(f, IF f \in children THEN "reading" ELSE "ended")

\* Mutant of ReceiverStatus: only the flow that was read.
StatusOfOne(f) == [g \in children \cap {f} |-> readUpto[g]]

\* getReceiverStatus: all flows there are, since the packet may replace another.
ReceiverStatus(f) == [g \in children |-> readUpto[g]]

\* No lock is held from here to the reset of the count.  A reader that is overtaken by
\* others in between replaces their status by its older one, or takes their reads out
\* of the count ("overtake").
TestCount(f) ==
  /\ muxReader[f].pc = "counted"
  /\ IF outPacketCount > StatusAfter
       THEN /\ "overtake" \in MuxFaults \/ \A g \in MuxId : muxReader[g].pc \notin {"holding", "put"}
            /\ muxReader' = [muxReader EXCEPT ![f] = [pc |-> "holding", status |-> ReceiverStatus(f)]]
       ELSE NextRead(f)
  /\ UNCHANGED <<senderVars, delivered, readUpto, children, acceptorVars, statusVars>>

\* sendPacketTo of the scheduler keeps the newer of two control packets.
PutStatus(f) ==
  /\ muxReader[f].pc = "holding"
  /\ controlSlot' = muxReader[f].status
  /\ ReaderAt(f, "put")
  /\ UNCHANGED <<senderVars, delivered, readUpto, children, acceptorVars, outPacketCount, statuses>>

ResetCount(f) ==
  /\ muxReader[f].pc = "put" /\ outPacketCount' = 0
  /\ NextRead(f)
  /\ UNCHANGED <<senderVars, delivered, readUpto, children, acceptorVars, controlSlot, statuses>>

\* The scheduler thread gives the control packet to a channel.
SendStatus ==
  /\ controlSlot # NoStatus
  /\ statuses' = statuses \cup {controlSlot} /\ controlSlot' = NoStatus
  /\ UNCHANGED <<senderVars, delivered, readUpto, children, acceptorVars, muxReader, outPacketCount>>

-----------------------------------------------------------------------------
ReaderStep(f) ==
  \/ ReadFromFlow(f) \/ CountRead(f) \/ TestCount(f) \/ PutStatus(f) \/ ResetCount(f)

\* Whatever runs by itself.  Every step uses up a packet, a read or a status.
MultiplexerRun ==
  \/ \E f \in MuxId : SendOnFlow(f) \/ RecvOnFlow(f) \/ ReaderStep(f)
  \/ \E a \in Acceptor : AcceptWakes(a) \/ AcceptTakes(a)
  \/ \E s \in statuses : RecvStatus(s)
  \/ SendStatus

MultiplexerNext == MultiplexerRun \/ OpenMuxFlow

MultiplexerSpec == MultiplexerInit /\ [][MultiplexerNext]_muxVars
MultiplexerFairSpec == MultiplexerSpec /\ WF_muxVars(MultiplexerRun)

-----------------------------------------------------------------------------
\* A wake-up of acceptFlow stands for a flow that is pending, and the flow is there
\* (APP_ASSERT(child)); every flow is handed out once; and the window of each flow is
\* kept although all share one count and one slot.
FlowsApart ==
  /\ Cardinality(pendingFlows) =
       acceptSem + Cardinality({a \in Acceptor : acceptor[a] = "woken"})
  /\ pendingFlows \subseteq children
  /\ \A f \in MuxId : /\ accepted[f] = IF f \in pendingFlows \/ delivered[f] = 0 THEN 0 ELSE 1
                      /\ sent[f] - readUpto[f] <= FlowWindow

\* Every flow is sent and read to its end: no window stays shut for want of a status.
FlowsDone == \A f \in opened : readUpto[f] = FlowPackets
FlowsEnd == <>[]FlowsDone
=============================================================================
