------------------------------ MODULE Channel ------------------------------
(***************************************************************************)
(* One channel of a Viscous connection: a NewChannelHandler at each end of *)
(* a pair of interfaces, and the UDP path between them. Each end sends     *)
(* packets under a sliding window with 16-bit sequence numbers, New-Reno   *)
(* congestion control and acknowledgements that name both the cumulative   *)
(* position (ackNo) and the packet that caused them (origAckNo).           *)
(*                                                                         *)
(* Threads of an end, and their actions:                                   *)
(*   scheduler thread    SendPacket                                        *)
(*   connection thread   Receive, TestSent, MarkAcked  (recv)              *)
(*   channel thread      StartUp, PktRecv, TakeAcks, AckRecv  (run)        *)
(*   timer thread        TimeoutEvent                                      *)
(*   application thread  InitShutdown, FinishInitShutdown  (shutDown)      *)
(*   interface monitor   MarkDeadChannel, NotifyDeadChannel                *)
(*                                                                         *)
(* sendPacketLock makes sendPacket, timeoutEvent and the processing of one *)
(* batch of acknowledgements exclude each other; recv takes no lock.       *)
(***************************************************************************)
EXTENDS Integers, Sequences, FiniteSets, SequencesExt

CONSTANTS
    Node,         \* the two ends
    SeqCnt,       \* APP_INT16_CNT, the size of the sequence number space
    MaxPackets,   \* bound: application packets each end may send
    Closers,      \* the ends whose application closes the connection
    FaultKinds,   \* what may go wrong, see Faulty below
    MaxFaults,    \* bound: how often something may go wrong
    CwndUnit,     \* cwnd is a float in the code: here in 1/CwndUnit steps
    Null          \* a NULL pkt_ pointer

ASSUME ChannelAssumption ==
    /\ IsFiniteSet(Node) /\ Cardinality(Node) = 2
    /\ SeqCnt \in Nat /\ SeqCnt >= 8 /\ SeqCnt % 4 = 0
    /\ MaxPackets \in [Node -> Nat]
    /\ Closers \subseteq Node
    /\ FaultKinds \subseteq {"lose", "duplicate", "reorder", "early", "ifcRemoved"}
    /\ MaxFaults \in Nat
    /\ CwndUnit \in Nat \ {0}

VARIABLES
    snd,            \* snd[p]: senderBuffer, congestion state and flags of p
    rcv,            \* rcv[p]: recieverBuff of p
    link,           \* link[p]: datagrams p sent that are still in transit
    dataRecvQueue,  \* dataRecvQueue[p]: data packets handed to p's thread
    ackRecvQueue,   \* ackRecvQueue[p]: acknowledgements handed to it
    batch,          \* batch[p]: the acknowledgements ackRecv() works on
    conn,           \* conn[p]: where p's connection thread is inside recv
    shutting,       \* shutting[p]: the application is inside initShutdown
    passedUp,       \* history: passedUp[p][i], how often the packet i sent
                    \*   by p was passed up with accepted = TRUE
    faults          \* how many faults may still happen

vars == <<snd, rcv, link, dataRecvQueue, ackRecvQueue, batch, conn, shutting,
          passedUp, faults>>

SeqNo == 0 .. SeqCnt - 1

Peer(p) == CHOOSE q \in Node : q # p

(* appInt16 arithmetic: differences and sums wrap around. *)
Dist(x, y) == (x - y) % SeqCnt
Plus(x, k) == (x + k) % SeqCnt

(* Every packet an end may send: the channel start packet, the application's *)
(* packets, and one FLAG_CHF packet for each thread that may start a close.  *)
PacketId == 0 .. (2 + CHOOSE m \in {MaxPackets[p] : p \in Node} :
                            \A p \in Node : MaxPackets[p] <= m)

Pkt == [id : PacketId, chs : BOOLEAN, chf : BOOLEAN]
ASSUME NullAssumption == Null \notin Pkt

EmptySlot == [pkt |-> Null, pktSent |-> FALSE, ackRcvd |-> FALSE, retryCnt |-> 0]

InitSender == [
    lastAcked |-> SeqCnt - 1, maxPacket |-> SeqCnt - 1, maxSent |-> SeqCnt - 1,
    bufStarted |-> FALSE, buf |-> [q \in SeqNo |-> EmptySlot], timerList |-> {},
    sendSeqLock |-> "free", total |-> 0, undelivered |-> {},
    senderWindow |-> 1, cwnd |-> CwndUnit, ssthresh |-> SeqCnt \div 4,
    status |-> "SLOW_START", recover |-> 0, recoverIndex |-> 0,
    multiRecoverIndex |-> 0, duplicateCount |-> 0,
    up |-> FALSE, started |-> FALSE, closed |-> FALSE, deadChannel |-> FALSE,
    drained |-> FALSE, shutDownSent |-> FALSE, shutDownRecv |-> FALSE,
    shutDownSentRecv |-> FALSE, out |-> <<>> ]

NoBatch == [acks |-> <<>>, maxAck |-> 0, normalisedMax |-> 0]

Init ==
    /\ snd = [p \in Node |-> InitSender]
    /\ rcv = [p \in Node |-> [expectedSeq |-> 0, buf |-> {}, recvStarted |-> FALSE]]
    /\ link = [p \in Node |-> <<>>]
    /\ dataRecvQueue = [p \in Node |-> <<>>]
    /\ ackRecvQueue = [p \in Node |-> <<>>]
    /\ batch = [p \in Node |-> NoBatch]
    /\ conn = [p \in Node |-> [pc |-> "idle", orig |-> 0]]
    /\ shutting = [p \in Node |-> FALSE]
    /\ passedUp = [p \in Node |-> [i \in PacketId |-> 0]]
    /\ faults = MaxFaults

-----------------------------------------------------------------------------
(***************************************************************************)
(* The sender. A handler is a function on s, the sender's record; s.out    *)
(* collects the datagrams it sends until Apply puts them on the path.      *)
(***************************************************************************)
DataMsg(seq, pkt) == [type |-> "DAT", seq |-> seq, pkt |-> pkt]
AckMsg(ackNo, orig) == [type |-> "ACK", ackNo |-> ackNo, orig |-> orig]

Apply(p, s) ==
    /\ snd' = [snd EXCEPT ![p] = [s EXCEPT !.out = <<>>]]
    /\ link' = [link EXCEPT ![p] = @ \o s.out]

(* sendSeq for one slot after the other. It returns without unlocking when a *)
(* slot is empty ("leaked"): the next call never gets the lock ("stuck").    *)
SendSeqs(s, seqs) ==
    LET full == CHOOSE k \in 0 .. Len(seqs) :
                    /\ \A j \in 1 .. k : s.buf[seqs[j]].pkt # Null
                    /\ k < Len(seqs) => s.buf[seqs[k + 1]].pkt = Null
        sent == {seqs[j] : j \in 1 .. full}
    IN  IF seqs = <<>> THEN s
        ELSE IF s.sendSeqLock # "free" THEN [s EXCEPT !.sendSeqLock = "stuck"]
        ELSE [s EXCEPT !.buf = [q \in SeqNo |-> IF q \in sent
                                                THEN [s.buf[q] EXCEPT !.pktSent = TRUE]
                                                ELSE s.buf[q]],
                       !.timerList = @ \cup sent,
                       !.out = @ \o [j \in 1 .. full |-> DataMsg(seqs[j], s.buf[seqs[j]].pkt)],
                       !.sendSeqLock = CASE full = Len(seqs) -> "free"
                                         [] full + 1 = Len(seqs) -> "leaked"
                                         [] OTHER -> "stuck"]

(* (appInt16)(cwnd + 0.5) *)
CwndPackets(s) == (s.cwnd + CwndUnit \div 2) \div CwndUnit

InFlight(s) == Dist(s.maxSent, s.lastAcked)
Outstanding(s) == Dist(s.maxPacket, s.lastAcked)

(* How many packets the loop of sendNext gets through: cansend() and unsent. *)
Sendable(s) ==
    LET wnd == IF s.senderWindow < CwndPackets(s) THEN s.senderWindow ELSE CwndPackets(s)
        room == IF InFlight(s) < wnd THEN wnd - InFlight(s) ELSE 0
        unsent == Dist(s.maxPacket, s.maxSent)
    IN  IF unsent < room THEN unsent ELSE room

SendNew(s, cnt) ==
    LET n == IF cnt < Sendable(s) THEN cnt ELSE Sendable(s)
    IN  [SendSeqs(s, [k \in 1 .. n |-> Plus(s.maxSent, k)]) EXCEPT !.maxSent = Plus(@, n)]

(* addBuffer: the packet takes the slot after maxPacket. *)
AddBuffer(s, chs, chf) ==
    LET seq == Plus(s.maxPacket, 1)
    IN  [s EXCEPT !.maxPacket = seq,
                  !.buf[seq].pkt = [id |-> s.total, chs |-> chs, chf |-> chf],
                  !.total = @ + 1]

(* sendPacket: a packet sent while nothing is outstanding carries FLAG_CHS.  *)
Send(s, chs, chf) ==
    IF s.closed \/ s.deadChannel THEN s
    ELSE IF Outstanding(s) = 0
         THEN SendNew(AddBuffer([s EXCEPT !.bufStarted = TRUE], TRUE, chf), 1)
    ELSE IF Outstanding(s) >= SeqCnt \div 2 THEN s
    ELSE SendNew(AddBuffer(s, chs, chf), 1)

(* updateCwnd: cwnd stays between 1 and MAX_CONG_WINDOW. *)
SetCwnd(s, v) ==
    [s EXCEPT !.cwnd = IF v > CwndUnit * (SeqCnt \div 2) THEN CwndUnit * (SeqCnt \div 2)
                       ELSE IF v < CwndUnit THEN CwndUnit ELSE v]
GrowCwnd(s) == SetCwnd(s, s.cwnd + CwndUnit)
GrowCwndSlowly(s) == SetCwnd(s, s.cwnd + (CwndUnit * CwndUnit) \div s.cwnd)

(* initShutdown once its check of shutDownSent has passed. *)
SendChf(s) == Send(s, FALSE, TRUE)
ShutdownFlags(s) == [s EXCEPT !.shutDownSent = TRUE, !.closed = TRUE]

(* Mutant of Free: the timer of an emptied slot is not stopped.              *)
FreeKeepsTimer(s, S) ==
    [s EXCEPT !.buf = [q \in SeqNo |-> IF q \in S THEN EmptySlot ELSE s.buf[q]]]

(* Empties the slots S that still hold a packet; stopTimer, freePacket and   *)
(* reset are not reached for the others.                                     *)
Free(s, S) ==
    LET held == {q \in S : s.buf[q].pkt # Null}
    IN  [s EXCEPT !.buf = [q \in SeqNo |-> IF q \in held THEN EmptySlot ELSE s.buf[q]],
                  !.timerList = @ \ held]

Retransmit(s, seq) == SendSeqs([s EXCEPT !.timerList = @ \ {seq}], <<seq>>)

(* The part of ackRecv common to new and partial acknowledgements. *)
Advance(s, n) ==
    LET acked == {Plus(s.lastAcked, k) : k \in 1 .. n}
        chfAcked == \E q \in acked : s.buf[q].pkt # Null /\ s.buf[q].pkt.chf
    IN  Free([s EXCEPT !.lastAcked = Plus(@, n),
                       !.duplicateCount = 0,
                       !.shutDownSentRecv = @ \/ (s.shutDownSent /\ chfAcked)], acked)

NewAck(s, n) ==
    LET a == [Advance(s, n) EXCEPT !.recover = 0]
        b == IF a.cwnd <= a.ssthresh * CwndUnit
             THEN [GrowCwnd(a) EXCEPT !.status = "SLOW_START"]
             ELSE [GrowCwndSlowly(a) EXCEPT !.status = "CONG_AVOIDANCE"]
    IN  SendNew(b, 2 * n)

(* Mutant of PartialAck: recover is not reduced by what was acknowledged.    *)
PartialAckKeepsRecover(s, n) ==
    LET a == Advance(s, n)
        head == Plus(a.lastAcked, 1)
    IN  IF a.status = "FAST_RECOVERY"
        THEN Retransmit([a EXCEPT !.status = "MULTI_RECOVERY",
                                  !.multiRecoverIndex = Plus(head, 1),
                                  !.duplicateCount = 3], head)
        ELSE LET b == SendNew(a, 1) IN SetCwnd(b, b.cwnd - (n - 1) * CwndUnit)

PartialAck(s, n) ==
    LET a == [Advance(s, n) EXCEPT !.recover = @ - n]
        head == Plus(a.lastAcked, 1)
    IN  IF a.status = "FAST_RECOVERY"
        THEN Retransmit([a EXCEPT !.status = "MULTI_RECOVERY",
                                  !.multiRecoverIndex = Plus(head, 1),
                                  !.duplicateCount = 3], head)
        ELSE LET b == SendNew(a, 1) IN SetCwnd(b, b.cwnd - (n - 1) * CwndUnit)

(* The search loop of the MULTI_RECOVERY branch: the first index from        *)
(* multiRecoverIndex on that holds a packet or lies beyond recoverIndex. In  *)
(* an empty buffer with the largest recoverIndex there is none, and the loop *)
(* never ends.                                                               *)
IndexStops(s, k) ==
    LET index == Plus(s.multiRecoverIndex, k)
    IN  s.buf[index].pkt # Null \/ index > s.recoverIndex
NextUnacked(s) ==
    Plus(s.multiRecoverIndex,
         CHOOSE k \in 0 .. SeqCnt - 1 : IndexStops(s, k) /\ \A j \in 0 .. k - 1 : ~IndexStops(s, j))

TripleDuplicate(s) ==
    LET a == Retransmit(s, Plus(s.lastAcked, 1))
        half == IF InFlight(a) \div 2 > 2 THEN InFlight(a) \div 2 ELSE 2
    IN  IF s.status = "FAST_RECOVERY" THEN a
        ELSE SetCwnd([a EXCEPT !.recover = InFlight(a),
                               !.recoverIndex = a.maxSent,
                               !.ssthresh = half,
                               !.status = "FAST_RECOVERY"], (half + 3) * CwndUnit)

(* The code then asks for an EMPTY slot within recoverIndex, after a loop    *)
(* that stops at a full one or beyond the index.                             *)
MultiRecover(s) ==
    LET next == NextUnacked(s)
    IN  IF \A k \in 0 .. SeqCnt - 1 : ~IndexStops(s, k)
        THEN [s EXCEPT !.sendSeqLock = "stuck"]
        ELSE IF next <= s.recoverIndex /\ s.buf[next].pkt = Null
        THEN [Retransmit(s, next) EXCEPT !.multiRecoverIndex = Plus(next, 1)]
        ELSE SendNew(GrowCwnd([s EXCEPT !.multiRecoverIndex = next]), 1)

DuplicateAck(s) ==
    LET d == [s EXCEPT !.duplicateCount = @ + 1]
    IN  CASE s.status = "MULTI_RECOVERY" ->
                 MultiRecover(d)
          [] s.status # "MULTI_RECOVERY" /\ d.duplicateCount = 3 ->
                 TripleDuplicate(d)
          [] s.status # "MULTI_RECOVERY" /\ d.duplicateCount # 3 ->
                 SendNew(IF s.status = "FAST_RECOVERY" THEN GrowCwnd(d) ELSE d, 1)

(* Mutant of Sack: it frees the packet after ackNo instead of origAckNo.     *)
SackWrongSlot(s, ack) ==
    IF ack.ackNo # ack.orig THEN Free(s, {Plus(ack.ackNo, 1)}) ELSE s

(* An acknowledgement of a later packet than ackNo frees that packet's slot. *)
Sack(s, ack) ==
    IF ack.ackNo # ack.orig THEN Free(s, {ack.orig}) ELSE s

(* ackRecv(pkt): one acknowledgement. Every ack advertises SeqCnt/2.         *)
ProcessAck(s0, ack) ==
    LET s == [s0 EXCEPT !.senderWindow = SeqCnt \div 2]
        n == Dist(ack.ackNo, s.lastAcked)
        recovering == s.status \in {"FAST_RECOVERY", "MULTI_RECOVERY"}
        t == Sack(s, ack)
    IN  IF ~s.bufStarted \/ n > SeqCnt \div 2 THEN s
        ELSE IF n > 0 /\ recovering /\ n < s.recover THEN PartialAck(t, n)
        ELSE IF n > 0 THEN NewAck(t, n)
        ELSE IF s.lastAcked # s.maxSent THEN DuplicateAck(t)
        ELSE t

-----------------------------------------------------------------------------
(***************************************************************************)
(* Actions of the sending side. A thread that needs sendPacketLock waits   *)
(* while a batch of acknowledgements is being processed, and for ever once *)
(* the holder of the lock is stuck in sendSeq.                             *)
(***************************************************************************)
Unlocked(p) == batch[p].acks = <<>> /\ snd[p].sendSeqLock # "stuck"

SpaceInCwnd(p) ==
    /\ ~snd[p].deadChannel /\ ~snd[p].closed /\ snd[p].started
    /\ Outstanding(snd[p]) < CwndPackets(snd[p])

(* run(): the channel thread starts by sending the channel start packet.     *)
StartUp(p) ==
    /\ ~snd[p].up /\ ~snd[p].deadChannel /\ Unlocked(p)
    /\ Apply(p, Send([snd[p] EXCEPT !.up = TRUE], TRUE, FALSE))
    /\ UNCHANGED <<rcv, dataRecvQueue, ackRecvQueue, batch, conn, shutting, passedUp, faults>>

(* The scheduler hands a channel a packet when it has room for it.           *)
SendPacket(p) ==
    /\ SpaceInCwnd(p) /\ Unlocked(p)
    /\ snd[p].total <= MaxPackets[p]
    /\ Apply(p, Send(snd[p], FALSE, FALSE))
    /\ UNCHANGED <<rcv, dataRecvQueue, ackRecvQueue, batch, conn, shutting, passedUp, faults>>

(* ackRecv(): take what is queued and find the acknowledgement that is       *)
(* furthest ahead of lastAcked in unsigned arithmetic. (run() looks at       *)
(* chStopThread only between two batches: a dead channel's thread may still  *)
(* be working on packets and acknowledgements.)                              *)
TakeAcks(p) ==
    LET acks == ackRecvQueue[p]
        ahead(i) == Dist(acks[i].ackNo, snd[p].lastAcked)
        far == CHOOSE i \in DOMAIN acks : \A j \in DOMAIN acks : ahead(j) <= ahead(i)
    IN  /\ acks # <<>> /\ Unlocked(p) /\ snd[p].up
        /\ batch' = [batch EXCEPT ![p] = [acks |-> acks, maxAck |-> acks[far].ackNo,
                                          normalisedMax |-> ahead(far)]]
        /\ ackRecvQueue' = [ackRecvQueue EXCEPT ![p] = <<>>]
        /\ UNCHANGED <<snd, rcv, link, dataRecvQueue, conn, shutting, passedUp, faults>>

(* ... then process the acknowledgements that carry it, and those caused by  *)
(* a packet beyond it; the others are thrown away.                           *)
Relevant(p, ack) ==
    \/ ack.ackNo = batch[p].maxAck
    \/ Dist(ack.orig, snd[p].lastAcked) > batch[p].normalisedMax

AfterFirst(b) == IF Len(b.acks) > 1 THEN [b EXCEPT !.acks = Tail(b.acks)] ELSE NoBatch

AckRecv(p) ==
    /\ batch[p].acks # <<>> /\ snd[p].sendSeqLock # "stuck"
    /\ LET ack == Head(batch[p].acks)
       IN  Apply(p, IF Relevant(p, ack) THEN ProcessAck(snd[p], ack) ELSE snd[p])
    /\ batch' = [batch EXCEPT ![p] = AfterFirst(@)]
    /\ UNCHANGED <<rcv, dataRecvQueue, ackRecvQueue, conn, shutting, passedUp, faults>>

(* Mutant of GetUndelivered: the loop stops one packet early.                *)
GetUndeliveredButLast(s) ==
    LET held == {Plus(s.lastAcked, k) : k \in 1 .. Outstanding(s) - 1}
        full == {q \in held : s.buf[q].pkt # Null}
    IN  [Free(s, held) EXCEPT !.timerList = {},
                              !.undelivered = @ \cup {s.buf[q].pkt.id : q \in full},
                              !.drained = TRUE]

(* getUndeliveredPackets: what is left goes back to the scheduler.           *)
GetUndelivered(s) ==
    LET held == {Plus(s.lastAcked, k) : k \in 1 .. Outstanding(s)}
        full == {q \in held : s.buf[q].pkt # Null}
    IN  [Free(s, held) EXCEPT !.timerList = {},
                              !.undelivered = @ \cup {s.buf[q].pkt.id : q \in full},
                              !.drained = TRUE]

(* Nothing is on its way between the two ends and no thread has work left.   *)
Quiet ==
    \A p \in Node : /\ link[p] = <<>> /\ dataRecvQueue[p] = <<>> /\ ackRecvQueue[p] = <<>>
                    /\ batch[p].acks = <<>> /\ conn[p].pc = "idle"

(* What shutDown() waits for; timeoutEvent then no longer runs.              *)
ShutdownComplete(p) ==
    snd[p].shutDownSent /\ snd[p].shutDownRecv /\ snd[p].shutDownSentRecv

(* After three retries of the FLAG_CHF packet its acknowledgement is no      *)
(* longer waited for. The mutant gives up after the first.                   *)
WaitedTooShort(slot) == slot.pkt.chf /\ slot.retryCnt > 0
WaitedLongEnough(slot) == slot.pkt.chf /\ slot.retryCnt > 2

(* The slots of Q, the packet that was sent first in front.                  *)
InOrder(s, Q) ==
    [k \in 1 .. Cardinality(Q) |->
        CHOOSE q \in Q : k = Cardinality({r \in Q : Dist(r, s.lastAcked) <= Dist(q, s.lastAcked)})]

(* Each expired packet is sent again, in the order the timers run out, and   *)
(* the congestion window falls back to one packet.                           *)
ResendExpired(s, Q) ==
    LET sent == SendSeqs([s EXCEPT !.timerList = @ \ Q], InOrder(s, Q))
        half == IF s.cwnd \div (2 * CwndUnit) < 2 THEN 2 ELSE s.cwnd \div (2 * CwndUnit)
    IN  IF Q = {} THEN s
        ELSE [sent EXCEPT !.buf = [q \in SeqNo |->
                              IF q \in Q
                              THEN [sent.buf[q] EXCEPT !.retryCnt = (sent.buf[q].retryCnt + 1) % 16]
                              ELSE sent.buf[q]],
                          !.ssthresh = half, !.cwnd = CwndUnit]

(* The handler timeoutEvent when the timers of E have expired: packets that  *)
(* recv marked are left alone. A fourth expiry of sequence number 0 ends the *)
(* search and kills the channel.                                             *)
Expired(s, E) ==
    LET late == {q \in E : ~s.buf[q].ackRcvd}
        dead == 0 \in late /\ s.buf[0].retryCnt > 2
        tried == IF dead THEN {q \in late : Dist(q, s.lastAcked) <= Dist(0, s.lastAcked)} ELSE late
        resend == IF dead THEN tried \ {0} ELSE tried
        gaveUp == \E q \in tried : WaitedLongEnough(s.buf[q])
        t == [ResendExpired(s, resend) EXCEPT !.shutDownSentRecv = @ \/ gaveUp,
                                              !.deadChannel = dead]
    IN  IF dead THEN GetUndelivered(t) ELSE t

(* A timer that runs out while datagrams are in transit is one of the        *)
(* bounded faults.                                                           *)
TimeoutEvent(p, E) ==
    /\ E # {} /\ E \subseteq snd[p].timerList
    /\ Unlocked(p) /\ ~snd[p].deadChannel
    /\ ~ShutdownComplete(p)
    /\ \/ Quiet /\ faults' = faults
       \/ ~Quiet /\ "early" \in FaultKinds /\ faults > 0 /\ faults' = faults - 1
    /\ Apply(p, Expired(snd[p], E))
    /\ UNCHANGED <<rcv, dataRecvQueue, ackRecvQueue, batch, conn, shutting, passedUp>>

(* The monitor reports an interface gone: the channel is marked dead without *)
(* any lock, and a second step takes its packets back.                       *)
MarkDeadChannel(p) ==
    /\ "ifcRemoved" \in FaultKinds /\ faults > 0
    /\ ~snd[p].deadChannel
    /\ snd' = [snd EXCEPT ![p].deadChannel = TRUE]
    /\ faults' = faults - 1
    /\ UNCHANGED <<rcv, link, dataRecvQueue, ackRecvQueue, batch, conn, shutting, passedUp>>

NotifyDeadChannel(p) ==
    /\ snd[p].deadChannel /\ ~snd[p].drained
    /\ snd' = [snd EXCEPT ![p] = GetUndelivered(@)]
    /\ UNCHANGED <<rcv, link, dataRecvQueue, ackRecvQueue, batch, conn, shutting, passedUp, faults>>

(* shutDown() called by the application: initShutdown sends a FLAG_CHF       *)
(* packet and only then sets the flags.                                      *)
InitShutdown(p) ==
    /\ p \in Closers /\ snd[p].up /\ ~shutting[p] /\ ~snd[p].shutDownSent
    /\ Unlocked(p)
    /\ Apply(p, SendChf(snd[p]))
    /\ shutting' = [shutting EXCEPT ![p] = TRUE]
    /\ UNCHANGED <<rcv, dataRecvQueue, ackRecvQueue, batch, conn, passedUp, faults>>

FinishInitShutdown(p) ==
    /\ shutting[p]
    /\ snd' = [snd EXCEPT ![p] = ShutdownFlags(@)]
    /\ shutting' = [shutting EXCEPT ![p] = FALSE]
    /\ UNCHANGED <<rcv, link, dataRecvQueue, ackRecvQueue, batch, conn, passedUp, faults>>

-----------------------------------------------------------------------------
(***************************************************************************)
(* Actions of the receiving side.                                          *)
(***************************************************************************)

(* recv: the connection thread queues the packet for the channel thread. For *)
(* an acknowledgement it then reads pktSent_ and sets ackRcvd_ of the packet *)
(* the acknowledgement names, without a lock. Datagrams for a channel the    *)
(* scheduler has dropped go nowhere.                                         *)
Receive(p) ==
    LET q == Peer(p)
        m == Head(link[q])
    IN  /\ link[q] # <<>> /\ conn[p].pc = "idle"
        /\ link' = [link EXCEPT ![q] = Tail(@)]
        /\ IF snd[p].drained
           THEN UNCHANGED <<dataRecvQueue, ackRecvQueue, conn>>
           ELSE IF m.type = "ACK"
           THEN /\ ackRecvQueue' = [ackRecvQueue EXCEPT ![p] = Append(@, m)]
                /\ conn' = [conn EXCEPT ![p] = [pc |-> "test", orig |-> m.orig]]
                /\ UNCHANGED dataRecvQueue
           ELSE /\ dataRecvQueue' = [dataRecvQueue EXCEPT ![p] = Append(@, m)]
                /\ UNCHANGED <<ackRecvQueue, conn>>
        /\ UNCHANGED <<snd, rcv, batch, shutting, passedUp, faults>>

TestSent(p) ==
    /\ conn[p].pc = "test"
    /\ conn' = [conn EXCEPT ![p] = IF snd[p].buf[@.orig].pktSent
                                   THEN [@ EXCEPT !.pc = "mark"]
                                   ELSE [pc |-> "idle", orig |-> 0]]
    /\ UNCHANGED <<snd, rcv, link, dataRecvQueue, ackRecvQueue, batch, shutting, passedUp, faults>>

MarkAcked(p) ==
    /\ conn[p].pc = "mark"
    /\ snd' = [snd EXCEPT ![p].buf[conn[p].orig].ackRcvd = TRUE]
    /\ conn' = [conn EXCEPT ![p] = [pc |-> "idle", orig |-> 0]]
    /\ UNCHANGED <<rcv, link, dataRecvQueue, ackRecvQueue, batch, shutting, passedUp, faults>>

(* The receive window: new packets lie in the half of the sequence space     *)
(* from expectedSeq on, known ones are answered in the quarter before it.    *)
(* Mutant of JustBefore: a retransmitted packet the receiver knows is not    *)
(* acknowledged again.                                                       *)
JustBeforeNever(r, seq) == FALSE

InWindow(r, seq) == Dist(seq, r.expectedSeq) < SeqCnt \div 2
JustBefore(r, seq) == Dist(seq, r.expectedSeq) > SeqCnt \div 2 + SeqCnt \div 4

(* Mutant of Store: expectedSeq skips one packet too many.                   *)
StoreOneTooFar(r, seq) ==
    LET bits == r.buf \cup {seq}
        run == CHOOSE k \in 0 .. SeqCnt : /\ Plus(r.expectedSeq, k) \notin bits
                                         /\ \A j \in 0 .. k - 1 : Plus(r.expectedSeq, j) \in bits
    IN  [r EXCEPT !.buf = bits \ {Plus(r.expectedSeq, j) : j \in 0 .. run - 1},
                  !.expectedSeq = Plus(@, run + 1)]

(* Set the bit of seq, then clear the run of set bits from expectedSeq on    *)
(* and move expectedSeq behind it.                                           *)
Store(r, seq) ==
    LET bits == r.buf \cup {seq}
        run == CHOOSE k \in 0 .. SeqCnt : /\ Plus(r.expectedSeq, k) \notin bits
                                         /\ \A j \in 0 .. k - 1 : Plus(r.expectedSeq, j) \in bits
    IN  [r EXCEPT !.buf = bits \ {Plus(r.expectedSeq, j) : j \in 0 .. run - 1},
                  !.expectedSeq = Plus(@, run)]

(* pktRecv: one data packet in the channel thread. Before the first packet   *)
(* with FLAG_CHS everything is ignored. FLAG_CHF makes this end close too.   *)
PktRecv(p) ==
    LET m == Head(dataRecvQueue[p])
        fresh == InWindow(rcv[p], m.seq) /\ m.seq \notin rcv[p].buf
        r == [(IF InWindow(rcv[p], m.seq) THEN Store(rcv[p], m.seq) ELSE rcv[p])
                EXCEPT !.recvStarted = TRUE]
        started == [snd[p] EXCEPT !.started = @ \/ m.pkt.chs, !.shutDownRecv = @ \/ m.pkt.chf]
        closing == IF m.pkt.chf /\ ~started.shutDownSent
                   THEN ShutdownFlags(SendChf(started)) ELSE started
        ack == AckMsg(Plus(r.expectedSeq, SeqCnt - 1), m.seq)
    IN  /\ dataRecvQueue[p] # <<>> /\ snd[p].up /\ Unlocked(p)
        /\ dataRecvQueue' = [dataRecvQueue EXCEPT ![p] = Tail(@)]
        /\ IF ~rcv[p].recvStarted /\ ~m.pkt.chs
           THEN UNCHANGED <<snd, rcv, link, passedUp>>
           ELSE /\ rcv' = [rcv EXCEPT ![p] = r]
                /\ Apply(p, IF InWindow(rcv[p], m.seq) \/ JustBefore(rcv[p], m.seq)
                            THEN [closing EXCEPT !.out = Append(@, ack)] ELSE closing)
                /\ passedUp' = IF fresh
                               THEN [passedUp EXCEPT ![Peer(p)][m.pkt.id] = @ + 1]
                               ELSE passedUp
        /\ UNCHANGED <<ackRecvQueue, batch, conn, shutting, faults>>

-----------------------------------------------------------------------------
(***************************************************************************)
(* The path between the ends is UDP: a datagram may be lost, duplicated or *)
(* overtaken by the next one.                                              *)
(***************************************************************************)
Faulty(p, kind, newLink) ==
    /\ kind \in FaultKinds /\ faults > 0
    /\ faults' = faults - 1
    /\ link' = [link EXCEPT ![p] = newLink]
    /\ UNCHANGED <<snd, rcv, dataRecvQueue, ackRecvQueue, batch, conn, shutting, passedUp>>

Lose(p, i) == Faulty(p, "lose", RemoveAt(link[p], i))
Duplicate(p, i) == Faulty(p, "duplicate", InsertAt(link[p], i, link[p][i]))
Reorder(p, i) ==
    /\ i < Len(link[p]) /\ link[p][i] # link[p][i + 1]
    /\ Faulty(p, "reorder", [link[p] EXCEPT ![i] = link[p][i + 1], ![i + 1] = link[p][i]])

Network(p) == \E i \in DOMAIN link[p] : Lose(p, i) \/ Duplicate(p, i) \/ Reorder(p, i)

Next ==
    \E p \in Node :
        \/ StartUp(p) \/ SendPacket(p)
        \/ Receive(p) \/ TestSent(p) \/ MarkAcked(p)
        \/ PktRecv(p) \/ TakeAcks(p) \/ AckRecv(p)
        \/ \E E \in SUBSET snd[p].timerList : TimeoutEvent(p, E)
        \/ MarkDeadChannel(p) \/ NotifyDeadChannel(p)
        \/ InitShutdown(p) \/ FinishInitShutdown(p)
        \/ Network(p)

Spec == Init /\ [][Next]_vars

(* Every thread of an end keeps running. What its next step consumes stands  *)
(* for the step: no other action takes from these queues.                    *)
TakesPacket(p) ==
    /\ dataRecvQueue[p] # <<>> /\ snd[p].up /\ ~snd[p].deadChannel /\ Unlocked(p)
    /\ dataRecvQueue' = [dataRecvQueue EXCEPT ![p] = Tail(@)]
FinishesAck(p) ==
    /\ batch[p].acks # <<>> /\ snd[p].sendSeqLock # "stuck"
    /\ batch' = [batch EXCEPT ![p] = AfterFirst(@)]

(* While nothing else happens, the timer of the oldest packet that recv has  *)
(* not marked runs out again and again: SF_vars(OldestTimeout(p)), with its  *)
(* ENABLED written out.                                                      *)
Unmarked(p) == {q \in snd[p].timerList : ~snd[p].buf[q].ackRcvd}
Oldest(p) ==
    CHOOSE q \in Unmarked(p) : \A r \in Unmarked(p) :
        Dist(q, snd[p].lastAcked) <= Dist(r, snd[p].lastAcked)
OldestTimeout(p) ==
    \E E \in SUBSET snd[p].timerList : Oldest(p) \in E /\ TimeoutEvent(p, E)
MayTimeOut(p) ==
    Unmarked(p) # {} /\ Unlocked(p) /\ ~snd[p].deadChannel /\ ~ShutdownComplete(p) /\ Quiet

(* The application need not send or close, and faults need not happen.       *)
Fairness ==
    \A p \in Node :
        /\ WF_vars(StartUp(p)) /\ WF_vars(Receive(p))
        /\ WF_vars(TestSent(p)) /\ WF_vars(MarkAcked(p))
        /\ WF_dataRecvQueue(TakesPacket(p))
        /\ WF_vars(TakeAcks(p) /\ ~snd[p].deadChannel) /\ WF_batch(FinishesAck(p))
        /\ WF_vars(NotifyDeadChannel(p)) /\ WF_vars(FinishInitShutdown(p))
        /\ []<>MayTimeOut(p) => []<><<MayTimeOut(p) /\ OldestTimeout(p)>>_vars

FairSpec == Spec /\ Fairness

-----------------------------------------------------------------------------
(* Type invariant: the ranges of the 16-bit counters and of the queues.      *)
TypeOK ==
    /\ \A p \in Node :
        LET s == snd[p] IN
        /\ {s.lastAcked, s.maxPacket, s.maxSent, s.recover, s.recoverIndex,
            s.multiRecoverIndex} \subseteq SeqNo
        /\ s.timerList \subseteq SeqNo
        /\ \A q \in SeqNo : /\ s.buf[q].pkt \in Pkt \cup {Null}
                            /\ s.buf[q].pktSent \in BOOLEAN
                            /\ s.buf[q].ackRcvd \in BOOLEAN
                            /\ s.buf[q].retryCnt \in 0 .. 15
        /\ s.cwnd \in CwndUnit .. CwndUnit * (SeqCnt \div 2)
        /\ s.status \in {"SLOW_START", "CONG_AVOIDANCE", "FAST_RECOVERY", "MULTI_RECOVERY"}
        /\ s.sendSeqLock \in {"free", "leaked", "stuck"}
        /\ rcv[p].expectedSeq \in SeqNo /\ rcv[p].buf \subseteq SeqNo
    /\ conn \in [Node -> [pc : {"idle", "test", "mark"}, orig : SeqNo]]
    /\ faults \in 0 .. MaxFaults

(***************************************************************************)
(* The asserts of startTimer, stopTimer and restartTimer never fail: a     *)
(* packet has a running timer exactly from its first transmission until    *)
(* its slot is emptied, whichever of the acknowledgement paths does it.    *)
(***************************************************************************)
TimersExact ==
    \A p \in Node :
        snd[p].timerList = {q \in SeqNo : snd[p].buf[q].pkt # Null /\ snd[p].buf[q].pktSent}

(***************************************************************************)
(* As long as something is unacknowledged, the slot after lastAcked is not *)
(* empty: no selective acknowledgement ever frees the packet that a triple *)
(* duplicate or a partial acknowledgement retransmits unconditionally.     *)
(***************************************************************************)
HeadHeld ==
    \A p \in Node :
        Outstanding(snd[p]) > 0 /\ ~snd[p].drained =>
            snd[p].buf[Plus(snd[p].lastAcked, 1)].pkt # Null

(***************************************************************************)
(* sendSeq returns without unlocking sendSeqLock when it finds an empty    *)
(* slot (NewChannelHandler.cc:629); no caller makes that happen. Does not  *)
(* hold once a channel dies in the middle of a batch of acknowledgements:  *)
(* see "Further disagreements" in the README.                              *)
(***************************************************************************)
NoLockLeak == \A p \in Node : snd[p].sendSeqLock = "free"

(***************************************************************************)
(* The two ends agree on the window although sequence numbers wrap: what   *)
(* the receiver expects next lies between the first unacknowledged packet  *)
(* and the one after the last sent, and no more than half of the sequence  *)
(* space is outstanding.                                                   *)
(***************************************************************************)
WindowsAgree ==
    \A p \in Node :
        /\ Dist(rcv[Peer(p)].expectedSeq, Plus(snd[p].lastAcked, 1)) <= InFlight(snd[p])
        /\ InFlight(snd[p]) <= Outstanding(snd[p])
        /\ Outstanding(snd[p]) <= SeqCnt \div 2

(***************************************************************************)
(* During fast recovery the packets still to be recovered are among those  *)
(* in flight: the loop over `recover` packets after a partial              *)
(* acknowledgement only meets packets whose timers run.                    *)
(***************************************************************************)
RecoverInFlight ==
    \A p \in Node :
        snd[p].status \in {"FAST_RECOVERY", "MULTI_RECOVERY"} =>
            snd[p].recover \in 1 .. InFlight(snd[p])

(***************************************************************************)
(* "After receiving the first partial new acknowledgment, the channel      *)
(* handler sends all the unacknowledged [...] packets for each duplicate   *)
(* ACK" (docs/protocol.html:147): a duplicate acknowledgement during       *)
(* MULTI_RECOVERY retransmits one of the packets of the lost burst as long *)
(* as one is left. Does not hold: see "Further disagreements" in the        *)
(* README.                                                                 *)
(***************************************************************************)
LeftOfBurst(p) ==
    LET s == snd[p] IN
    {q \in SeqNo : /\ s.buf[q].pkt # Null /\ q # Head(batch[p].acks).orig
                   /\ Dist(q, s.multiRecoverIndex) <= Dist(s.recoverIndex, s.multiRecoverIndex)
                   /\ Dist(s.recoverIndex, s.multiRecoverIndex) < SeqCnt \div 2}
DuplicateInRecovery(p) ==
    /\ batch[p].acks # <<>> /\ Relevant(p, Head(batch[p].acks))
    /\ snd[p].status = "MULTI_RECOVERY"
    /\ Head(batch[p].acks).ackNo = snd[p].lastAcked
    /\ snd[p].lastAcked # snd[p].maxSent
BurstIsRetransmitted ==
    [][\A p \in Node :
        AckRecv(p) /\ DuplicateInRecovery(p) /\ LeftOfBurst(p) # {} =>
            \E i \in Len(link[p]) + 1 .. Len(link'[p]) :
                link'[p][i].type = "DAT" /\ link'[p][i].seq \in LeftOfBurst(p)]_vars

(***************************************************************************)
(* ackRcvd_ suppresses retransmission, so it must only be set for a packet *)
(* the other end has ("just to a avoid retransmittion of received packet", *)
(* NewChannelHandler.cc:164). Does not hold once slots are used again: see *)
(* "Further disagreements" in the README.                                  *)
(***************************************************************************)
MarkedWasReceived ==
    \A p \in Node : \A q \in SeqNo :
        LET slot == snd[p].buf[q] IN
        slot.pkt # Null /\ slot.ackRcvd => passedUp[p][slot.pkt.id] > 0

(***************************************************************************)
(* When a dead channel has given its packets back, every packet it ever    *)
(* took was passed up at the other end or is among those given back, and   *)
(* no packet is left behind in its buffer.                                 *)
(***************************************************************************)
NothingLeftBehind ==
    \A p \in Node :
        snd[p].drained =>
            /\ \A q \in SeqNo : snd[p].buf[q].pkt = Null
            /\ \A i \in 0 .. snd[p].total - 1 :
                   passedUp[p][i] > 0 \/ i \in snd[p].undelivered

(***************************************************************************)
(* Every direction implements ReliableTransfer: packets are passed up at   *)
(* most once, and a packet leaves the sender's buffer only when it was     *)
(* passed up or went back to the scheduler.                                *)
(***************************************************************************)
HeldIds(s) == {s.buf[q].pkt.id : q \in {x \in SeqNo : s.buf[x].pkt # Null}}
RetiredIds(s) == (0 .. s.total - 1) \ (HeldIds(s) \cup s.undelivered)

Transfer == INSTANCE ReliableTransfer WITH
    sent <- [p \in Node |-> snd[p].total],
    retired <- [p \in Node |-> RetiredIds(snd[p])],
    returned <- [p \in Node |-> snd[p].undelivered]

ImplementsTransfer == Transfer!Spec

(***************************************************************************)
(* Closing is mutual: an end gets through shutDown only when its FLAG_CHF  *)
(* packet reached the other end, or after it has sent that packet more     *)
(* than three times without an answer.                                     *)
(***************************************************************************)
GaveUpOnChf(s) ==
    \E q \in SeqNo : s.buf[q].pkt # Null /\ s.buf[q].pkt.chf /\ s.buf[q].retryCnt > 3
CloseIsMutual ==
    \A p \in Node :
        ShutdownComplete(p) /\ ~snd[p].deadChannel =>
            snd[Peer(p)].shutDownRecv \/ GaveUpOnChf(snd[p])

(***************************************************************************)
(* Channels are reliable: once faults stop, everything a live channel took *)
(* is acknowledged.                                                        *)
(***************************************************************************)
EverythingAcked ==
    \A p \in Node : <>[](Outstanding(snd[p]) = 0 \/ snd[p].deadChannel)

(***************************************************************************)
(* An application that starts to close a channel gets through shutDown:    *)
(* the three flags it waits for are set, unless the channel dies.          *)
(***************************************************************************)
ShutdownTerminates ==
    \A p \in Node : shutting[p] ~> ShutdownComplete(p) \/ snd[p].deadChannel
=============================================================================
