-------------------------------- MODULE Flow --------------------------------
(***************************************************************************)
(* One flow of a connection: a NewFlowHandler at each end, and the part of *)
(* the Multiplexer that creates it, feeds it and forgets it. The channels  *)
(* below deliver every packet, in any order, and twice only if a channel   *)
(* died before its acknowledgement arrived.                                *)
(*                                                                         *)
(* Threads of an end, and their actions:                                   *)
(*   application      AddNewFlow, SendData, CloseFlow, GetNextSeqNo,       *)
(*                    CloseCheck, SendPacketTo, CloseInitiated, Closed,    *)
(*                    Forget                                               *)
(*   reader           AcceptFlow, StartRead, ReadData                      *)
(*   connection       RecvPacketFrom, SendClosePacket, RecvAck             *)
(*   channel threads  GetReceiverStatus                                    *)
(***************************************************************************)
EXTENDS Integers, FiniteSets

CONSTANTS
    Node,         \* the two ends
    Opener,       \* the end that opens the flow
    SeqCnt,       \* APP_INT16_CNT
    RecvWindow,   \* rcvWnd, 500 in the code
    ReadsPerControl,  \* a status goes out after more reads than this, 400
    MaxWrites,    \* bound: packets each application may send
    Closers,      \* the ends whose application calls closeFlow
    FaultKinds,   \* what may happen below, see the actions that name them
    MaxFaults,    \* bound: how often
    Null

ASSUME FlowAssumption ==
    /\ IsFiniteSet(Node) /\ Cardinality(Node) = 2 /\ Opener \in Node
    /\ SeqCnt \in Nat /\ SeqCnt % 4 = 0
    /\ RecvWindow \in Nat \ {0} /\ 4 * RecvWindow <= SeqCnt
    /\ ReadsPerControl \in Nat /\ ReadsPerControl < RecvWindow
    /\ MaxWrites \in [Node -> Nat] /\ Closers \subseteq Node
    /\ FaultKinds \subseteq {"duplicate", "status", "promptAnswer"} /\ MaxFaults \in Nat

VARIABLES
    flow,     \* flow[p]: the NewFlowHandler at p
    listed,   \* listed[p]: p's Multiplexer has it among its children
    created,  \* created[p]: how often recvPacketFrom made a new flow for it
    pending,  \* pending[p]: a new flow waits for acceptFlow
    app,      \* app[p]: where the application thread that sends and closes is
    reader,   \* reader[p]: the application thread that reads
    reads,    \* reads[p]: outPacketCount
    conn,     \* conn[p]: where p's connection thread is
    net,      \* net[p]: packets p gave to its channels, not yet delivered
    status,   \* status[p]: the readUpto values p announced
    written, lastRead, open,   \* history, see Stream
    faults    \* how many faults may still happen

threads == <<app, reader, conn>>
history == <<written, lastRead, open>>
vars == <<flow, listed, created, pending, threads, reads, net, status, history, faults>>

SeqNo == 0 .. SeqCnt - 1
Peer(p) == CHOOSE q \in Node : q # p
Dist(x, y) == (x - y) % SeqCnt
Plus(x, k) == (x + k) % SeqCnt

(* seq is header.flowSeqNo, ffn FLAG_FFN, id numbers the data packets.       *)
NewFlow == [
    nextSeqNumber |-> SeqCnt - 1, remoteFreeWindow |-> RecvWindow, ackedUpto |-> SeqCnt - 1,
    rcvPktQueue |-> [s \in SeqNo |-> Null], readUpto |-> SeqCnt - 1,
    availableUpTo |-> SeqCnt - 1, readSem |-> 0,
    closeInitiated |-> FALSE, closed |-> FALSE, closeSemaphore |-> 0 ]

Init ==
    /\ flow = [p \in Node |-> NewFlow]
    /\ listed = [p \in Node |-> FALSE]
    /\ created = [p \in Node |-> 0]
    /\ pending = [p \in Node |-> FALSE]
    /\ app = [p \in Node |-> [pc |-> "new", seq |-> 0, ffn |-> FALSE]]
    /\ reader = [p \in Node |-> "new"]
    /\ reads = [p \in Node |-> 0]
    /\ conn = [p \in Node |-> [pc |-> "idle", seq |-> 0]]
    /\ net = [p \in Node |-> {}]
    /\ status = [p \in Node |-> {}]
    /\ written = [p \in Node |-> 0]
    /\ lastRead = [p \in Node |-> 0]
    /\ open = [p \in Node |-> TRUE]
    /\ faults = MaxFaults

-----------------------------------------------------------------------------
(***************************************************************************)
(* A flow begins at one end with addNewFlow; at the other end the first    *)
(* packet makes it, and acceptFlow hands it to the application.            *)
(***************************************************************************)
AddNewFlow(p) ==
    /\ p = Opener /\ app[p].pc = "new"
    /\ listed' = [listed EXCEPT ![p] = TRUE]
    /\ app' = [app EXCEPT ![p].pc = "idle"]
    /\ reader' = [reader EXCEPT ![p] = "reading"]
    /\ UNCHANGED <<flow, created, pending, reads, conn, net, status, history, faults>>

AcceptFlow(p) ==
    /\ pending[p]
    /\ pending' = [pending EXCEPT ![p] = FALSE]
    /\ app' = [app EXCEPT ![p].pc = "idle"]
    /\ reader' = [reader EXCEPT ![p] = "reading"]
    /\ UNCHANGED <<flow, listed, created, reads, conn, net, status, history, faults>>

-----------------------------------------------------------------------------
(***************************************************************************)
(* Sending. getNextSeqNo is not protected: the application and, when the   *)
(* peer closes, the connection thread increment nextSeqNumber side by      *)
(* side. seq is the value a thread has computed and is about to store.     *)
(***************************************************************************)
NextNumber(p) == Plus(flow[p].nextSeqNumber, 1)

SendData(p) ==
    /\ app[p].pc = "idle" /\ written[p] < MaxWrites[p] /\ listed[p]
    /\ app' = [app EXCEPT ![p] = [pc |-> "number", seq |-> NextNumber(p), ffn |-> FALSE]]
    /\ UNCHANGED <<flow, listed, created, pending, reader, reads, conn, net, status, history, faults>>

(* closeFlow of multiplexer and flow: nothing to do for a flow that is gone, *)
(* or that the peer has closed.                                              *)
CloseFlow(p) ==
    /\ app[p].pc = "idle" /\ p \in Closers
    /\ app' = [app EXCEPT ![p] =
                IF ~listed[p] THEN [@ EXCEPT !.pc = "done"]
                ELSE IF flow[p].closed THEN [@ EXCEPT !.pc = "forget"]
                ELSE [pc |-> "number", seq |-> NextNumber(p), ffn |-> TRUE]]
    /\ open' = [open EXCEPT ![p] = FALSE]
    /\ UNCHANGED <<flow, listed, created, pending, reader, reads, conn, net, status,
                   written, lastRead, faults>>

GetNextSeqNo(p) ==
    /\ app[p].pc = "number"
    /\ flow' = [flow EXCEPT ![p].nextSeqNumber = app[p].seq]
    /\ app' = [app EXCEPT ![p].pc = IF app[p].ffn THEN "window" ELSE "check"]
    /\ UNCHANGED <<listed, created, pending, reader, reads, conn, net, status, history, faults>>

(* sendPacketToCloseCheck. A refused application stops sending.              *)
CloseCheck(p) ==
    /\ app[p].pc = "check"
    /\ app' = [app EXCEPT ![p].pc = IF flow[p].closeInitiated \/ flow[p].closed
                                    THEN "refused" ELSE "window"]
    /\ UNCHANGED <<flow, listed, created, pending, reader, reads, conn, net, status, history, faults>>

Data(p) == [seq |-> app[p].seq, ffn |-> FALSE, id |-> written[p] + 1]
Ffn(seq) == [seq |-> seq, ffn |-> TRUE, id |-> 0]

SendPacketTo(p) ==
    /\ app[p].pc = "window" /\ flow[p].remoteFreeWindow > 0
    /\ flow' = [flow EXCEPT ![p].remoteFreeWindow = @ - 1]
    /\ net' = [net EXCEPT ![p] = @ \cup {IF app[p].ffn THEN Ffn(app[p].seq) ELSE Data(p)}]
    /\ app' = [app EXCEPT ![p].pc = IF app[p].ffn THEN "flag" ELSE "idle"]
    /\ written' = [written EXCEPT ![p] = IF app[p].ffn THEN @ ELSE @ + 1]
    /\ UNCHANGED <<listed, created, pending, reader, reads, conn, status, lastRead, open, faults>>

(* Mutant of CloseInitiated: the flag stays FALSE.                           *)
CloseInitiatedForgotten(p) ==
    /\ app[p].pc = "flag"
    /\ app' = [app EXCEPT ![p].pc = "wait"]
    /\ UNCHANGED <<flow, listed, created, pending, reader, reads, conn, net, status, history, faults>>

CloseInitiated(p) ==
    /\ app[p].pc = "flag"
    /\ flow' = [flow EXCEPT ![p].closeInitiated = TRUE]
    /\ app' = [app EXCEPT ![p].pc = "wait"]
    /\ UNCHANGED <<listed, created, pending, reader, reads, conn, net, status, history, faults>>

Closed(p) ==
    /\ app[p].pc = "wait" /\ flow[p].closeSemaphore > 0
    /\ flow' = [flow EXCEPT ![p].closeSemaphore = @ - 1]
    /\ app' = [app EXCEPT ![p].pc = "forget"]
    /\ UNCHANGED <<listed, created, pending, reader, reads, conn, net, status, history, faults>>

(* Multiplexer::closeFlow erases the child.                                  *)
Forget(p) ==
    /\ app[p].pc = "forget"
    /\ listed' = [listed EXCEPT ![p] = FALSE]
    /\ app' = [app EXCEPT ![p].pc = "done"]
    /\ UNCHANGED <<flow, created, pending, reader, reads, conn, net, status, history, faults>>

-----------------------------------------------------------------------------
(***************************************************************************)
(* Receiving. Store files the packet and moves availableUpTo over the      *)
(* packets that are in order now, up to the first FLAG_FFN.                *)
(***************************************************************************)
(* Mutant of IsDuplicate: packets that were read already are not recognised. *)
IsDuplicateOnlyStored(f, m) == f.rcvPktQueue[m.seq] # Null

IsDuplicate(f, m) ==
    \/ Dist(m.seq, Plus(f.readUpto, 1)) > SeqCnt \div 4 + SeqCnt \div 2
    \/ f.rcvPktQueue[m.seq] # Null

(* Mutant of Store: packets become available in the order they arrive in.    *)
StoreAsArrived(f, m) ==
    [f EXCEPT !.rcvPktQueue[Plus(f.availableUpTo, 1)] = m,
              !.availableUpTo = Plus(@, 1), !.readSem = @ + 1]

Store(f, m) ==
    LET queue == [f.rcvPktQueue EXCEPT ![m.seq] = m]
        At(k) == queue[Plus(f.availableUpTo, k)]
        run == CHOOSE n \in 0 .. SeqCnt - 1 :
                  /\ \A k \in 1 .. n : At(k) # Null
                  /\ \A k \in 1 .. n - 1 : ~At(k).ffn
                  /\ \/ n > 0 /\ At(n).ffn
                     \/ At(n + 1) = Null
    IN  [f EXCEPT !.rcvPktQueue = queue,
                  !.availableUpTo = Plus(@, run),
                  !.readSem = @ + run]

(* The packet that Store made available last is FLAG_FFN.                    *)
ReachedFfn(f, m) ==
    LET g == Store(f, m) IN
    g.availableUpTo # f.availableUpTo /\ g.rcvPktQueue[g.availableUpTo].ffn

(* Mutants of Accept: nobody wakes closeFlow; the reader is told of FLAG_FFN *)
(* before the answer is sent.                                                *)
AcceptSilently(f, m) ==
    IF ~ReachedFfn(f, m) THEN Store(f, m)
    ELSE IF f.closeInitiated THEN [Store(f, m) EXCEPT !.closed = TRUE]
         ELSE [Store(f, m) EXCEPT !.readSem = @ - 1]
AcceptTellsEarly(f, m) ==
    IF ReachedFfn(f, m) /\ f.closeInitiated
    THEN [Store(f, m) EXCEPT !.closed = TRUE, !.closeSemaphore = @ + 1]
    ELSE Store(f, m)

(* FLAG_FFN answers our own close, or sendClosePacket answers it first, under *)
(* readLock: the reader hears of it when that is done.                       *)
Accept(f, m) ==
    IF ~ReachedFfn(f, m) THEN Store(f, m)
    ELSE IF f.closeInitiated
         THEN [Store(f, m) EXCEPT !.closed = TRUE, !.closeSemaphore = @ + 1]
         ELSE [Store(f, m) EXCEPT !.readSem = @ - 1]

(* Multiplexer::recvPacketFrom. A packet for a flow that is not listed makes *)
(* a new one; a second one for the same id is only counted. An answer takes  *)
(* a round trip, closeFlow a moment to set its flag: that the answer comes   *)
(* first is a fault of its own, "promptAnswer".                              *)
RecvPacketFrom(p, m) ==
    LET isNew == ~listed[p] /\ p # Opener /\ created[p] = 0
        answers == ReachedFfn(flow[p], m) /\ ~flow[p].closeInitiated
    IN
    /\ conn[p].pc = "idle" /\ m \in net[Peer(p)]
    /\ app[p].pc # "flag" \/ "promptAnswer" \in FaultKinds
    /\ \/ net' = [net EXCEPT ![Peer(p)] = @ \ {m}] /\ UNCHANGED faults
       \/ "duplicate" \in FaultKinds /\ faults > 0 /\ faults' = faults - 1 /\ UNCHANGED net
    /\ created' = [created EXCEPT ![p] = IF listed[p] THEN @ ELSE @ + 1]
    /\ listed' = [listed EXCEPT ![p] = @ \/ isNew]
    /\ pending' = [pending EXCEPT ![p] = @ \/ isNew]
    /\ IF (listed[p] \/ isNew) /\ ~IsDuplicate(flow[p], m)
       THEN /\ flow' = [flow EXCEPT ![p] = Accept(@, m)]
            /\ conn' = [conn EXCEPT ![p] = IF answers THEN [pc |-> "number", seq |-> NextNumber(p)]
                                           ELSE @]
       ELSE UNCHANGED <<flow, conn>>
    /\ UNCHANGED <<app, reader, reads, status, history>>

(* sendClosePacket on the connection thread: the number, then the window.    *)
NumberAnswer(p) ==
    /\ conn[p].pc = "number"
    /\ flow' = [flow EXCEPT ![p].nextSeqNumber = conn[p].seq]
    /\ conn' = [conn EXCEPT ![p].pc = "window"]
    /\ UNCHANGED <<listed, created, pending, app, reader, reads, net, status, history, faults>>

SendClosePacket(p) ==
    /\ conn[p].pc = "window" /\ flow[p].remoteFreeWindow > 0
    /\ flow' = [flow EXCEPT ![p].remoteFreeWindow = @ - 1, ![p].closed = TRUE,
                            ![p].readSem = @ + 1]
    /\ net' = [net EXCEPT ![p] = @ \cup {Ffn(conn[p].seq)}]
    /\ conn' = [conn EXCEPT ![p] = [pc |-> "idle", seq |-> 0]]
    /\ UNCHANGED <<listed, created, pending, app, reader, reads, status, history, faults>>

-----------------------------------------------------------------------------
(***************************************************************************)
(* Reading. Statuses carry readUpto to the peer, which may then send more. *)
(* A status may be overtaken, but not by half the sequence space.          *)
(***************************************************************************)
(* Mutant of Announce: a status without the flow in it.                      *)
AnnounceNothing(p, upTo) == status[p]

Announce(p, upTo) ==
    {v \in status[p] : Dist(upTo, v) < SeqCnt \div 2} \cup {upTo}

(* Multiplexer::readData finds the flow, then waits in it. After the last    *)
(* packet the flow is forgotten, and every so often the status of the listed *)
(* flows is sent.                                                            *)
StartRead(p) ==
    /\ reader[p] = "reading"
    /\ reader' = [reader EXCEPT ![p] = IF listed[p] THEN "waiting" ELSE "failed"]
    /\ UNCHANGED <<flow, listed, created, pending, app, reads, conn, net, status, history, faults>>

ReadData(p) ==
    LET f == flow[p]
        m == f.rcvPktQueue[Plus(f.readUpto, 1)]
        byClose == f.closeInitiated /\ f.closed
        upTo == IF byClose THEN f.readUpto ELSE Plus(f.readUpto, 1)
        over == byClose \/ m.ffn
        announces == reads[p] + 1 > ReadsPerControl
    IN
    /\ reader[p] = "waiting" /\ f.readSem > 0 /\ conn[p].pc = "idle"
    /\ flow' = [flow EXCEPT ![p].readSem = @ - 1, ![p].readUpto = upTo,
                            ![p].rcvPktQueue = IF byClose THEN @ ELSE [@ EXCEPT ![upTo] = Null]]
    /\ reader' = [reader EXCEPT ![p] = IF over THEN "ended" ELSE "reading"]
    /\ listed' = [listed EXCEPT ![p] = @ /\ ~over]
    /\ lastRead' = [lastRead EXCEPT ![Peer(p)] = IF over THEN @ ELSE m.id]
    /\ reads' = [reads EXCEPT ![p] = IF announces THEN 0 ELSE @ + 1]
    /\ status' = [status EXCEPT ![p] = IF announces /\ ~over THEN Announce(p, upTo) ELSE @]
    /\ UNCHANGED <<created, pending, app, conn, net, written, open, faults>>

(* sendAck puts the status on an acknowledgement now and then.               *)
GetReceiverStatus(p) ==
    /\ "status" \in FaultKinds /\ faults > 0 /\ faults' = faults - 1
    /\ listed[p] /\ flow[p].readUpto \notin status[p]
    /\ status' = [status EXCEPT ![p] = Announce(p, flow[p].readUpto)]
    /\ UNCHANGED <<flow, listed, created, pending, threads, reads, net, history>>

(* Mutant of Acknowledge: a status that was overtaken counts.                *)
AcknowledgeStale(f, upTo) ==
    [f EXCEPT !.ackedUpto = upTo, !.remoteFreeWindow = @ + Dist(upTo, f.ackedUpto)]

Acknowledge(f, upTo) ==
    LET n == Dist(upTo, f.ackedUpto) IN
    IF n > RecvWindow THEN f
    ELSE [f EXCEPT !.ackedUpto = upTo, !.remoteFreeWindow = @ + n]

RecvAck(p, upTo) ==
    /\ conn[p].pc = "idle" /\ upTo \in status[Peer(p)]
    /\ status' = [status EXCEPT ![Peer(p)] = @ \ {upTo}]
    /\ flow' = [flow EXCEPT ![p] = IF listed[p] THEN Acknowledge(@, upTo) ELSE @]
    /\ UNCHANGED <<listed, created, pending, threads, reads, net, history, faults>>

-----------------------------------------------------------------------------
Application(p) ==
    \/ GetNextSeqNo(p) \/ CloseCheck(p) \/ SendPacketTo(p)
    \/ CloseInitiated(p) \/ Closed(p) \/ Forget(p)

Receiving(p) ==
    \/ \E m \in net[Peer(p)] : RecvPacketFrom(p, m)
    \/ \E v \in status[Peer(p)] : RecvAck(p, v)
    \/ NumberAnswer(p) \/ SendClosePacket(p)

Next ==
    \E p \in Node :
        \/ AddNewFlow(p) \/ AcceptFlow(p) \/ SendData(p) \/ CloseFlow(p)
        \/ Application(p) \/ Receiving(p)
        \/ StartRead(p) \/ ReadData(p) \/ GetReceiverStatus(p)

Spec == Init /\ [][Next]_vars

(* Threads keep running, packets arrive, the applications accept and read;   *)
(* they need not open, send or close.                                        *)
Fairness ==
    \A p \in Node :
        /\ WF_vars(AcceptFlow(p)) /\ WF_vars(Application(p))
        /\ WF_vars(Receiving(p)) /\ WF_vars(StartRead(p) \/ ReadData(p))

FairSpec == Spec /\ Fairness

-----------------------------------------------------------------------------
(* Type invariant.                                                           *)
Packet == [seq : SeqNo, ffn : BOOLEAN, id : Nat]

TypeOK ==
    /\ \A p \in Node :
        /\ flow[p].nextSeqNumber \in SeqNo /\ flow[p].ackedUpto \in SeqNo
        /\ flow[p].readUpto \in SeqNo /\ flow[p].availableUpTo \in SeqNo
        /\ flow[p].remoteFreeWindow \in 0 .. RecvWindow
        /\ flow[p].readSem \in 0 .. SeqCnt /\ flow[p].closeSemaphore \in 0 .. 1
        /\ \A s \in SeqNo : flow[p].rcvPktQueue[s] \in {Null} \/ flow[p].rcvPktQueue[s] \in Packet
        /\ app[p].pc \in {"new", "idle", "number", "check", "window", "refused", "flag", "wait",
                          "forget", "done"}
        /\ conn[p].pc \in {"idle", "number", "window"}
        /\ reader[p] \in {"new", "reading", "waiting", "ended", "failed"}
        /\ net[p] \subseteq Packet /\ status[p] \subseteq SeqNo
        /\ reads[p] \in 0 .. ReadsPerControl
    /\ listed \in [Node -> BOOLEAN] /\ pending \in [Node -> BOOLEAN]
    /\ created \in [Node -> Nat] /\ faults \in 0 .. MaxFaults

(***************************************************************************)
(* What the sender may send (remoteFreeWindow, ackedUpto) and what the     *)
(* receiver has read agree though statuses are lost and overtaken and      *)
(* numbers wrap: every packet on its way fits the receive window or is     *)
(* recognised as a duplicate, so that APP_ASSERT(virSeqNo <=               *)
(* APP_INT16_CNT/2) never fails, and so does every packet that is kept.    *)
(***************************************************************************)
WindowRespected ==
    \A p \in Node :
        LET virSeqNo(s) == Dist(s, Plus(flow[p].readUpto, 1)) IN
        /\ \A m \in net[Peer(p)] : \/ virSeqNo(m.seq) < RecvWindow
                                  \/ virSeqNo(m.seq) > SeqCnt \div 4 + SeqCnt \div 2
        /\ \A s \in SeqNo : flow[p].rcvPktQueue[s] # Null => virSeqNo(s) < RecvWindow

(***************************************************************************)
(* readSem counts the packets between readUpto and availableUpTo, so a     *)
(* reader that gets through finds one: APP_ASSERT(readUpto !=              *)
(* availableUpTo) and APP_ASSERT(rcvPktQueue[nextPkt]) never fail.         *)
(***************************************************************************)
ReaderFindsPacket ==
    \A p \in Node :
        LET f == flow[p]
            ready == Dist(f.availableUpTo, f.readUpto) IN
        /\ \A k \in 1 .. ready : f.rcvPktQueue[Plus(f.readUpto, k)] # Null
        /\ reader[p] # "ended" =>
              f.readSem = ready - (IF conn[p].pc = "idle" THEN 0 ELSE 1)

(***************************************************************************)
(* A flow is made once: no packet arrives for one that the multiplexer has *)
(* forgotten, to be taken for the first packet of a new flow.              *)
(***************************************************************************)
NoGhostFlow == \A p \in Node : created[p] <= IF p = Opener THEN 0 ELSE 1

(***************************************************************************)
(* The flow implements Stream: in order, each packet once, nothing left    *)
(* out, and the end reported only when it may be.                          *)
(***************************************************************************)
Streams == INSTANCE Stream WITH ended <- [p \in Node |-> reader[Peer(p)] = "ended"]
ImplementsStream == Streams!Spec

(***************************************************************************)
(* sendData returns, however full the window was, and what was written is  *)
(* read, unless the reader's own side closes the flow.                     *)
(***************************************************************************)
Sending(p) == app[p].pc \in {"number", "check", "window"}
EverythingRead ==
    \A p \in Node :
        <>[]((~Sending(p) /\ lastRead[p] = written[p]) \/ ~open[Peer(p)])

(***************************************************************************)
(* closeFlow returns.                                                      *)
(***************************************************************************)
CloseReturns == \A p \in Node : ~open[p] ~> app[p].pc = "done"
=============================================================================
