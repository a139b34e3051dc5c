---------------------------- MODULE StreamHandler ---------------------------
(***************************************************************************)
(* FlowHandler::StreamHandler, the flow handler of getNewConnection that   *)
(* is not the default.  Data goes to a callback, in order, on the thread   *)
(* that received the packet; the sender may be RECV_BUFFER packets ahead   *)
(* of what the peer has announced.  A channel delivers each packet once,   *)
(* in any order.                                                           *)
(*                                                                         *)
(* Conditions the code does not provide for, each a member of StreamFaults:*)
(*   "skip"       a readUpto is overtaken by the next before it is sent    *)
(*   "gap"        a thread found no room and does not wait yet             *)
(*   "late"       the callback is set after packets have arrived           *)
(*   "crossing"   the peer's FLAG_FFN arrives while our own is being sent  *)
(*   "midSend"    the peer closes while the application is in sendData:   *)
(*                the application and the worker may take the same number, *)
(*                one announcement wakes only one of them, and what the    *)
(*                application sends behind the answer is never announced   *)
(*   "twice"      a packet is delivered twice                              *)
(*   "forgotten"  the application closes a flow while the worker waits for *)
(*                room to answer the peer: the flow is gone then, and no   *)
(*                announcement wakes the worker                            *)
(***************************************************************************)
EXTENDS ConditionalWait, Integers, FiniteSets

CONSTANTS Side,         \* the two ends
          FlowSeqCnt,   \* APP_INT16_CNT
          RecvBuffer,   \* RECV_BUFFER (5000)
          StreamWrites, \* bound: packets each application may send
          StreamClosers,  \* the ends whose application calls closeFlow
          StreamFaults

StreamHandlerAssumption ==
  /\ Cardinality(Side) = 2 /\ StreamClosers \subseteq Side
  /\ FlowSeqCnt \in Nat /\ FlowSeqCnt % 2 = 0
  /\ RecvBuffer \in Nat \ {0} /\ 2 * RecvBuffer <= FlowSeqCnt
  /\ StreamWrites \in [Side -> Nat]
  /\ StreamFaults \subseteq {"skip", "gap", "late", "crossing", "midSend", "twice", "forgotten"}
ASSUME StreamHandlerAssumption

VARIABLES stream,      \* the StreamHandler of each end
          sender,       \* the two threads of an end that send: "app" and the worker
          onWire,       \* packets of each end that its peer has not received
          announced,    \* readUpto values of each end that its peer has not received
          unsaid,       \* how many values of readPacketUpto each end has not announced
          put,          \* history: data packets each end sent
          atClose,      \* how many of them before its first FLAG_FFN, or -1
          calledBack,   \* how many of the peer's packets each end's callback got
          inOrder       \* each end's callback got them in the order they were sent

streamVars == <<stream, sender, onWire, announced, unsaid, put, atClose, calledBack, inOrder>>

SeqNos == 0 .. FlowSeqCnt - 1
Opposite(p) == CHOOSE o \in Side : o # p
Mod(n) == n % FlowSeqCnt
Threads2 == {"app", "job"}

Handler0 ==
  [nextSeqNumber |-> FlowSeqCnt - 1, acked |-> [s \in SeqNos |-> FALSE],
   recvAckedPacketOffset |-> 0, queue |-> [s \in SeqNos |-> -1],
   readPacketUpto |-> FlowSeqCnt - 1, callback |-> FALSE, listed |-> TRUE,
   connectionClosed |-> FALSE, closingInitiated |-> FALSE,
   waitForSenderSlot |-> NobodyWaits, waitForCloseReport |-> 0]

StreamInit ==
  /\ stream = [p \in Side |-> Handler0]
  /\ sender = [p \in Side |-> [th \in Threads2 |->
       [pc |-> IF th = "app" THEN "idle" ELSE "none", seq |-> 0, id |-> 0]]]
  /\ onWire = [p \in Side |-> {}] /\ announced = [p \in Side |-> {}]
  /\ unsaid = [p \in Side |-> 0] /\ put = [p \in Side |-> 0] /\ atClose = [p \in Side |-> -1]
  /\ calledBack = [p \in Side |-> 0] /\ inOrder = [p \in Side |-> TRUE]

-----------------------------------------------------------------------------
\* A packet is a number of data, or 0 for FLAG_FFN.
Allowed(fault, ok) == fault \in StreamFaults \/ ok

SetCallBack(p) ==
  /\ ~stream[p].callback /\ stream' = [stream EXCEPT ![p].callback = TRUE]
  /\ UNCHANGED <<sender, onWire, announced, put, atClose, calledBack, inOrder, unsaid>>

\* sendData, a packet at a time, and closeFlow, which stops at a flow that is closed.
CallSendData(p) ==
  /\ sender[p]["app"].pc = "idle" /\ put[p] < StreamWrites[p] /\ stream[p].listed
  /\ Allowed("midSend", ~stream[p].connectionClosed)
  /\ put' = [put EXCEPT ![p] = @ + 1]
  /\ sender' = [sender EXCEPT ![p]["app"] = [pc |-> "number", seq |-> 0, id |-> put[p] + 1]]
  /\ UNCHANGED <<stream, onWire, announced, atClose, calledBack, inOrder, unsaid>>

CallCloseFlow(p) ==
  /\ sender[p]["app"].pc = "idle" /\ p \in StreamClosers
  /\ Allowed("forgotten", sender[p]["job"].pc \in {"none", "done"})
  /\ IF stream[p].connectionClosed
       THEN /\ sender' = [sender EXCEPT ![p]["app"].pc = "closed"]
            /\ stream' = [stream EXCEPT ![p].listed = FALSE]
       ELSE /\ sender' = [sender EXCEPT ![p]["app"] = [pc |-> "number", seq |-> 0, id |-> 0]]
            /\ UNCHANGED stream
  /\ UNCHANGED <<onWire, announced, put, atClose, calledBack, inOrder, unsaid>>

\* getNextSeqNo increments without a lock: read, then write.
ReadSeqNo(p, th) ==
  /\ sender[p][th].pc = "number"
  /\ Allowed("midSend", \A o \in Threads2 : sender[p][o].pc # "store")
  /\ sender' = [sender EXCEPT ![p][th].pc = "store", ![p][th].seq = Mod(stream[p].nextSeqNumber + 1)]
  /\ UNCHANGED <<stream, onWire, announced, put, atClose, calledBack, inOrder, unsaid>>

StoreSeqNo(p, th) ==
  /\ sender[p][th].pc = "store"
  /\ stream' = [stream EXCEPT ![p].nextSeqNumber = sender[p][th].seq]
  /\ sender' = [sender EXCEPT ![p][th].pc = "window"]
  /\ atClose' = [atClose EXCEPT ![p] =
       IF sender[p][th].id = 0 /\ @ = -1 THEN put[p] ELSE @]
  /\ UNCHANGED <<onWire, announced, put, calledBack, inOrder, unsaid>>

\* Mutant of HasRoom: one packet too many.
HasRoomOver(h, seq) == Mod(seq - h.recvAckedPacketOffset) <= RecvBuffer

HasRoom(h, seq) == Mod(seq - h.recvAckedPacketOffset) < RecvBuffer

\* sendPacketTo waits once, and does not look again when it is woken.
TestWindow(p, th) ==
  /\ sender[p][th].pc = "window"
  /\ sender' = [sender EXCEPT ![p][th].pc =
       IF HasRoom(stream[p], sender[p][th].seq) THEN "send" ELSE "noRoom"]
  /\ UNCHANGED <<stream, onWire, announced, put, atClose, calledBack, inOrder, unsaid>>

WaitForSlot(p, th) ==
  /\ \/ /\ sender[p][th].pc = "noRoom"
        /\ stream' = [stream EXCEPT ![p].waitForSenderSlot = Announce(@)]
        /\ sender' = [sender EXCEPT ![p][th].pc = "asleep"]
     \/ /\ sender[p][th].pc = "asleep" /\ Woken(stream[p].waitForSenderSlot)
        /\ stream' = [stream EXCEPT ![p].waitForSenderSlot = Awake(@)]
        /\ sender' = [sender EXCEPT ![p][th].pc = "send"]
  /\ UNCHANGED <<onWire, announced, put, atClose, calledBack, inOrder, unsaid>>

SendNow(p, th) ==
  LET s == sender[p][th] IN
  /\ s.pc = "send"
  /\ stream' = [stream EXCEPT ![p].acked[s.seq] = FALSE]
  /\ onWire' = [onWire EXCEPT ![p] = @ \cup {[seq |-> s.seq, id |-> s.id]}]
  /\ sender' = [sender EXCEPT ![p][th].pc =
       IF s.id > 0 THEN "idle" ELSE IF th = "app" THEN "flag" ELSE "forget"]
  /\ UNCHANGED <<announced, put, atClose, calledBack, inOrder, unsaid>>

SetClosing(p) ==
  /\ sender[p]["app"].pc = "flag"
  /\ stream' = [stream EXCEPT ![p].closingInitiated = TRUE]
  /\ sender' = [sender EXCEPT ![p]["app"].pc = "report"]
  /\ UNCHANGED <<onWire, announced, put, atClose, calledBack, inOrder, unsaid>>

\* closeFlow of the multiplexer calls closeFlow again, which stops at closingMutex:
\* its own thread holds that.
Reported(p) ==
  /\ sender[p]["app"].pc = "report" /\ stream[p].waitForCloseReport > 0
  /\ stream' = [stream EXCEPT ![p].waitForCloseReport = @ - 1]
  /\ sender' = [sender EXCEPT ![p]["app"].pc = "locked"]
  /\ UNCHANGED <<onWire, announced, put, atClose, calledBack, inOrder, unsaid>>

\* The worker has answered a close: the multiplexer forgets the flow.
ForgetFlow(p) ==
  /\ sender[p]["job"].pc = "forget"
  /\ sender' = [sender EXCEPT ![p]["job"].pc = "done"]
  /\ stream' = [stream EXCEPT ![p].listed = FALSE]
  /\ UNCHANGED <<onWire, announced, put, atClose, calledBack, inOrder, unsaid>>

-----------------------------------------------------------------------------
\* Too far behind, or there already.
Old(h, m) == Mod(m.seq - h.readPacketUpto) > FlowSeqCnt \div 2 \/ h.queue[m.seq] # -1

\* Numbers of the packets that are called back now: the first FLAG_FFN ends the loop.
Sequence(h, queue) ==
  LET at(k) == queue[Mod(h.readPacketUpto + k)]
      n == CHOOSE k \in 0 .. FlowSeqCnt - 1 :
             /\ \A i \in 1 .. k : at(i) # -1
             /\ \A i \in 1 .. k - 1 : at(i) # 0
             /\ (k > 0 /\ at(k) = 0) \/ at(k + 1) = -1
  IN IF h.callback THEN [i \in 1 .. n |-> at(i)] ELSE <<>>

Sending == {"number", "store", "window", "noRoom", "asleep", "send", "flag"}
InSendData(p) == sender[p]["app"].id > 0 /\ sender[p]["app"].pc \in Sending
InSendClosePacket(p) == sender[p]["app"].id = 0 /\ sender[p]["app"].pc \in Sending

\* finishClosing: the peer answered our close, or has closed and the worker answers.
\* Mutant of FinishClosing: the report is for a close that came from the peer.
FinishClosingOther(h) ==
  [h EXCEPT !.connectionClosed = TRUE,
            !.waitForCloseReport = IF h.closingInitiated THEN @ ELSE @ + 1]

FinishClosing(h) ==
  [h EXCEPT !.connectionClosed = TRUE,
            !.waitForCloseReport = IF h.closingInitiated THEN @ + 1 ELSE @]

RunInThreadPool(p) ==
  [sender EXCEPT ![p]["job"] = [pc |-> "number", seq |-> 0, id |-> 0]]

(* recvPacketFrom.                                                            *)
RecvPacket(p, m) ==
  LET h == stream[p]
      queue == [h.queue EXCEPT ![m.seq] = m.id]
      run == Sequence(h, queue)
      n == Cardinality(DOMAIN run)
      finish == n > 0 /\ run[n] = 0
      data == IF finish THEN n - 1 ELSE n
      kept == [h EXCEPT
        !.queue = [s \in SeqNos |-> IF Mod(s - h.readPacketUpto) \in 1 .. n THEN -1 ELSE queue[s]],
        !.readPacketUpto = Mod(@ + n)]
  IN
  /\ m \in onWire[Opposite(p)] /\ h.listed
  /\ \E gone \in IF "twice" \in StreamFaults THEN {{}, {m}} ELSE {{m}} :
       onWire' = [onWire EXCEPT ![Opposite(p)] = @ \ gone]
  /\ Allowed("late", h.callback)
  /\ Allowed("midSend", finish => ~InSendData(p))
  /\ Allowed("crossing", ~InSendClosePacket(p))
  /\ IF h.connectionClosed \/ Old(h, m)
     THEN UNCHANGED <<stream, sender, unsaid, calledBack, inOrder>>
     ELSE /\ stream' = [stream EXCEPT ![p] =
               IF finish THEN FinishClosing(kept) ELSE kept]
          /\ sender' = IF finish /\ ~h.closingInitiated
                         THEN RunInThreadPool(p) ELSE sender
          /\ unsaid' = [unsaid EXCEPT ![p] = @ + n]
          /\ calledBack' = [calledBack EXCEPT ![p] = @ + data]
          /\ inOrder' = [inOrder EXCEPT ![p] =
               @ /\ \A i \in 1 .. data : run[i] = calledBack[p] + i]
  /\ UNCHANGED <<announced, put, atClose>>

\* The multiplexer puts getReadUpto on acknowledgements and control packets: each
\* value in turn, or the latest only ("skip").
AnnounceRead(p) ==
  /\ stream[p].listed /\ unsaid[p] > 0
  /\ \E left \in IF "skip" \in StreamFaults THEN {0, unsaid[p] - 1} ELSE {unsaid[p] - 1} :
       /\ unsaid' = [unsaid EXCEPT ![p] = left]
       /\ announced' = [announced EXCEPT ![p] = @ \cup {Mod(stream[p].readPacketUpto - left)}]
  /\ UNCHANGED <<stream, sender, onWire, put, atClose, calledBack, inOrder>>

\* recvAck(flowId, flowSeqNo): only the bit of that number is set.
Acked(h, s) ==
  LET acked == [h.acked EXCEPT ![s] = TRUE]
      n == CHOOSE k \in 0 .. FlowSeqCnt : /\ \A i \in 0 .. k - 1 : acked[Mod(h.recvAckedPacketOffset + i)]
                                          /\ k < FlowSeqCnt => ~acked[Mod(h.recvAckedPacketOffset + k)]
  IN IF Mod(s - h.recvAckedPacketOffset) >= FlowSeqCnt \div 2 THEN h
     ELSE [h EXCEPT !.acked = [x \in SeqNos |-> acked[x] /\ Mod(x - h.recvAckedPacketOffset) >= n],
                    !.recvAckedPacketOffset = Mod(@ + n),
                    !.waitForSenderSlot = IF n > 0 THEN NotifyOne(@) ELSE @]

RecvReadUpto(p, s) ==
  /\ s \in announced[Opposite(p)] /\ stream[p].listed
  /\ Allowed("gap", \A th \in Threads2 : sender[p][th].pc # "noRoom")
  /\ announced' = [announced EXCEPT ![Opposite(p)] = @ \ {s}]
  /\ stream' = [stream EXCEPT ![p] = Acked(@, s)]
  /\ UNCHANGED <<sender, onWire, put, atClose, calledBack, inOrder, unsaid>>

SenderRuns(p, th) ==
  ReadSeqNo(p, th) \/ StoreSeqNo(p, th) \/ TestWindow(p, th) \/ WaitForSlot(p, th) \/ SendNow(p, th)
StreamRun ==
  \E p \in Side :
    \/ SetCallBack(p) \/ SetClosing(p) \/ Reported(p) \/ ForgetFlow(p) \/ AnnounceRead(p)
    \/ \E th \in Threads2 : SenderRuns(p, th)
    \/ \E m \in onWire[Opposite(p)] : RecvPacket(p, m)
    \/ \E s \in announced[Opposite(p)] : RecvReadUpto(p, s)
StreamNext == StreamRun \/ \E p \in Side : CallSendData(p) \/ CallCloseFlow(p)

\* Threads run and packets arrive; applications need not send or close.
StreamSpec == StreamInit /\ [][StreamNext]_streamVars
StreamFairSpec == StreamSpec /\ WF_streamVars(StreamRun)

-----------------------------------------------------------------------------
\* The callback gets the packets in the order they were sent and none is left out,
\* all of them before the close; and a packet on its way is at most RECV_BUFFER ahead
\* of what its receiver has read.
StreamInOrder ==
  \A p \in Side :
    LET o == Opposite(p) IN
    /\ inOrder[p] /\ calledBack[p] <= put[o]
    /\ stream[p].connectionClosed => calledBack[p] = atClose[o]
    /\ \A m \in onWire[o] : ~stream[p].connectionClosed =>
         Mod(m.seq - stream[p].readPacketUpto) \in 1 .. RecvBuffer

\* Everything sent before a close reaches the callback, and a close is reported to
\* the application that called it.
StreamDone ==
  \A p \in Side :
    /\ sender[p]["app"].pc \in {"idle", "locked", "closed"} /\ sender[p]["job"].pc \in {"none", "done"}
    /\ calledBack[Opposite(p)] = IF atClose[p] = -1 THEN put[p] ELSE atClose[p]
StreamCompletes == <>[]StreamDone
=============================================================================
