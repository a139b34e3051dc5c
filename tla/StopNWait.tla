------------------------------ MODULE StopNWait -----------------------------
(***************************************************************************)
(* StopNWait, the first flow handler, which the Makefile no longer builds. *)
(* One packet is under way in each direction at a time: the head of the    *)
(* sender's list goes out again with everything that is sent, until its    *)
(* acknowledgement comes.  sendData appends to the list and waits when it  *)
(* holds two.  Both ends send, acknowledge and close; a packet carries the *)
(* head and an acknowledgement together.                                   *)
(*                                                                         *)
(* Conditions the code does not provide for, each a member of StopFaults:  *)
(*   "gap"      bufferLen is changed under sendDataLock and tested behind  *)
(*              it: an acknowledgement comes between a push and its test,  *)
(*              or a push between an acknowledgement and its test.  The    *)
(*              semaphore keeps a post that nobody waited for, and the     *)
(*              list grows beyond two                                      *)
(*   "midSend"  the peer's FLAG_FFN comes between the number of a buffer   *)
(*              and its place in the list: the answer gets the next number *)
(*              and an earlier place                                       *)
(*   "lose"     a packet is lost.  Data is sent again, but what was        *)
(*              accepted is never acknowledged a second time               *)
(*   "wrap"     a copy is still under way when its number comes again      *)
(* An end that closes or answers a close before it has sent data is mute:  *)
(* its FLAG_FFN is not marked as a first packet, and the peer takes        *)
(* nothing from it.                                                        *)
(* A thread that builds a packet from the head while recvPacketFrom        *)
(* deletes it is left out: sendPacketLock does not cover the list.         *)
(***************************************************************************)
EXTENDS Integers, Sequences, FiniteSets

CONSTANTS StopEnd,      \* the two ends
          StopSeqCnt,   \* APP_INT16_CNT
          StopWrites,   \* bound: data packets of each end
          StopClosers,  \* the ends whose application calls closeFlow
          StopFaults,
          MaxStopFaults \* bound: overtakings, early timeouts and losses

StopNWaitAssumption ==
  /\ Cardinality(StopEnd) = 2 /\ StopClosers \subseteq StopEnd
  /\ StopSeqCnt \in Nat \ 0 .. 2
  /\ StopWrites \in [StopEnd -> Nat] /\ MaxStopFaults \in Nat
  /\ StopFaults \subseteq {"overtake", "early", "gap", "midSend", "lose", "wrap"}
ASSUME StopNWaitAssumption

VARIABLES snw,       \* the StopNWait of each end
          snwApp,    \* the application thread of each end, in sendData or closeFlow
          snwConn,   \* the connection thread of each end, in recvPacketFrom
          snwNet,    \* packets of each end that its peer has not received
          numbered,  \* history: data packets of each end
          mute,      \* history: an end whose first number went to FLAG_FFN
          taken,     \* history: the peer's packets in receiveData, in order
          snwFaults  \* history: faults so far

snwVars == <<snw, snwApp, snwConn, snwNet, numbered, mute, taken, snwFaults>>

Partner(p) == CHOOSE o \in StopEnd : o # p
StopAllowed(fault, ok) == fault \in StopFaults \/ ok

\* A SendBuffer.  Its data is the packet's ordinal, 0 for FLAG_FFN.
Buffer(n, first, id) == [seqNum |-> n, firstPacket |-> first, id |-> id]
NoBuffer == Buffer(0, FALSE, 0)

\* bufferLen is unsigned in the code: -1 is what wraps to the largest number.
StopNWait0 ==
  [list |-> <<>>, bufferLen |-> 0, sendBufferLock |-> 0, nextSeqNumber |-> 0,
   firstPacket |-> TRUE, startedRecv |-> FALSE, expectedSeq |-> 0,
   waitingForFinAck |-> FALSE, finished |-> FALSE]

StopInit ==
  /\ snw = [p \in StopEnd |-> StopNWait0]
  /\ snwApp = [p \in StopEnd |-> [pc |-> "idle", buf |-> NoBuffer]]
  /\ snwConn = [p \in StopEnd |-> [pc |-> "idle", pendingAck |-> 0, freed |-> FALSE]]
  /\ snwNet = [p \in StopEnd |-> <<>>]
  /\ numbered = [p \in StopEnd |-> 0] /\ mute = [p \in StopEnd |-> FALSE]
  /\ taken = [p \in StopEnd |-> <<>>] /\ snwFaults = 0

-----------------------------------------------------------------------------
\* The number after n; 0 is left out.
NextNumber(n) == IF n = StopSeqCnt - 1 THEN 1 ELSE n + 1

\* sendDataOrAckPacket: the head and an acknowledgement in one packet, if there are any.
HeadOrAck(h, pendingAck) ==
  IF h.list # <<>> THEN <<[data |-> Head(h.list), ackNum |-> pendingAck]>>
  ELSE IF pendingAck # 0 THEN <<[data |-> NoBuffer, ackNum |-> pendingAck]>>
  ELSE <<>>

Emit(p, h, pendingAck) == snwNet' = [snwNet EXCEPT ![p] = @ \o HeadOrAck(h, pendingAck)]

\* Nothing that was sent under number n is on its way.
NumberFree(p, n) ==
  StopAllowed("wrap",
    /\ \A i \in DOMAIN snwNet[p] : snwNet[p][i].data.seqNum # n
    /\ \A i \in DOMAIN snwNet[Partner(p)] : snwNet[Partner(p)][i].ackNum # n)

\* sendData: the next buffer gets its number ...
NumberBuffer(p) ==
  LET n == NextNumber(snw[p].nextSeqNumber) IN
  /\ snwApp[p].pc \in {"idle", "more"} /\ numbered[p] < StopWrites[p] /\ NumberFree(p, n)
  /\ snw' = [snw EXCEPT ![p].nextSeqNumber = n, ![p].firstPacket = FALSE]
  /\ numbered' = [numbered EXCEPT ![p] = @ + 1]
  /\ snwApp' = [snwApp EXCEPT ![p] =
       [pc |-> "push", buf |-> Buffer(n, snw[p].firstPacket, numbered[p] + 1)]]
  /\ UNCHANGED <<snwConn, snwNet, mute, taken, snwFaults>>

\* ... and its place in the list; closeFlow does not count its buffer.
Pushed(h, buf) ==
  [h EXCEPT !.list = Append(@, buf),
            !.bufferLen = IF buf.id = 0 THEN @ ELSE @ + 1,
            !.waitingForFinAck = @ \/ buf.id = 0]

PushBuffer(p) ==
  /\ snwApp[p].pc = "push" /\ StopAllowed("gap", snwConn[p].pc = "idle")
  /\ snw' = [snw EXCEPT ![p] = Pushed(@, snwApp[p].buf)]
  /\ snwApp' = [snwApp EXCEPT ![p].pc = IF snwApp[p].buf.id = 0 THEN "closed" ELSE "test"]
  /\ UNCHANGED <<snwConn, snwNet, numbered, mute, taken, snwFaults>>

TestLength(p) ==
  /\ snwApp[p].pc = "test"
  /\ snwApp' = [snwApp EXCEPT ![p].pc = IF snw[p].bufferLen = 2 THEN "wait" ELSE "more"]
  /\ UNCHANGED <<snw, snwConn, snwNet, numbered, mute, taken, snwFaults>>

GetSlot(p) ==
  /\ snwApp[p].pc = "wait" /\ snw[p].sendBufferLock > 0
  /\ snw' = [snw EXCEPT ![p].sendBufferLock = @ - 1]
  /\ snwApp' = [snwApp EXCEPT ![p].pc = "more"]
  /\ UNCHANGED <<snwConn, snwNet, numbered, mute, taken, snwFaults>>

\* sendData is done with its data.
EndSendData(p) ==
  /\ snwApp[p].pc = "more" /\ Emit(p, snw[p], 0)
  /\ snwApp' = [snwApp EXCEPT ![p].pc = "idle"]
  /\ UNCHANGED <<snw, snwConn, numbered, mute, taken, snwFaults>>

\* closeFlow sends nothing itself; the timer will.
CloseFlow(p) ==
  LET n == NextNumber(snw[p].nextSeqNumber) IN
  /\ snwApp[p].pc = "idle" /\ p \in StopClosers /\ NumberFree(p, n)
  /\ snw' = [snw EXCEPT ![p].nextSeqNumber = n]
  /\ snwApp' = [snwApp EXCEPT ![p] = [pc |-> "push", buf |-> Buffer(n, FALSE, 0)]]
  /\ mute' = [mute EXCEPT ![p] = @ \/ snw[p].firstPacket]
  /\ UNCHANGED <<snwConn, snwNet, numbered, taken, snwFaults>>

ResendHead(p) ==
  LET rest == \A o \in StopEnd : snwNet[o] = <<>> /\ snwConn[o].pc = "idle" IN
  /\ snw[p].list # <<>>
  /\ \/ rest /\ UNCHANGED snwFaults
     \/ /\ "early" \in StopFaults /\ ~rest /\ snwFaults < MaxStopFaults
        /\ snwFaults' = snwFaults + 1
  /\ Emit(p, snw[p], 0)
  /\ UNCHANGED <<snw, snwApp, snwConn, numbered, mute, taken>>

-----------------------------------------------------------------------------
\* Mutant of InTurn: whatever comes from the peer is taken.
InTurnAny(h, data) == h.startedRecv /\ data.seqNum # 0

\* The packet recvPacketFrom takes, once a first packet has told where to begin.
InTurn(h, data) == h.startedRecv /\ data.seqNum # 0 /\ data.seqNum = h.expectedSeq

BeginReceive(h, data) ==
  IF ~h.startedRecv /\ data.firstPacket
    THEN [h EXCEPT !.startedRecv = TRUE, !.expectedSeq = data.seqNum] ELSE h

\* What comes of data: receiveData, or the answer to the first FLAG_FFN.
TakeData(h, data) ==
  LET n == NextNumber(h.nextSeqNumber)
      answered == IF data.id = 0 /\ ~h.waitingForFinAck
                    THEN Pushed([h EXCEPT !.nextSeqNumber = n], Buffer(n, FALSE, 0)) ELSE h
  IN [answered EXCEPT !.expectedSeq = NextNumber(@)]

\* Whether ackNum acknowledges the head, and the list without it.
AcksHead(h, ackNum) == ackNum # 0 /\ h.list # <<>> /\ Head(h.list).seqNum = ackNum
FreeHead(h) ==
  [h EXCEPT !.list = Tail(@), !.bufferLen = @ - 1,
            !.finished = @ \/ Head(h.list).id = 0]

\* recvPacketFrom up to the test of bufferLen.
RecvPacketStop(p, i) ==
  LET q == Partner(p)
      pkt == snwNet[q][i]
      h0 == BeginReceive(snw[p], pkt.data)
      take == InTurn(h0, pkt.data)
      h1 == IF take THEN TakeData(h0, pkt.data) ELSE h0
      free == AcksHead(h1, pkt.ackNum)
  IN
  /\ snwConn[p].pc = "idle"
  /\ StopAllowed("gap", snwApp[p].pc # "test")
  /\ StopAllowed("midSend", take /\ pkt.data.id = 0 => snwApp[p].pc # "push")
  /\ i = 1 \/ ("overtake" \in StopFaults /\ snwFaults < MaxStopFaults)
  /\ snwFaults' = IF i = 1 THEN snwFaults ELSE snwFaults + 1
  /\ snwNet' = [snwNet EXCEPT ![q] = SubSeq(@, 1, i - 1) \o SubSeq(@, i + 1, Len(@))]
  /\ snw' = [snw EXCEPT ![p] = IF free THEN FreeHead(h1) ELSE h1]
  /\ mute' = [mute EXCEPT ![p] =
       @ \/ (h1.nextSeqNumber # h0.nextSeqNumber /\ h0.firstPacket)]
  /\ taken' = [taken EXCEPT ![p] = IF take /\ pkt.data.id # 0 THEN Append(@, pkt.data.id) ELSE @]
  /\ snwConn' = [snwConn EXCEPT ![p] =
       [pc |-> "answer", pendingAck |-> IF take THEN pkt.data.seqNum ELSE 0, freed |-> free]]
  /\ UNCHANGED <<snwApp, numbered>>

\* Mutant of Posts: the sender is woken only when the list is empty.
PostsWhenEmpty(h) == h.bufferLen = 0

Posts(h) == h.bufferLen = 1

\* ... and the rest: sem_post, the acknowledgement, the next head.
Answer(p) ==
  LET c == snwConn[p] IN
  /\ c.pc = "answer"
  /\ snw' = [snw EXCEPT ![p].sendBufferLock = IF c.freed /\ Posts(snw[p]) THEN @ + 1 ELSE @]
  /\ Emit(p, snw[p], c.pendingAck)
  /\ snwConn' = [snwConn EXCEPT ![p] = [pc |-> "idle", pendingAck |-> 0, freed |-> FALSE]]
  /\ UNCHANGED <<snwApp, numbered, mute, taken, snwFaults>>

LosePacket(p) ==
  /\ "lose" \in StopFaults /\ snwFaults < MaxStopFaults /\ snwNet[p] # <<>>
  /\ snwFaults' = snwFaults + 1 /\ snwNet' = [snwNet EXCEPT ![p] = Tail(@)]
  /\ UNCHANGED <<snw, snwApp, snwConn, numbered, mute, taken>>

\* The three threads of an end.
AppRuns(p) == PushBuffer(p) \/ TestLength(p) \/ GetSlot(p) \/ EndSendData(p)
ConnRuns(p) == Answer(p) \/ (snwNet[Partner(p)] # <<>> /\ RecvPacketStop(p, 1))
StopNext ==
  \E p \in StopEnd :
    \/ NumberBuffer(p) \/ CloseFlow(p) \/ LosePacket(p)
    \/ AppRuns(p) \/ Answer(p) \/ ResendHead(p)
    \/ \E i \in DOMAIN snwNet[Partner(p)] : RecvPacketStop(p, i)

\* Threads run and packets arrive; the tests that "gap" lifts make a push wait for the
\* connection thread, which a mutex does not do for ever.  Applications need not send or
\* close.
StopSpec == StopInit /\ [][StopNext]_snwVars
StopFairSpec ==
  /\ StopSpec
  /\ \A p \in StopEnd :
       SF_snwVars(AppRuns(p)) /\ WF_snwVars(ConnRuns(p)) /\ WF_snwVars(ResendHead(p))

-----------------------------------------------------------------------------
\* What an end has taken are the peer's packets in the order they were sent, each once
\* (recvPacketFrom); and an application that waits for room in a list will be woken:
\* either the post is there or there are two buffers to acknowledge (sendData).
StopInOrder ==
  \A p \in StopEnd :
    /\ Len(taken[p]) <= numbered[Partner(p)]
    /\ \A i \in DOMAIN taken[p] : taken[p][i] = i
    /\ snwApp[p].pc = "wait" =>
         \/ snw[p].sendBufferLock > 0 \/ snw[p].bufferLen = 2
         \/ snwConn[p].freed /\ snw[p].bufferLen = 1
    /\ Cardinality({i \in DOMAIN snw[p].list : snw[p].list[i].id # 0}) <= 3

\* In the end everything that was sent has arrived, and who closed has been told, but
\* for what a mute end sends.
StopDone ==
  \A p \in StopEnd : ~mute[p] =>
    /\ snwApp[p].pc \in {"idle", "closed"}
    /\ Len(taken[Partner(p)]) = numbered[p] /\ snw[p].list = <<>>
    /\ snw[p].waitingForFinAck => snw[p].finished
StopCompletes == <>[]StopDone
=============================================================================
