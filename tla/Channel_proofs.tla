--------------------------- MODULE Channel_proofs ---------------------------
(***************************************************************************)
(* The invariant of a channel holds in every state, for any size of the    *)
(* sequence space and any number of packets and faults; the theorems about *)
(* Channel.tla follow, and that every direction implements                 *)
(* ReliableTransfer.                                                       *)
(***************************************************************************)
EXTENDS ChannelEnds_proofs

(***************************************************************************)
(* The handlers of the sending side other than that of an acknowledgement. *)
(***************************************************************************)
OnlyData(o) == \A m : In(o, m) => m.type = "DAT"

\* A handler took the sender from s to t.
Handled(s, t, R, la, ms) ==
  /\ t \in SenderType /\ (Submits(s, t) \/ Returns(s, t))
  /\ \E n \in Nat : SenderInv(t, R, la, ms + n) /\ DataOut(t.out, la, ms + n)

\* What a handler has collected in out.
LEMMA OutData ==
  ASSUME NEW o, NEW la, NEW ms, OutInv(o, la, ms)
  PROVE  OnlyData(o) /\ DataOut(o, la, ms)
  BY DEF OutInv, OnlyData, DataOut, In

\* No datagram at all.
LEMMA NoOut == OnlyData(<<>>) /\ \A la, ms : DataOut(<<>>, la, ms)
  BY EmptyIn DEF OnlyData, DataOut

\* A step that concerns neither packets nor window,
LEMMA HandledLike ==
  ASSUME NEW s \in SenderType, NEW t \in SenderType, Like(s, t), t.out = <<>>,
         NEW R, NEW la \in Int, NEW ms \in Int, SenderInv(s, R, la, ms)
  PROVE  Handled(s, t, R, la, ms)
<1>1. SenderInv(t, R, la, ms)
  BY LikeInv
<1>2. Submits(s, t)
  BY LikeSubmits
<1>3. DataOut(t.out, la, ms)
  BY NoOut
<1>4. ms + 0 = ms /\ 0 \in Nat
  OBVIOUS
<1>5. QED
  BY <1>1, <1>2, <1>3, <1>4 DEF Handled

\* ... alone or after another one.
LEMMA HandledAfter ==
  ASSUME NEW s, NEW t, NEW R, NEW la, NEW ms, Handled(s, t, R, la, ms),
         NEW u \in SenderType, Like(t, u), \A m : In(u.out, m) /\ m.type = "DAT" => In(t.out, m)
  PROVE  Handled(s, u, R, la, ms)
<1>1. t \in SenderType /\ (Submits(s, t) \/ Returns(s, t))
  BY DEF Handled
<1>2. PICK n \in Nat : SenderInv(t, R, la, ms + n) /\ DataOut(t.out, la, ms + n)
  BY DEF Handled
<1>3. SenderInv(u, R, la, ms + n)
  BY <1>1, <1>2, LikeInv
<1>4. DataOut(u.out, la, ms + n)
  BY <1>2 DEF DataOut
<1>5. Submits(s, u) \/ Returns(s, u)
  BY <1>1, LikeAfter
<1>6. QED
  BY <1>3, <1>4, <1>5 DEF Handled

\* A handler that may send a new packet.
HandledBySend(s0, s, t, R, la, ms) ==
  /\ Handled(s0, t, R, la, ms) /\ OnlyData(t.out) /\ t \in SenderType
  /\ t.total = s.total \/ t.total = s.total + 1
  /\ t.up = s.up /\ t.started = s.started /\ t.shutDownSent = s.shutDownSent
  /\ t.deadChannel = s.deadChannel

\* sendPacket, after a change that concerns neither packets nor window.
LEMMA HandledSend ==
  ASSUME NEW s0 \in SenderType, NEW s \in SenderType, Like(s0, s), s.out = <<>>, s.total \in PacketId,
         NEW R, NEW la \in Int, NEW ms \in Int, R \subseteq 0 .. ms, SenderInv(s0, R, la, ms),
         NEW chs \in BOOLEAN, NEW chf \in BOOLEAN, chf => Closers # {},
         NEW t, t = Send(s, chs, chf)
  PROVE  HandledBySend(s0, s, t, R, la, ms)
<1>1. SenderInv(s, R, la, ms)
  BY LikeInv
<1>2. /\ t \in SenderType
      /\ t.total = s.total \/ t.total = s.total + 1
      /\ t.drained = s.drained /\ t.deadChannel = s.deadChannel /\ t.undelivered = s.undelivered
      /\ t.up = s.up /\ t.started = s.started /\ t.shutDownSent = s.shutDownSent
      /\ AddsPacket(s, t) /\ SenderGrown(t, R, la, ms)
  <2>1. SentOne(s, t, R, la, ms)
    BY <1>1, SendStep
  <2>2. QED
    BY <2>1 DEF SentOne
<1>3. PICK n \in Nat : SenderInv(t, R, la, ms + n) /\ OutInv(t.out, la, ms + n)
  BY <1>2 DEF SenderGrown
<1>4. OnlyData(t.out) /\ DataOut(t.out, la, ms + n)
  BY <1>3, OutData
<1>5. Submits(s, t)
  BY <1>2 DEF Submits
<1>6. Submits(s0, t) \/ Returns(s0, t)
  BY <1>5, LikeBefore
<1>7. Handled(s0, t, R, la, ms)
  BY <1>2, <1>3, <1>4, <1>6 DEF Handled
<1>8. QED
  BY <1>2, <1>4, <1>7 DEF HandledBySend

\* getUndeliveredPackets.
LEMMA HandledReturn ==
  ASSUME NEW s \in SenderType, NEW R, NEW la \in Int, NEW ms \in Int, SenderInv(s, R, la, ms),
         0 .. la \subseteq R, ~s.drained, s.deadChannel, DataOut(s.out, la, ms),
         NEW t, t = GetUndelivered(s)
  PROVE  /\ t \in SenderType /\ Returned(s, t) /\ Returns(s, t)
         /\ SenderInv(t, R, la, ms) /\ DataOut(t.out, la, ms)
<1>1. BufferInv(s, R, la, ms) /\ RecoveryInv(s, la, ms)
  BY DEF SenderInv
<1>2. t \in SenderType /\ Returned(s, t) /\ BufferInv(t, R, la, ms)
  BY <1>1, GetUndeliveredStep
<1>3. /\ t.drained /\ t.undelivered = s.undelivered \cup HeldPackets(s) /\ t.total = s.total
      /\ t.out = s.out /\ t.status = s.status /\ t.recover = s.recover
      /\ \A q \in SeqNo : ~Held(t, q)
  BY <1>2 DEF Returned
<1>4. Returns(s, t)
  BY <1>3 DEF Returns
<1>5. HeadInv(t, la)
  BY <1>3 DEF HeadInv
<1>6. RecoveryInv(t, la, ms)
  BY <1>1, <1>3 DEF RecoveryInv, InRecovery
<1>7. QED
  BY <1>2, <1>3, <1>4, <1>5, <1>6 DEF SenderInv

(***************************************************************************)
(* timeoutEvent.                                                           *)
(***************************************************************************)
LEMMA HandledResend ==
  ASSUME NEW s \in SenderType, NEW R, NEW la \in Int, NEW ms \in Int, SenderInv(s, R, la, ms),
         s.out = <<>>, ~s.drained, NEW Q \in SUBSET SeqNo, Q \subseteq s.timerList,
         NEW t, t = ResendExpired(s, Q)
  PROVE  /\ t \in SenderType /\ Frame(s, t) /\ SamePackets(s, t) /\ SenderInv(t, R, la, ms)
         /\ Submits(s, t) /\ OnlyData(t.out) /\ DataOut(t.out, la, ms)
<1>1. BufferInv(s, R, la, ms) /\ HeadInv(s, la) /\ RecoveryInv(s, la, ms)
  BY DEF SenderInv
<1>2. OutInv(s.out, la, ms)
  BY DEF OutInv
<1>3. /\ t \in SenderType /\ Frame(s, t) /\ SamePackets(s, t)
      /\ BufferInv(t, R, la, ms) /\ OutInv(t.out, la, ms)
  BY <1>1, <1>2, ResendStep
<1>4. HeadInv(t, la)
  BY <1>1, <1>3, SameHead DEF Frame
<1>5. RecoveryInv(t, la, ms)
  BY <1>1, <1>3 DEF RecoveryInv, InRecovery, Frame
<1>6. t.total = s.total /\ t.drained = s.drained /\ t.undelivered = s.undelivered
  BY <1>3 DEF Frame, Fixed
<1>7. AddsPacket(s, t)
  BY <1>3 DEF AddsPacket, SamePackets, Held
<1>8. Submits(s, t)
  BY <1>6, <1>7 DEF Submits
<1>9. OnlyData(t.out) /\ DataOut(t.out, la, ms)
  BY <1>3, OutData
<1>10. QED
  BY <1>1, <1>3, <1>4, <1>5, <1>8, <1>9 DEF SenderInv

\* The counter of packets and the flags that only grow.
Counts(s, t) ==
  /\ t.total = s.total /\ t.up = s.up /\ t.started = s.started /\ t.shutDownSent = s.shutDownSent

\* The number of packets stays within its bound.
LEMMA SameCounts ==
  ASSUME NEW p, NEW s, NEW t, NEW sh, Counts(s, t), CountInv(p, s, sh)
  PROVE  CountInv(p, t, sh)
  BY DEF Counts, CountInv

\* timeoutEvent, whether or not it gives the channel up.
LEMMA ExpiredStep ==
  ASSUME NEW s \in SenderType, NEW R, NEW la \in Int, NEW ms \in Int, SenderInv(s, R, la, ms),
         0 .. la \subseteq R, s.out = <<>>, ~s.deadChannel, NEW E \in SUBSET SeqNo, E \subseteq s.timerList,
         NEW t, t = Expired(s, E)
  PROVE  Handled(s, t, R, la, ms) /\ OnlyData(t.out) /\ Counts(s, t)
<1> DEFINE late == {q \in E : ~s.buf[q].ackRcvd}
           dead == 0 \in late /\ s.buf[0].retryCnt > 2
           tried == IF dead THEN {q \in late : Dist(q, s.lastAcked) <= Dist(0, s.lastAcked)} ELSE late
           resend == IF dead THEN tried \ {0} ELSE tried
           gaveUp == \E q \in tried : WaitedLongEnough(s.buf[q])
           r == ResendExpired(s, resend)
           u == [r EXCEPT !.shutDownSentRecv = @ \/ gaveUp, !.deadChannel = dead]
<1>1. t = IF dead THEN GetUndelivered(u) ELSE u
  BY DEF Expired
<1>2. resend \in SUBSET SeqNo /\ resend \subseteq s.timerList
  OBVIOUS
<1>3. dead \in BOOLEAN /\ gaveUp \in BOOLEAN
  OBVIOUS
<1>4. r = ResendExpired(s, resend)
  OBVIOUS
<1>5. u = [r EXCEPT !.shutDownSentRecv = @ \/ gaveUp, !.deadChannel = dead]
  OBVIOUS
<1> HIDE DEF u, r, gaveUp, resend, tried, dead, late
<1>6. ~s.drained
  BY DEF SenderInv, BufferInv, DeathInv
<1>7. /\ r \in SenderType /\ Frame(s, r) /\ SamePackets(s, r) /\ SenderInv(r, R, la, ms)
      /\ Submits(s, r) /\ OnlyData(r.out) /\ DataOut(r.out, la, ms)
  BY <1>2, <1>4, <1>6, HandledResend
<1>8. /\ ~r.deadChannel /\ r.drained = s.drained /\ r.undelivered = s.undelivered
      /\ r.total = s.total /\ r.up = s.up /\ r.started = s.started /\ r.shutDownSent = s.shutDownSent
  BY <1>7 DEF Frame, Fixed
<1>9. (r.shutDownSentRecv \/ gaveUp) \in BOOLEAN
  OBVIOUS
<1>10. u \in SenderType
  <2> DEFINE given == r.shutDownSentRecv \/ gaveUp
  <2>1. given \in BOOLEAN /\ dead \in BOOLEAN /\ r \in SenderType
    BY <1>3, <1>7, <1>9
  <2>2. u = [r EXCEPT !.shutDownSentRecv = given, !.deadChannel = dead]
    BY ONLY <1>5
  <2> HIDE DEF given
  <2>3. QED
    BY ONLY <2>1, <2>2, ZenonT(60) DEF SenderType
<1>11. /\ u.lastAcked = r.lastAcked /\ u.maxSent = r.maxSent /\ u.maxPacket = r.maxPacket
       /\ u.total = r.total /\ u.timerList = r.timerList /\ u.drained = r.drained
       /\ u.undelivered = r.undelivered /\ u.sendSeqLock = r.sendSeqLock
       /\ u.status = r.status /\ u.recover = r.recover /\ u.buf = r.buf /\ u.out = r.out
       /\ u.up = r.up /\ u.started = r.started /\ u.shutDownSent = r.shutDownSent
  BY <1>5, <1>7 DEF SenderType
<1>12. u.deadChannel <=> dead
  BY <1>3, <1>5, <1>7 DEF SenderType
<1>13. Like(r, u)
  BY <1>8, <1>11 DEF Like
<1>14. SenderInv(u, R, la, ms)
  BY <1>7, <1>10, <1>13, LikeInv
<1>15. DataOut(u.out, la, ms) /\ OnlyData(u.out)
  BY <1>7, <1>11
<1>16. ms + 0 = ms /\ 0 \in Nat
  OBVIOUS
<1>17. CASE ~dead
  <2>1. t = u
    BY <1>1, <1>17
  <2>2. Submits(s, u) \/ Returns(s, u)
    BY <1>7, <1>13, LikeAfter
  <2>3. Handled(s, u, R, la, ms)
    BY <1>10, <1>14, <1>15, <1>16, <2>2 DEF Handled
  <2>4. Counts(s, u)
    BY <1>8, <1>11 DEF Counts
  <2>5. QED
    BY <1>15, <2>1, <2>3, <2>4
<1>18. CASE dead
  <2>1. t = GetUndelivered(u)
    BY <1>1, <1>18
  <2>2. ~u.drained /\ u.deadChannel
    BY <1>6, <1>8, <1>11, <1>12, <1>18
  <2>3. /\ t \in SenderType /\ Returned(u, t) /\ Returns(u, t)
        /\ SenderInv(t, R, la, ms) /\ DataOut(t.out, la, ms)
    BY <1>10, <1>14, <1>15, <2>1, <2>2, HandledReturn
  <2>4. HeldPackets(u) = HeldPackets(s)
    <3>1. HeldPackets(u) = HeldPackets(r)
      BY <1>13, LikeHeld
    <3>2. HeldPackets(r) = HeldPackets(s)
      BY <1>7 DEF HeldPackets, SamePackets, Held
    <3>3. QED
      BY <3>1, <3>2
  <2>5. Returns(s, t)
    BY <1>6, <1>8, <1>11, <2>3, <2>4 DEF Returns
  <2>6. Handled(s, t, R, la, ms)
    BY <1>16, <2>3, <2>5 DEF Handled
  <2>7. t.out = u.out /\ Counts(u, t)
    BY <2>3 DEF Returned, Counts
  <2>8. Counts(s, t)
    BY <1>8, <1>11, <2>7 DEF Counts
  <2>9. QED
    BY <1>15, <2>6, <2>7, <2>8
<1>19. QED
  BY <1>17, <1>18

(***************************************************************************)
(* The direction of a sender one of whose handlers has run.                *)
(***************************************************************************)
\* The sender of p went from s to t, and its close from sh to sh2.
HandlerOf(p, s, t, sh2, R) ==
  \A la, ms \in Int : SenderInv(s, R, la, ms) /\ R \subseteq 0 .. ms /\ 0 .. la \subseteq R =>
    Handled(s, t, R, la, ms) /\ CountInv(p, t, sh2)

\* The handler ran and Apply stored its result as u.
Ran(p, s, t, u, sh2, R, rc, dq, lk, b, a, bk) ==
  /\ t \in SenderType /\ t.out \in Seq(Message)
  /\ u \in SenderType /\ u.out = <<>> /\ (Submits(s, u) \/ Returns(s, u))
  /\ Dir(p, u, sh2, R, rc, dq, lk \o t.out, b, a, bk)

\* A handler of the sender keeps the direction it sends in.
LEMMA DirHandled ==
  ASSUME NEW p, NEW s \in SenderType, NEW sh, NEW R, NEW rc, NEW dq \in Seq(DataType), NEW lk \in Seq(Message),
         NEW b \in Seq(AckType), NEW a \in Seq(AckType), NEW bk \in Seq(Message),
         Dir(p, s, sh, R, rc, dq, lk, b, a, bk),
         NEW t, NEW sh2, HandlerOf(p, s, t, sh2, R),
         NEW u, u = [t EXCEPT !.out = <<>>]
  PROVE  Ran(p, s, t, u, sh2, R, rc, dq, lk, b, a, bk)
<1> DEFINE o == t.out
<1>1. PICK la, ms, e \in Int : SenderInv(s, R, la, ms) /\ ReceiverInv(rc, R, la, ms, e)
  BY DEF Dir
<1>2. R \subseteq 0 .. ms /\ 0 .. la \subseteq R
  BY <1>1, DirNumbers
<1>3. Handled(s, t, R, la, ms) /\ CountInv(p, t, sh2)
  BY <1>1, <1>2 DEF HandlerOf
<1>4. t \in SenderType /\ (Submits(s, t) \/ Returns(s, t))
  BY <1>3 DEF Handled
<1>5. o \in Seq(Message)
  BY <1>4 DEF SenderType
<1>6. /\ u \in SenderType /\ u.out = <<>> /\ Like(t, u)
      /\ u.up = t.up /\ u.started = t.started /\ u.shutDownSent = t.shutDownSent
  BY <1>4, ClearOut
<1>7. CountInv(p, u, sh2)
  <2>1. Counts(t, u)
    BY <1>6 DEF Counts, Like
  <2>2. QED
    BY <1>3, <2>1, SameCounts
<1>8. Submits(s, u) \/ Returns(s, u)
  BY <1>4, <1>6, LikeAfter
<1>9. ASSUME NEW la2 \in Int, NEW ms2 \in Int,
             SenderInv(s, R, la2, ms2), R \subseteq 0 .. ms2, 0 .. la2 \subseteq R
      PROVE  MovedOut(s, u, o, R, la2, ms2)
  <2>1. Handled(s, t, R, la2, ms2)
    BY <1>9 DEF HandlerOf
  <2>2. PICK n \in Nat : SenderInv(t, R, la2, ms2 + n) /\ DataOut(o, la2, ms2 + n)
    BY <2>1 DEF Handled
  <2>3. SenderInv(u, R, la2, ms2 + n)
    BY <1>4, <1>6, <2>2, LikeInv
  <2>4. QED
    BY <1>8, <2>2, <2>3 DEF MovedOut
<1> HIDE DEF o
<1>10. Dir(p, u, sh2, R, rc, dq, lk \o o, b, a, bk)
  BY <1>5, <1>6, <1>7, <1>9, DirMoved
<1>11. QED
  BY <1>4, <1>5, <1>6, <1>8, <1>10 DEF o, Ran

(***************************************************************************)
(* Both directions of the channel.                                         *)
(***************************************************************************)
\* The direction in which p sends,
DirInv(p) ==
  Dir(p, snd[p], shutting[p], Received(passedUp[p]), rcv[Peer(p)], dataRecvQueue[Peer(p)], link[p],
      batch[p].acks, ackRecvQueue[p], link[Peer(p)])

\* ... and both, with the types: the inductive invariant.
ChannelInv == ChannelTypes /\ \A p \in Node : DirInv(p)

\* What a step does to the packets of the direction p sends in.
PassesUp(p) ==
  \E i \in PacketId : /\ i < snd[p].total /\ passedUp[p][i] = 0
                      /\ passedUp'[p] = [passedUp[p] EXCEPT ![i] = 1]
\* The step ReliableTransfer sees in this direction.
DirStep(p) ==
  \/ /\ passedUp'[p] = passedUp[p]
     /\ Submits(snd[p], snd'[p]) \/ Returns(snd[p], snd'[p]) \/ Forgets(snd[p], snd'[p])
  \/ snd'[p] = snd[p] /\ PassesUp(p)

\* What every action keeps.
Kept == ChannelTypes' /\ \A p \in Node : DirInv(p)' /\ DirStep(p)

\* A stutter takes no packet.
LEMMA SubmitsNothing == ASSUME NEW s PROVE Submits(s, s)
  BY DEF Submits, AddsPacket

\* The types at one end.
LEMMA TypeFacts ==
  ASSUME ChannelTypes, NEW p \in Node
  PROVE  /\ snd[p] \in SenderType /\ snd[p].out = <<>> /\ rcv[p] \in ReceiverType
         /\ link[p] \in Seq(Message) /\ dataRecvQueue[p] \in Seq(DataType)
         /\ ackRecvQueue[p] \in Seq(AckType) /\ batch[p] \in BatchType
         /\ batch[p].acks \in Seq(AckType) /\ conn[p] \in ConnType /\ shutting[p] \in BOOLEAN
         /\ passedUp[p] \in [PacketId -> {0, 1}]
  BY DEF ChannelTypes, BatchType

\* It is enough to look at an end and its peer.
LEMMA KeptBoth ==
  ASSUME NEW p \in Node, ChannelTypes', DirInv(p)', DirInv(Peer(p))', DirStep(p), DirStep(Peer(p))
  PROVE  Kept
<1>1. Node = {p, Peer(p)}
  BY PeerFacts
<1>2. ASSUME NEW q \in Node PROVE DirInv(q)' /\ DirStep(q)
  <2>1. CASE q = p
    BY <2>1
  <2>2. CASE q = Peer(p)
    BY <2>2
  <2>3. QED
    BY <1>1, <1>2, <2>1, <2>2
<1>3. QED
  BY <1>2 DEF Kept

(***************************************************************************)
(* A handler of an end's sender ran: it sent only data.                    *)
(***************************************************************************)
\* The same, for a handler that sends only data.
DataHandlerOf(p, s, t, sh2, R) ==
  \A la, ms \in Int : SenderInv(s, R, la, ms) /\ R \subseteq 0 .. ms /\ 0 .. la \subseteq R =>
    Handled(s, t, R, la, ms) /\ CountInv(p, t, sh2) /\ OnlyData(t.out)

\* Such a handler in its direction.
LEMMA DataHandlers ==
  ASSUME NEW p, NEW s \in SenderType, NEW sh, NEW R, NEW rc, NEW dq, NEW lk, NEW b, NEW a, NEW bk,
         Dir(p, s, sh, R, rc, dq, lk, b, a, bk), NEW t, NEW sh2, DataHandlerOf(p, s, t, sh2, R)
  PROVE  HandlerOf(p, s, t, sh2, R) /\ OnlyData(t.out)
<1>1. PICK la, ms, e \in Int : SenderInv(s, R, la, ms) /\ ReceiverInv(rc, R, la, ms, e)
  BY DEF Dir
<1>2. R \subseteq 0 .. ms /\ 0 .. la \subseteq R
  BY <1>1, DirNumbers
<1>3. OnlyData(t.out)
  BY <1>1, <1>2 DEF DataHandlerOf
<1>4. HandlerOf(p, s, t, sh2, R)
  BY DEF DataHandlerOf, HandlerOf
<1>5. QED
  BY <1>3, <1>4

\* ... keeps both directions: its data packets are no acknowledgements.
LEMMA SenderMoves ==
  ASSUME ChannelInv, NEW p \in Node, NEW t, NEW sh2, sh2 \in BOOLEAN, DataHandlerOf(p, snd[p], t, sh2, Received(passedUp[p])),
         NEW u, u = [t EXCEPT !.out = <<>>],
         snd' = [snd EXCEPT ![p] = u], link' = [link EXCEPT ![p] = @ \o t.out],
         shutting' = [shutting EXCEPT ![p] = sh2],
         conn' \in [Node -> ConnType], faults' \in 0 .. MaxFaults,
         UNCHANGED <<rcv, dataRecvQueue, ackRecvQueue, batch, passedUp>>
  PROVE  Kept
<1> DEFINE r == Peer(p)
           o == t.out
<1>1. r \in Node /\ r # p /\ Peer(r) = p
  BY PeerFacts
<1>2. ChannelTypes /\ DirInv(p) /\ DirInv(r)
  BY <1>1 DEF ChannelInv
<1>3. /\ snd[p] \in SenderType /\ link[p] \in Seq(Message) /\ batch[p].acks \in Seq(AckType)
      /\ ackRecvQueue[p] \in Seq(AckType) /\ dataRecvQueue[p] \in Seq(DataType)
  BY <1>2, TypeFacts
<1>4. /\ snd[r] \in SenderType /\ link[r] \in Seq(Message) /\ batch[r].acks \in Seq(AckType)
      /\ ackRecvQueue[r] \in Seq(AckType) /\ dataRecvQueue[r] \in Seq(DataType)
  BY <1>1, <1>2, TypeFacts
<1> DEFINE R == Received(passedUp[p])
<1>15. Dir(p, snd[p], shutting[p], R, rcv[r], dataRecvQueue[r], link[p], batch[p].acks, ackRecvQueue[p], link[r])
  BY <1>2 DEF DirInv
<1>16. HandlerOf(p, snd[p], t, sh2, R) /\ OnlyData(t.out)
  BY <1>3, <1>15, DataHandlers
<1>17. R = Received(passedUp[p])
  OBVIOUS
<1>18. u = [t EXCEPT !.out = <<>>]
  OBVIOUS
<1>19. o = t.out
  OBVIOUS
<1> HIDE DEF r, R, o
<1>5. /\ t \in SenderType /\ o \in Seq(Message)
      /\ u \in SenderType /\ u.out = <<>> /\ (Submits(snd[p], u) \/ Returns(snd[p], u))
      /\ Dir(p, u, sh2, R, rcv[r], dataRecvQueue[r], link[p] \o o,
             batch[p].acks, ackRecvQueue[p], link[r])
  <2>1. Ran(p, snd[p], t, u, sh2, R, rcv[r], dataRecvQueue[r], link[p], batch[p].acks, ackRecvQueue[p], link[r])
    BY <1>3, <1>4, <1>15, <1>16, DirHandled
  <2>2. QED
    BY ONLY <1>19, <2>1 DEF Ran
<1>6. snd \in [Node -> SenderType] /\ link \in [Node -> Seq(Message)] /\ shutting \in [Node -> BOOLEAN]
  BY <1>2 DEF ChannelTypes
<1>7. /\ snd'[p] = u /\ snd'[r] = snd[r] /\ link'[p] = link[p] \o o /\ link'[r] = link[r]
      /\ shutting'[p] = sh2 /\ shutting'[r] = shutting[r]
  BY <1>1, <1>6 DEF o
<1>8. link[p] \o o \in Seq(Message)
  BY <1>3, <1>5, ConcatIn
<1>9. ChannelTypes'
  <2>1. snd' \in [Node -> SenderType]
    BY <1>5, <1>6
  <2>2. link' \in [Node -> Seq(Message)]
    BY <1>6, <1>8 DEF o
  <2>3. shutting' \in [Node -> BOOLEAN]
    BY <1>6
  <2>4. \A q \in Node : snd'[q].out = <<>>
    BY <1>2, <1>5, <1>6 DEF ChannelTypes
  <2>5. QED
    BY <1>2, <2>1, <2>2, <2>3, <2>4 DEF ChannelTypes
<1>10. DirInv(p)'
  BY <1>5, <1>7, <1>17 DEF DirInv, r
<1>11. DirInv(r)'
  <2>1. LessData(dataRecvQueue[p], link[r], dataRecvQueue[p], link[r])
    BY ThinnerSame, LessThinner
  <2>2. LessAck(batch[r].acks, ackRecvQueue[r], link[p] \o o, batch[r].acks, ackRecvQueue[r], link[p])
    <3>1. \A m : In(o, m) => m.type # "ACK"
      BY <1>16 DEF OnlyData, o
    <3>2. QED
      BY <1>3, <1>5, <3>1, LessData2
  <2>3. Dir(r, snd[r], shutting[r], Received(passedUp[r]), rcv[p], dataRecvQueue[p], link[r],
            batch[r].acks, ackRecvQueue[r], link[p])
    BY <1>1, <1>2 DEF DirInv
  <2>4. Dir(r, snd[r], shutting[r], Received(passedUp[r]), rcv[p], dataRecvQueue[p], link[r],
            batch[r].acks, ackRecvQueue[r], link[p] \o o)
    BY <1>3, <1>4, <2>1, <2>2, <2>3, DirLess
  <2>5. QED
    BY <1>1, <1>7, <2>4 DEF DirInv
<1>12. DirStep(p)
  BY <1>5, <1>7 DEF DirStep
<1>13. DirStep(r)
  BY <1>7, SubmitsNothing DEF DirStep
<1>14. QED
  BY <1>9, <1>10, <1>11, <1>12, <1>13, KeptBoth DEF r

(***************************************************************************)
(* The handlers, one by one.                                               *)
(***************************************************************************)
LEMMA CountSend ==
  ASSUME NEW p \in Node, NEW s, s.total \in Nat, NEW t, t.total = s.total \/ t.total = s.total + 1,
         NEW k \in 0 .. 2, s.total <= MaxPackets[p] + k, t.up, NEW sh,
         k = 0 \/ (k = 1 /\ (t.shutDownSent \/ sh)) \/ (k = 2 /\ t.shutDownSent),
         sh \/ t.shutDownSent => Closers # {}
  PROVE  CountInv(p, t, sh)
<1> DEFINE x == IF t.shutDownSent THEN 2 ELSE IF sh THEN 1 ELSE 0
<1>1. MaxPackets[p] \in Nat
  BY PacketIdFacts
<1>2. x \in Nat /\ k <= x
  OBVIOUS
<1> HIDE DEF x
<1>3. t.total <= MaxPackets[p] + 1 + x
  BY <1>1, <1>2
<1>4. QED
  BY <1>3 DEF CountInv, x

\* How many packets an end may have taken, by what it has begun to close.
LEMMA CountBound ==
  ASSUME NEW p \in Node, NEW s \in SenderType, NEW sh, CountInv(p, s, sh)
  PROVE  /\ s.total \in Nat /\ MaxPackets[p] \in Nat
         /\ ~s.up => s.total = 0 /\ ~sh /\ ~s.shutDownSent /\ ~s.started
         /\ ~sh /\ ~s.shutDownSent => s.total <= MaxPackets[p] + 1
         /\ ~s.shutDownSent => s.total <= MaxPackets[p] + 2
         /\ s.started \/ sh \/ s.shutDownSent => s.up
         /\ sh \/ s.shutDownSent => Closers # {}
         /\ \A k \in 0 .. 2 : s.total <= MaxPackets[p] + k => s.total \in PacketId
<1>1. MaxPackets[p] \in Nat /\ 0 .. MaxPackets[p] + 2 \subseteq PacketId
  BY PacketIdFacts
<1>2. s.total \in Nat
  BY DEF SenderType
<1>3. \A k \in 0 .. 2 : s.total <= MaxPackets[p] + k => s.total \in 0 .. MaxPackets[p] + 2
  BY <1>1, <1>2
<1>4. \A k \in 0 .. 2 : s.total <= MaxPackets[p] + k => s.total \in PacketId
  BY <1>1, <1>3
<1>5. ~sh /\ ~s.shutDownSent => s.total <= MaxPackets[p] + 1
  BY <1>1, <1>2 DEF CountInv
<1>6. ASSUME ~s.shutDownSent PROVE s.total <= MaxPackets[p] + 2
  <2>1. CASE sh
    BY <1>1, <1>2, <1>6, <2>1 DEF CountInv
  <2>2. CASE ~sh
    BY <1>1, <1>2, <1>6, <2>2 DEF CountInv
  <2>3. QED
    BY <2>1, <2>2
<1>7. QED
  BY <1>1, <1>2, <1>4, <1>5, <1>6 DEF CountInv

\* The channel start packet.
LEMMA StartUpHandler ==
  ASSUME NEW p \in Node, NEW s \in SenderType, s.out = <<>>, NEW sh, CountInv(p, s, sh), ~s.up, NEW R,
         NEW t, t = Send([s EXCEPT !.up = TRUE], TRUE, FALSE)
  PROVE  DataHandlerOf(p, s, t, sh, R)
<1> DEFINE u == [s EXCEPT !.up = TRUE]
<1>1. u \in SenderType
  BY DEF SenderType
<1>2. /\ u.lastAcked = s.lastAcked /\ u.maxSent = s.maxSent /\ u.maxPacket = s.maxPacket
      /\ u.total = s.total /\ u.timerList = s.timerList /\ u.drained = s.drained
      /\ u.undelivered = s.undelivered /\ u.sendSeqLock = s.sendSeqLock
      /\ u.status = s.status /\ u.recover = s.recover /\ u.deadChannel = s.deadChannel
      /\ u.buf = s.buf /\ u.out = s.out /\ u.shutDownSent = s.shutDownSent
  BY DEF SenderType
<1>3. u.up
  BY DEF SenderType
<1>4. t = Send(u, TRUE, FALSE)
  OBVIOUS
<1> HIDE DEF u
<1>5. Like(s, u)
  BY <1>2 DEF Like
<1>6. s.total = 0 /\ ~sh /\ ~s.shutDownSent /\ MaxPackets[p] \in Nat /\ s.total \in PacketId
  <2>1. s.total = 0 /\ ~sh /\ ~s.shutDownSent /\ MaxPackets[p] \in Nat
    BY CountBound
  <2>2. s.total <= MaxPackets[p] + 0 /\ 0 \in 0 .. 2
    BY <2>1
  <2>3. QED
    BY <2>1, <2>2, CountBound
<1>7. ASSUME NEW la \in Int, NEW ms \in Int, SenderInv(s, R, la, ms), R \subseteq 0 .. ms
      PROVE  Handled(s, t, R, la, ms) /\ CountInv(p, t, sh) /\ OnlyData(t.out)
  <2>1. /\ Handled(s, t, R, la, ms) /\ OnlyData(t.out)
        /\ t.total = u.total \/ t.total = u.total + 1
        /\ t.up = u.up /\ t.shutDownSent = u.shutDownSent
    <3>1. u.out = <<>> /\ u.total \in PacketId
      BY <1>2, <1>6
    <3>2. HandledBySend(s, u, t, R, la, ms)
      BY <1>1, <1>4, <1>5, <1>7, <3>1, HandledSend
    <3>3. QED
      BY <3>2 DEF HandledBySend
  <2>2. CountInv(p, t, sh)
    <3>1. s.total <= MaxPackets[p] + 0 /\ 0 \in 0 .. 2 /\ s.total \in Nat
      BY <1>6
    <3>2. t.total = s.total \/ t.total = s.total + 1
      BY <1>2, <2>1
    <3>3. t.up /\ ~t.shutDownSent /\ ~sh
      BY <1>2, <1>3, <1>6, <2>1
    <3>4. QED
      BY <3>1, <3>2, <3>3, CountSend
  <2>3. QED
    BY <2>1, <2>2
<1>8. QED
  BY <1>7 DEF DataHandlerOf

\* The application's packets and FLAG_CHF.
LEMMA SendHandler ==
  ASSUME NEW p \in Node, NEW s \in SenderType, s.out = <<>>, NEW sh, CountInv(p, s, sh), s.up, NEW R,
         NEW k \in 0 .. 2, s.total <= MaxPackets[p] + k, NEW chf \in BOOLEAN, chf => Closers # {}, NEW sh2,
         k = 0 \/ (k = 1 /\ (s.shutDownSent \/ sh2)) \/ (k = 2 /\ s.shutDownSent),
         sh2 \/ s.shutDownSent => Closers # {},
         NEW t, t = Send(s, FALSE, chf)
  PROVE  DataHandlerOf(p, s, t, sh2, R)
<1>1. s.total \in Nat /\ s.total \in PacketId
  BY CountBound
<1>2. Like(s, s)
  BY DEF Like
<1>3. ASSUME NEW la \in Int, NEW ms \in Int, SenderInv(s, R, la, ms), R \subseteq 0 .. ms
      PROVE  Handled(s, t, R, la, ms) /\ CountInv(p, t, sh2) /\ OnlyData(t.out)
  <2>1. /\ Handled(s, t, R, la, ms) /\ OnlyData(t.out)
        /\ t.total = s.total \/ t.total = s.total + 1
        /\ t.up = s.up /\ t.shutDownSent = s.shutDownSent
    <3>1. HandledBySend(s, s, t, R, la, ms)
      BY <1>1, <1>2, <1>3, HandledSend
    <3>2. QED
      BY <3>1 DEF HandledBySend
  <2>2. CountInv(p, t, sh2)
    BY <1>1, <2>1, CountSend
  <2>3. QED
    BY <2>1, <2>2
<1>4. QED
  BY <1>3 DEF DataHandlerOf

\* A step that concerns neither packets nor window.
LEMMA LikeHandler ==
  ASSUME NEW p, NEW s \in SenderType, NEW t \in SenderType, Like(s, t), t.out = <<>>, NEW R,
         NEW sh2, CountInv(p, t, sh2)
  PROVE  DataHandlerOf(p, s, t, sh2, R)
<1>1. OnlyData(t.out)
  BY NoOut
<1>2. \A la, ms \in Int : SenderInv(s, R, la, ms) => Handled(s, t, R, la, ms)
  BY HandledLike
<1>3. QED
  BY <1>1, <1>2 DEF DataHandlerOf

\* timeoutEvent.
LEMMA ExpiredHandler ==
  ASSUME NEW p, NEW s \in SenderType, s.out = <<>>, ~s.deadChannel, NEW sh, CountInv(p, s, sh), NEW R,
         NEW E \in SUBSET SeqNo, E \subseteq s.timerList, NEW t, t = Expired(s, E)
  PROVE  DataHandlerOf(p, s, t, sh, R)
<1>1. ASSUME NEW la \in Int, NEW ms \in Int, SenderInv(s, R, la, ms), 0 .. la \subseteq R
      PROVE  Handled(s, t, R, la, ms) /\ CountInv(p, t, sh) /\ OnlyData(t.out)
  <2>1. Handled(s, t, R, la, ms) /\ OnlyData(t.out) /\ Counts(s, t)
    BY <1>1, ExpiredStep
  <2>2. QED
    BY <2>1, SameCounts
<1>2. QED
  BY <1>1 DEF DataHandlerOf

\* getUndeliveredPackets.
LEMMA ReturnHandler ==
  ASSUME NEW p, NEW s \in SenderType, s.out = <<>>, s.deadChannel, ~s.drained, NEW sh, CountInv(p, s, sh),
         NEW R, NEW t, t = GetUndelivered(s)
  PROVE  DataHandlerOf(p, s, t, sh, R)
<1>1. ASSUME NEW la \in Int, NEW ms \in Int, SenderInv(s, R, la, ms), 0 .. la \subseteq R
      PROVE  Handled(s, t, R, la, ms) /\ CountInv(p, t, sh) /\ OnlyData(t.out)
  <2>1. /\ t \in SenderType /\ Returned(s, t) /\ Returns(s, t)
        /\ SenderInv(t, R, la, ms) /\ DataOut(t.out, la, ms)
    BY <1>1, NoOut, HandledReturn
  <2>2. ms + 0 = ms /\ 0 \in Nat
    OBVIOUS
  <2>3. Handled(s, t, R, la, ms)
    BY <2>1, <2>2 DEF Handled
  <2>4. t.out = <<>> /\ Counts(s, t)
    BY <2>1 DEF Returned, Counts
  <2>5. QED
    BY <2>3, <2>4, SameCounts, NoOut
<1>2. QED
  BY <1>1 DEF DataHandlerOf

(***************************************************************************)
(* The actions of the sending side.                                        *)
(***************************************************************************)
LEMMA SamePoint ==
  ASSUME NEW S, NEW T, NEW f \in [S -> T], NEW x \in S, NEW v, v = f[x]
  PROVE  f = [f EXCEPT ![x] = v]
  OBVIOUS

\* Sending nothing.
LEMMA NoAppend ==
  ASSUME NEW S, NEW q \in Seq(S)
  PROVE  q \o <<>> = q
  OBVIOUS

\* The bound on faults.
LEMMA FaultsLess ==
  ASSUME NEW f \in 0 .. MaxFaults, NEW g, g = f \/ (f > 0 /\ g = f - 1)
  PROVE  g \in 0 .. MaxFaults
  BY SpaceFacts

\* A handler that sends nothing.
LEMMA SenderChanges ==
  ASSUME ChannelInv, NEW p \in Node, NEW t \in SenderType, t.out = <<>>, NEW sh2, sh2 \in BOOLEAN,
         DataHandlerOf(p, snd[p], t, sh2, Received(passedUp[p])),
         snd' = [snd EXCEPT ![p] = t], link' = link, shutting' = [shutting EXCEPT ![p] = sh2],
         conn' \in [Node -> ConnType], faults' \in 0 .. MaxFaults,
         UNCHANGED <<rcv, dataRecvQueue, ackRecvQueue, batch, passedUp>>
  PROVE  Kept
<1>1. t = [t EXCEPT !.out = <<>>]
  BY DEF SenderType
<1>2. link \in [Node -> Seq(Message)] /\ link[p] \in Seq(Message)
  BY TypeFacts DEF ChannelInv, ChannelTypes
<1>3. link[p] \o t.out = link[p]
  BY <1>2, NoAppend
<1>4. link' = [link EXCEPT ![p] = @ \o t.out]
  BY <1>2, <1>3, SamePoint
<1>5. QED
  BY <1>1, <1>4, SenderMoves

\* The state of one sender.
LEMMA SenderState ==
  ASSUME ChannelInv, NEW p \in Node
  PROVE  /\ snd[p] \in SenderType /\ snd[p].out = <<>> /\ CountInv(p, snd[p], shutting[p])
         /\ shutting[p] \in BOOLEAN /\ shutting = [shutting EXCEPT ![p] = shutting[p]]
         /\ conn \in [Node -> ConnType] /\ faults \in 0 .. MaxFaults
<1>1. ChannelTypes /\ DirInv(p)
  BY DEF ChannelInv
<1>2. shutting \in [Node -> BOOLEAN]
  BY <1>1 DEF ChannelTypes
<1>3. CountInv(p, snd[p], shutting[p])
  BY <1>1 DEF DirInv, Dir
<1>4. QED
  BY <1>1, <1>2, <1>3, TypeFacts DEF ChannelTypes

\* The channel start packet keeps the invariant.
LEMMA StartUpKeeps == ASSUME ChannelInv, NEW p \in Node, StartUp(p) PROVE Kept
<1> DEFINE t == Send([snd[p] EXCEPT !.up = TRUE], TRUE, FALSE)
           R == Received(passedUp[p])
<1>1. ~snd[p].up /\ Apply(p, t)
  BY DEF StartUp
<1>2. t = Send([snd[p] EXCEPT !.up = TRUE], TRUE, FALSE) /\ R = Received(passedUp[p])
  OBVIOUS
<1>3. UNCHANGED <<rcv, dataRecvQueue, ackRecvQueue, batch, conn, shutting, passedUp, faults>>
  BY DEF StartUp
<1> HIDE DEF t, R
<1>4. DataHandlerOf(p, snd[p], t, shutting[p], R)
  BY <1>1, <1>2, SenderState, StartUpHandler
<1>5. snd' = [snd EXCEPT ![p] = [t EXCEPT !.out = <<>>]] /\ link' = [link EXCEPT ![p] = @ \o t.out]
  BY <1>1 DEF Apply
<1>6. QED
  BY <1>2, <1>3, <1>4, <1>5, SenderState, SenderMoves, ZenonT(60)

\* sendPacket keeps the invariant.
LEMMA SendPacketKeeps == ASSUME ChannelInv, NEW p \in Node, SendPacket(p) PROVE Kept
<1> DEFINE t == Send(snd[p], FALSE, FALSE)
           R == Received(passedUp[p])
<1>1. snd[p].started /\ snd[p].total <= MaxPackets[p] /\ Apply(p, t)
  BY DEF SendPacket, SpaceInCwnd
<1>2. t = Send(snd[p], FALSE, FALSE) /\ R = Received(passedUp[p])
  OBVIOUS
<1>3. UNCHANGED <<rcv, dataRecvQueue, ackRecvQueue, batch, conn, shutting, passedUp, faults>>
  BY DEF SendPacket
<1> HIDE DEF t, R
<1>4. snd[p].up /\ (shutting[p] \/ snd[p].shutDownSent => Closers # {})
  BY <1>1, SenderState, CountBound
<1>5. snd[p].total <= MaxPackets[p] + 0 /\ 0 \in 0 .. 2
  <2>1. snd[p].total \in Nat /\ MaxPackets[p] \in Nat
    BY SenderState, CountBound
  <2>2. QED
    BY <1>1, <2>1
<1>6. DataHandlerOf(p, snd[p], t, shutting[p], R)
  BY <1>2, <1>4, <1>5, SenderState, SendHandler
<1>7. snd' = [snd EXCEPT ![p] = [t EXCEPT !.out = <<>>]] /\ link' = [link EXCEPT ![p] = @ \o t.out]
  BY <1>1 DEF Apply
<1>8. QED
  BY <1>2, <1>3, <1>6, <1>7, SenderState, SenderMoves, ZenonT(60)

\* The first half of initShutdown keeps the invariant.
LEMMA InitShutdownKeeps == ASSUME ChannelInv, NEW p \in Node, InitShutdown(p) PROVE Kept
<1> DEFINE t == SendChf(snd[p])
           R == Received(passedUp[p])
<1>1. Closers # {} /\ snd[p].up /\ ~shutting[p] /\ ~snd[p].shutDownSent /\ Apply(p, t)
  BY DEF InitShutdown
<1>2. t = Send(snd[p], FALSE, TRUE) /\ R = Received(passedUp[p])
  BY DEF SendChf
<1>3. UNCHANGED <<rcv, dataRecvQueue, ackRecvQueue, batch, conn, passedUp, faults>>
      /\ shutting' = [shutting EXCEPT ![p] = TRUE]
  BY DEF InitShutdown
<1> HIDE DEF t, R
<1>4. snd[p].total <= MaxPackets[p] + 1 /\ 1 \in 0 .. 2
  BY <1>1, SenderState, CountBound
<1>5. DataHandlerOf(p, snd[p], t, TRUE, R)
  BY <1>1, <1>2, <1>4, SenderState, SendHandler
<1>6. snd' = [snd EXCEPT ![p] = [t EXCEPT !.out = <<>>]] /\ link' = [link EXCEPT ![p] = @ \o t.out]
  BY <1>1 DEF Apply
<1>7. QED
  BY <1>2, <1>3, <1>5, <1>6, SenderState, SenderMoves

\* timeoutEvent keeps the invariant.
LEMMA TimeoutEventKeeps ==
  ASSUME ChannelInv, NEW p \in Node, NEW E \in SUBSET snd[p].timerList, TimeoutEvent(p, E) PROVE Kept
<1> DEFINE t == Expired(snd[p], E)
           R == Received(passedUp[p])
<1>1. ~snd[p].deadChannel /\ Apply(p, t)
  BY DEF TimeoutEvent
<1>2. t = Expired(snd[p], E) /\ R = Received(passedUp[p])
  OBVIOUS
<1>3. UNCHANGED <<rcv, dataRecvQueue, ackRecvQueue, batch, conn, shutting, passedUp>>
  BY DEF TimeoutEvent
<1>4. faults' \in 0 .. MaxFaults
  <2>1. faults' = faults \/ (faults > 0 /\ faults' = faults - 1)
    BY DEF TimeoutEvent
  <2>2. QED
    BY <2>1, SenderState, FaultsLess
<1> HIDE DEF t, R
<1>5. E \in SUBSET SeqNo /\ E \subseteq snd[p].timerList
  BY SenderState DEF SenderType
<1>6. DataHandlerOf(p, snd[p], t, shutting[p], R)
  BY <1>1, <1>2, <1>5, SenderState, ExpiredHandler
<1>7. snd' = [snd EXCEPT ![p] = [t EXCEPT !.out = <<>>]] /\ link' = [link EXCEPT ![p] = @ \o t.out]
  BY <1>1 DEF Apply
<1>8. QED
  BY <1>2, <1>3, <1>4, <1>6, <1>7, SenderState, SenderMoves, ZenonT(60)

\* The end of an interface keeps the invariant.
LEMMA MarkDeadChannelKeeps == ASSUME ChannelInv, NEW p \in Node, MarkDeadChannel(p) PROVE Kept
<1> DEFINE s == snd[p]
           t == [s EXCEPT !.deadChannel = TRUE]
           R == Received(passedUp[p])
<1>1. /\ UNCHANGED <<rcv, link, dataRecvQueue, ackRecvQueue, batch, conn, shutting, passedUp>>
      /\ snd' = [snd EXCEPT ![p].deadChannel = TRUE]
      /\ faults > 0 /\ faults' = faults - 1
  BY DEF MarkDeadChannel
<1>2. snd \in [Node -> SenderType]
  BY DEF ChannelInv, ChannelTypes
<1>3. snd' = [snd EXCEPT ![p] = t]
  BY <1>1, <1>2
<1>4. s \in SenderType /\ s.out = <<>>
  BY SenderState
<1>5. faults' \in 0 .. MaxFaults
  BY <1>1, SenderState, FaultsLess
<1>6. s = snd[p] /\ R = Received(passedUp[p]) /\ t = [s EXCEPT !.deadChannel = TRUE]
  OBVIOUS
<1> HIDE DEF s, t, R
<1>7. t \in SenderType
  BY <1>4, <1>6, ZenonT(60) DEF SenderType
<1>8. /\ t.lastAcked = s.lastAcked /\ t.maxSent = s.maxSent /\ t.maxPacket = s.maxPacket
      /\ t.total = s.total /\ t.timerList = s.timerList /\ t.drained = s.drained
      /\ t.undelivered = s.undelivered /\ t.sendSeqLock = s.sendSeqLock
      /\ t.status = s.status /\ t.recover = s.recover /\ t.deadChannel
      /\ t.buf = s.buf /\ t.out = s.out
      /\ t.up = s.up /\ t.started = s.started /\ t.shutDownSent = s.shutDownSent
  BY <1>4, <1>6 DEF SenderType
<1>9. Like(s, t) /\ Counts(s, t)
  BY <1>8 DEF Like, Counts
<1>10. CountInv(p, t, shutting[p])
  BY <1>6, <1>9, SenderState, SameCounts
<1>11. DataHandlerOf(p, s, t, shutting[p], R)
  BY <1>4, <1>7, <1>8, <1>9, <1>10, LikeHandler
<1>12. DataHandlerOf(p, snd[p], t, shutting[p], Received(passedUp[p])) /\ t.out = <<>>
  BY <1>4, <1>6, <1>8, <1>11
<1>13. /\ shutting[p] \in BOOLEAN /\ shutting' = [shutting EXCEPT ![p] = shutting[p]]
       /\ conn' \in [Node -> ConnType]
  BY <1>1, SenderState
<1>14. QED
  BY <1>1, <1>3, <1>5, <1>7, <1>12, <1>13, SenderChanges

\* notifyDead keeps the invariant.
LEMMA NotifyDeadChannelKeeps == ASSUME ChannelInv, NEW p \in Node, NotifyDeadChannel(p) PROVE Kept
<1> DEFINE s == snd[p]
           t == GetUndelivered(s)
           R == Received(passedUp[p])
<1>1. /\ UNCHANGED <<rcv, link, dataRecvQueue, ackRecvQueue, batch, conn, shutting, passedUp, faults>>
      /\ snd' = [snd EXCEPT ![p] = t]
      /\ s.deadChannel /\ ~s.drained
  BY DEF NotifyDeadChannel
<1>2. s \in SenderType /\ s.out = <<>> /\ CountInv(p, s, shutting[p])
  BY SenderState
<1>3. s = snd[p] /\ R = Received(passedUp[p]) /\ t = GetUndelivered(s)
  OBVIOUS
<1>4. Dir(p, s, shutting[p], R, rcv[Peer(p)], dataRecvQueue[Peer(p)], link[p], batch[p].acks,
          ackRecvQueue[p], link[Peer(p)])
  BY DEF ChannelInv, DirInv
<1> HIDE DEF s, t, R
<1>5. DataHandlerOf(p, s, t, shutting[p], R)
  BY <1>1, <1>2, <1>3, ReturnHandler
<1>6. t \in SenderType /\ t.out = <<>>
  <2>1. PICK la, ms, e \in Int : SenderInv(s, R, la, ms) /\ ReceiverInv(rcv[Peer(p)], R, la, ms, e)
    BY <1>4 DEF Dir
  <2>2. 0 .. la \subseteq R
    BY <1>2, <2>1, DirNumbers
  <2>3. DataOut(s.out, la, ms)
    BY <1>2, NoOut
  <2>4. t \in SenderType /\ Returned(s, t)
    BY <1>1, <1>2, <1>3, <2>1, <2>2, <2>3, HandledReturn
  <2>5. QED
    BY <1>2, <2>4 DEF Returned
<1>7. QED
  BY <1>1, <1>3, <1>5, <1>6, SenderState, SenderChanges

\* The second half of initShutdown keeps the invariant.
LEMMA FinishInitShutdownKeeps == ASSUME ChannelInv, NEW p \in Node, FinishInitShutdown(p) PROVE Kept
<1> DEFINE s == snd[p]
           t == ShutdownFlags(s)
           R == Received(passedUp[p])
<1>1. /\ UNCHANGED <<rcv, link, dataRecvQueue, ackRecvQueue, batch, conn, passedUp, faults>>
      /\ snd' = [snd EXCEPT ![p] = t] /\ shutting' = [shutting EXCEPT ![p] = FALSE]
      /\ shutting[p]
  BY DEF FinishInitShutdown
<1>2. s \in SenderType /\ s.out = <<>> /\ CountInv(p, s, shutting[p])
  BY SenderState
<1>3. s = snd[p] /\ R = Received(passedUp[p]) /\ t = [s EXCEPT !.shutDownSent = TRUE, !.closed = TRUE]
  BY DEF ShutdownFlags
<1> HIDE DEF s, t, R
<1>7. t \in SenderType
  BY <1>2, <1>3, ZenonT(60) DEF SenderType
<1>8. /\ t.lastAcked = s.lastAcked /\ t.maxSent = s.maxSent /\ t.maxPacket = s.maxPacket
      /\ t.total = s.total /\ t.timerList = s.timerList /\ t.drained = s.drained
      /\ t.undelivered = s.undelivered /\ t.sendSeqLock = s.sendSeqLock
      /\ t.status = s.status /\ t.recover = s.recover /\ t.deadChannel = s.deadChannel
      /\ t.buf = s.buf /\ t.out = s.out
      /\ t.up = s.up /\ t.started = s.started /\ t.shutDownSent
  BY <1>2, <1>3 DEF SenderType
<1>9. Like(s, t)
  BY <1>8 DEF Like
<1>10. CountInv(p, t, FALSE)
  <2>1. s.total \in Nat /\ MaxPackets[p] \in Nat /\ s.up /\ Closers # {}
    BY <1>1, <1>2, CountBound
  <2>2. s.total <= MaxPackets[p] + 1 + 2
    BY <1>1, <1>2, <2>1 DEF CountInv
  <2>3. QED
    BY <1>8, <2>1, <2>2 DEF CountInv
<1>11. DataHandlerOf(p, s, t, FALSE, R)
  BY <1>2, <1>7, <1>8, <1>9, <1>10, LikeHandler
<1>12. t.out = <<>> /\ FALSE \in BOOLEAN
  BY <1>2, <1>8
<1>13. DataHandlerOf(p, snd[p], t, FALSE, Received(passedUp[p]))
  BY <1>3, <1>11
<1>14. QED
  BY <1>1, <1>7, <1>12, <1>13, SenderState, SenderChanges

\* recv setting ackRcvd_ keeps the invariant, whichever packet the slot holds by then.
LEMMA MarkAckedKeeps == ASSUME ChannelInv, NEW p \in Node, MarkAcked(p) PROVE Kept
<1> DEFINE s == snd[p]
           q == conn[p].orig
           t == [s EXCEPT !.buf = [s.buf EXCEPT ![q] = [s.buf[q] EXCEPT !.ackRcvd = TRUE]]]
           R == Received(passedUp[p])
<1>1. /\ UNCHANGED <<rcv, link, dataRecvQueue, ackRecvQueue, batch, shutting, passedUp, faults>>
      /\ snd' = [snd EXCEPT ![p].buf[conn[p].orig].ackRcvd = TRUE]
      /\ conn' = [conn EXCEPT ![p] = [pc |-> "idle", orig |-> 0]]
  BY DEF MarkAcked
<1>2. snd \in [Node -> SenderType] /\ conn \in [Node -> ConnType] /\ q \in SeqNo
  BY TypeFacts DEF ChannelInv, ChannelTypes, ConnType
<1>3. snd' = [snd EXCEPT ![p] = t]
  BY <1>1, <1>2 DEF SenderType
<1>4. s \in SenderType /\ s.out = <<>> /\ s.buf \in [SeqNo -> SlotType]
  BY SenderState DEF SenderType
<1>5. conn' \in [Node -> ConnType]
  <2>1. [pc |-> "idle", orig |-> 0] \in ConnType
    BY SeqCntFacts DEF ConnType, SeqNo
  <2>2. QED
    BY <1>1, <1>2, <2>1
<1>6. s = snd[p] /\ R = Received(passedUp[p])
  OBVIOUS
<1> DEFINE x == [s.buf[q] EXCEPT !.ackRcvd = TRUE]
           f == [s.buf EXCEPT ![q] = x]
<1>7. x \in SlotType /\ x.pkt = s.buf[q].pkt /\ x.pktSent = s.buf[q].pktSent
  BY <1>2, <1>4 DEF SlotType
<1>8. f \in [SeqNo -> SlotType] /\ t = [s EXCEPT !.buf = f]
  BY <1>2, <1>4, <1>7
<1>9. \A y \in SeqNo : f[y].pkt = s.buf[y].pkt /\ f[y].pktSent = s.buf[y].pktSent
  BY <1>2, <1>4, <1>7
<1> HIDE DEF s, t, R, q, x, f
<1>10. t \in SenderType
  BY <1>4, <1>8 DEF SenderType
<1>11. /\ t.lastAcked = s.lastAcked /\ t.maxSent = s.maxSent /\ t.maxPacket = s.maxPacket
       /\ t.total = s.total /\ t.timerList = s.timerList /\ t.drained = s.drained
       /\ t.undelivered = s.undelivered /\ t.sendSeqLock = s.sendSeqLock
       /\ t.status = s.status /\ t.recover = s.recover /\ t.deadChannel = s.deadChannel
       /\ t.buf = f /\ t.out = s.out
       /\ t.up = s.up /\ t.started = s.started /\ t.shutDownSent = s.shutDownSent
  BY <1>4, <1>8 DEF SenderType
<1>12. Like(s, t) /\ Counts(s, t)
  BY <1>9, <1>11 DEF Like, Counts
<1>13. CountInv(p, t, shutting[p])
  BY <1>6, <1>12, SenderState, SameCounts
<1>14. t.out = <<>>
  BY <1>4, <1>11
<1>15. DataHandlerOf(p, s, t, shutting[p], R)
  BY <1>4, <1>10, <1>12, <1>13, <1>14, LikeHandler
<1>16. DataHandlerOf(p, snd[p], t, shutting[p], Received(passedUp[p]))
  BY <1>6, <1>15
<1>17. /\ shutting[p] \in BOOLEAN /\ shutting' = [shutting EXCEPT ![p] = shutting[p]]
       /\ faults' \in 0 .. MaxFaults
  BY <1>1, SenderState
<1>18. QED
  BY <1>1, <1>3, <1>5, <1>10, <1>14, <1>16, <1>17, SenderChanges

(***************************************************************************)
(* The actions of the acknowledgements and of the path.                    *)
(***************************************************************************)
LEMMA DirOf ==
  ASSUME ChannelInv, NEW p \in Node, NEW r, r = Peer(p)
  PROVE  /\ r \in Node /\ r # p /\ Peer(r) = p /\ ChannelTypes
         /\ Dir(p, snd[p], shutting[p], Received(passedUp[p]), rcv[r], dataRecvQueue[r], link[p],
                batch[p].acks, ackRecvQueue[p], link[r])
         /\ Dir(r, snd[r], shutting[r], Received(passedUp[r]), rcv[p], dataRecvQueue[p], link[r],
                batch[r].acks, ackRecvQueue[r], link[p])
  BY PeerFacts DEF ChannelInv, DirInv

\* What happens when neither a sender nor what was passed up changes.
LEMMA SameSender == ASSUME NEW p, snd' = snd, passedUp' = passedUp PROVE DirStep(p)
  BY SubmitsNothing DEF DirStep

\* Packets and acknowledgements that move or vanish, as long as nothing is reordered.
LEMMA Moving ==
  ASSUME ChannelInv, NEW p \in Node, NEW r, r = Peer(p), ChannelTypes',
         UNCHANGED <<snd, rcv, shutting, passedUp>>,
         LessData(dataRecvQueue'[r], link'[p], dataRecvQueue[r], link[p]),
         LessData(dataRecvQueue'[p], link'[r], dataRecvQueue[p], link[r]),
         LessAck(batch'[p].acks, ackRecvQueue'[p], link'[r], batch[p].acks, ackRecvQueue[p], link[r]),
         LessAck(batch'[r].acks, ackRecvQueue'[r], link'[p], batch[r].acks, ackRecvQueue[r], link[p])
  PROVE  Kept
<1>1. /\ r \in Node /\ r # p /\ Peer(r) = p /\ ChannelTypes
      /\ Dir(p, snd[p], shutting[p], Received(passedUp[p]), rcv[r], dataRecvQueue[r], link[p],
             batch[p].acks, ackRecvQueue[p], link[r])
      /\ Dir(r, snd[r], shutting[r], Received(passedUp[r]), rcv[p], dataRecvQueue[p], link[r],
             batch[r].acks, ackRecvQueue[r], link[p])
  BY DirOf
<1>2. /\ link[p] \in Seq(Message) /\ batch[p].acks \in Seq(AckType)
      /\ ackRecvQueue[p] \in Seq(AckType) /\ dataRecvQueue[p] \in Seq(DataType)
  BY <1>1, TypeFacts
<1>3. /\ link[r] \in Seq(Message) /\ batch[r].acks \in Seq(AckType)
      /\ ackRecvQueue[r] \in Seq(AckType) /\ dataRecvQueue[r] \in Seq(DataType)
  BY <1>1, TypeFacts
<1>4. Dir(p, snd[p], shutting[p], Received(passedUp[p]), rcv[r], dataRecvQueue'[r], link'[p],
          batch'[p].acks, ackRecvQueue'[p], link'[r])
  BY <1>1, <1>2, <1>3, DirLess
<1>5. Dir(r, snd[r], shutting[r], Received(passedUp[r]), rcv[p], dataRecvQueue'[p], link'[r],
          batch'[r].acks, ackRecvQueue'[r], link'[p])
  BY <1>1, <1>2, <1>3, DirLess
<1>6. DirInv(p)'
  BY <1>4 DEF DirInv
<1>7. DirInv(r)'
  BY <1>1, <1>5 DEF DirInv
<1>8. DirStep(p) /\ DirStep(r)
  BY SameSender
<1>9. QED
  BY <1>6, <1>7, <1>8, KeptBoth

\* Unchanged queues of data.
LEMMA LessDataSame == ASSUME NEW dq, NEW l PROVE LessData(dq, l, dq, l)
  BY ThinnerSame, LessThinner

\* Unchanged queues of acknowledgements.
LEMMA LessAckSame == ASSUME NEW b, NEW a, NEW l PROVE LessAck(b, a, l, b, a, l)
  BY ThinnerSame, LessAckThinner

\* recv reading pktSent_ keeps the invariant.
LEMMA TestSentKeeps == ASSUME ChannelInv, NEW p \in Node, TestSent(p) PROVE Kept
<1>1. /\ UNCHANGED <<snd, rcv, link, dataRecvQueue, ackRecvQueue, batch, shutting, passedUp, faults>>
      /\ conn' = [conn EXCEPT ![p] = IF snd[p].buf[@.orig].pktSent
                                     THEN [@ EXCEPT !.pc = "mark"]
                                     ELSE [pc |-> "idle", orig |-> 0]]
  BY DEF TestSent
<1>2. ChannelTypes /\ conn \in [Node -> ConnType]
  BY DEF ChannelInv, ChannelTypes
<1>3. [pc |-> "idle", orig |-> 0] \in ConnType /\ [conn[p] EXCEPT !.pc = "mark"] \in ConnType
  BY <1>2, SeqCntFacts DEF ConnType, SeqNo
<1>4. conn' \in [Node -> ConnType]
  BY <1>1, <1>2, <1>3
<1>5. ChannelTypes'
  BY <1>1, <1>2, <1>4 DEF ChannelTypes
<1>6. QED
  BY <1>1, <1>5, LessDataSame, LessAckSame, Moving

\* ackRecv taking its batch keeps the invariant.
LEMMA TakeAcksKeeps == ASSUME ChannelInv, NEW p \in Node, TakeAcks(p) PROVE Kept
<1> DEFINE acks == ackRecvQueue[p]
           ahead(i) == Dist(acks[i].ackNo, snd[p].lastAcked)
           far == CHOOSE i \in DOMAIN acks : \A j \in DOMAIN acks : ahead(j) <= ahead(i)
           r == Peer(p)
<1>1. /\ acks # <<>> /\ Unlocked(p)
      /\ batch' = [batch EXCEPT ![p] = [acks |-> acks, maxAck |-> acks[far].ackNo,
                                        normalisedMax |-> ahead(far)]]
      /\ ackRecvQueue' = [ackRecvQueue EXCEPT ![p] = <<>>]
      /\ UNCHANGED <<snd, rcv, link, dataRecvQueue, conn, shutting, passedUp, faults>>
  BY DEF TakeAcks
<1>2. ChannelTypes /\ r \in Node /\ r # p
  BY DirOf
<1>3. /\ acks \in Seq(AckType) /\ snd[p] \in SenderType
      /\ batch \in [Node -> BatchType] /\ ackRecvQueue \in [Node -> Seq(AckType)]
  BY <1>2, TypeFacts DEF ChannelTypes
<1>4. far \in DOMAIN acks
  <2> DEFINE T == {ahead(i) : i \in DOMAIN acks}
  <2>1. ASSUME NEW i \in DOMAIN acks PROVE ahead(i) \in Int /\ 0 <= ahead(i) /\ ahead(i) < SeqCnt
    <3>1. acks[i].ackNo \in SeqNo /\ snd[p].lastAcked \in SeqNo
      <4>1. acks[i] \in AckType
        BY <1>3, <2>1
      <4>2. QED
        BY <1>3, <4>1 DEF AckType, SenderType
    <3>2. ahead(i) \in SeqNo
      BY <3>1, DistSound
    <3>3. QED
      BY <3>2, SeqCntFacts DEF SeqNo
  <2>2. \E i \in DOMAIN acks : \A j \in DOMAIN acks : ahead(j) <= ahead(i)
    <3> DEFINE U == {n \in Nat : \E i \in DOMAIN acks : n = SeqCnt - ahead(i)}
    <3>1. U \subseteq Nat
      OBVIOUS
    <3>2. 1 \in DOMAIN acks
      BY <1>1, <1>3
    <3>3. SeqCnt - ahead(1) \in U
      BY <2>1, <3>2, SeqCntFacts
    <3>4. PICK n \in U : \A m \in U : n <= m
      <4> HIDE DEF U
      <4>1. QED
        BY <3>1, <3>3, LeastOf
    <3>5. PICK i \in DOMAIN acks : n = SeqCnt - ahead(i)
      BY <3>4
    <3>6. ASSUME NEW j \in DOMAIN acks PROVE ahead(j) <= ahead(i)
      <4>1. ahead(j) \in Int /\ ahead(j) < SeqCnt /\ ahead(i) \in Int
        BY <2>1, <3>5, <3>6
      <4>2. SeqCnt - ahead(j) \in U
        BY <4>1, <3>6, SeqCntFacts
      <4>3. SeqCnt - ahead(i) <= SeqCnt - ahead(j)
        BY <3>4, <3>5, <4>2
      <4> HIDE DEF ahead
      <4>4. QED
        BY <4>1, <4>3, SeqCntFacts
    <3>7. QED
      BY <3>6
  <2> HIDE DEF ahead
  <2>3. QED
    BY <2>2
<1>5. acks[far].ackNo \in SeqNo /\ ahead(far) \in SeqNo
  <2>1. acks[far].ackNo \in SeqNo /\ snd[p].lastAcked \in SeqNo
    <3> HIDE DEF far
    <3>1. acks[far] \in AckType
      BY <1>3, <1>4
    <3>2. QED
      BY <1>3, <3>1 DEF AckType, SenderType
  <2> HIDE DEF far
  <2>2. QED
    BY <2>1, DistSound
<1> DEFINE new == [acks |-> acks, maxAck |-> acks[far].ackNo, normalisedMax |-> ahead(far)]
<1>6. new \in BatchType /\ new.acks = acks
  <2> HIDE DEF far, ahead
  <2>1. QED
    BY <1>3, <1>5 DEF BatchType
<1>7. batch' = [batch EXCEPT ![p] = new]
  BY <1>1
<1>17. Unlocked(p) => batch[p].acks = <<>>
  BY DEF Unlocked
<1> HIDE DEF new, far, ahead
<1>8. ChannelTypes'
  <2>1. batch' \in [Node -> BatchType]
    BY <1>3, <1>6, <1>7
  <2>2. ackRecvQueue' \in [Node -> Seq(AckType)]
    BY <1>1, <1>3
  <2>3. QED
    BY <1>1, <1>2, <2>1, <2>2 DEF ChannelTypes
<1>9. /\ batch'[p].acks = acks /\ ackRecvQueue'[p] = <<>>
      /\ batch'[r] = batch[r] /\ ackRecvQueue'[r] = ackRecvQueue[r]
  BY <1>1, <1>2, <1>3, <1>6, <1>7
<1>10. LessAck(acks, ackRecvQueue'[p], link[r], batch[p].acks, acks, link[r])
  BY <1>1, <1>9, <1>17, LessAckTaken
<1>11. LessAck(batch'[p].acks, ackRecvQueue'[p], link'[r], batch[p].acks, ackRecvQueue[p], link[r])
  BY <1>1, <1>9, <1>10
<1>12. LessAck(batch'[r].acks, ackRecvQueue'[r], link'[p], batch[r].acks, ackRecvQueue[r], link[p])
  BY <1>1, <1>9, LessAckSame
<1>13. LessData(dataRecvQueue'[r], link'[p], dataRecvQueue[r], link[p])
  BY <1>1, LessDataSame
<1>14. LessData(dataRecvQueue'[p], link'[r], dataRecvQueue[p], link[r])
  BY <1>1, LessDataSame
<1>15. UNCHANGED <<snd, rcv, shutting, passedUp>>
  BY <1>1
<1>16. QED
  BY <1>8, <1>11, <1>12, <1>13, <1>14, <1>15, Moving

\* A datagram is an acknowledgement or data.
LEMMA MessageKinds ==
  ASSUME NEW m \in Message
  PROVE  /\ m.type = "ACK" => m \in AckType
         /\ m.type # "ACK" => m \in DataType
  BY DEF Message, DataType, AckType

\* recv queueing a datagram keeps the invariant.
LEMMA ReceiveKeeps == ASSUME ChannelInv, NEW p \in Node, Receive(p) PROVE Kept
<1> DEFINE r == Peer(p)
           m == Head(link[r])
<1>1. /\ link[r] # <<>>
      /\ link' = [link EXCEPT ![r] = Tail(@)]
      /\ IF snd[p].drained
         THEN UNCHANGED <<dataRecvQueue, ackRecvQueue, conn>>
         ELSE IF m.type = "ACK"
         THEN /\ ackRecvQueue' = [ackRecvQueue EXCEPT ![p] = Append(@, m)]
              /\ conn' = [conn EXCEPT ![p] = [pc |-> "test", orig |-> m.orig]]
              /\ UNCHANGED dataRecvQueue
         ELSE /\ dataRecvQueue' = [dataRecvQueue EXCEPT ![p] = Append(@, m)]
              /\ UNCHANGED <<ackRecvQueue, conn>>
      /\ UNCHANGED <<snd, rcv, batch, shutting, passedUp, faults>>
  BY DEF Receive
<1>2. ChannelTypes /\ r \in Node /\ r # p /\ r = Peer(p)
  BY DirOf
<1>3. /\ link \in [Node -> Seq(Message)] /\ dataRecvQueue \in [Node -> Seq(DataType)]
      /\ ackRecvQueue \in [Node -> Seq(AckType)] /\ conn \in [Node -> ConnType]
      /\ link[r] \in Seq(Message) /\ dataRecvQueue[p] \in Seq(DataType) /\ ackRecvQueue[p] \in Seq(AckType)
  BY <1>2, TypeFacts DEF ChannelTypes
<1>4. Tail(link[r]) \in Seq(Message) /\ m \in Message /\ Thinner(Tail(link[r]), link[r])
  BY <1>1, <1>3, TailIn, ThinnerTail
<1>5. (m.type = "ACK" => m \in AckType) /\ (m.type # "ACK" => m \in DataType)
  BY <1>4, MessageKinds
<1>6. link' \in [Node -> Seq(Message)] /\ link'[r] = Tail(link[r]) /\ link'[p] = link[p]
  BY <1>1, <1>2, <1>3, <1>4
<1>7. m = Head(link[r])
  OBVIOUS
<1> HIDE DEF m, r
<1>8. UNCHANGED <<snd, rcv, batch, shutting, passedUp, faults>>
  BY <1>1
<1>9. CASE snd[p].drained
  <2>1. UNCHANGED <<dataRecvQueue, ackRecvQueue, conn>>
    BY <1>1, <1>9
  <2>2. ChannelTypes'
    BY <1>2, <1>6, <1>8, <2>1 DEF ChannelTypes
  <2>3. LessData(dataRecvQueue'[r], link'[p], dataRecvQueue[r], link[p])
    BY <1>6, <2>1, LessDataSame
  <2>4. LessData(dataRecvQueue'[p], link'[r], dataRecvQueue[p], link[r])
    BY <1>4, <1>6, <2>1, ThinnerSame, LessThinner
  <2>5. LessAck(batch'[p].acks, ackRecvQueue'[p], link'[r], batch[p].acks, ackRecvQueue[p], link[r])
    BY <1>4, <1>6, <1>8, <2>1, ThinnerSame, LessAckThinner
  <2>6. LessAck(batch'[r].acks, ackRecvQueue'[r], link'[p], batch[r].acks, ackRecvQueue[r], link[p])
    BY <1>6, <1>8, <2>1, LessAckSame
  <2>7. QED
    BY <1>2, <1>8, <2>2, <2>3, <2>4, <2>5, <2>6, Moving
<1>10. CASE ~snd[p].drained /\ m.type = "ACK"
  <2>1. /\ ackRecvQueue' = [ackRecvQueue EXCEPT ![p] = Append(@, m)]
        /\ conn' = [conn EXCEPT ![p] = [pc |-> "test", orig |-> m.orig]]
        /\ UNCHANGED dataRecvQueue
    BY <1>1, <1>10
  <2>2. m \in AckType
    BY <1>5, <1>10
  <2>3. /\ Append(ackRecvQueue[p], m) \in Seq(AckType)
        /\ LessAck(batch[p].acks, Append(ackRecvQueue[p], m), Tail(link[r]), batch[p].acks, ackRecvQueue[p], link[r])
    BY <1>1, <1>3, <1>7, <2>2, LessAckReceived
  <2>4. [pc |-> "test", orig |-> m.orig] \in ConnType
    BY <2>2 DEF ConnType, AckType
  <2>5. conn' \in [Node -> ConnType]
    BY <1>3, <2>1, <2>4
  <2>6. /\ ackRecvQueue' \in [Node -> Seq(AckType)] /\ ackRecvQueue'[p] = Append(ackRecvQueue[p], m)
        /\ ackRecvQueue'[r] = ackRecvQueue[r]
    BY <1>2, <1>3, <2>1, <2>3
  <2>7. ChannelTypes'
    BY <1>2, <1>6, <1>8, <2>1, <2>5, <2>6 DEF ChannelTypes
  <2>8. LessData(dataRecvQueue'[r], link'[p], dataRecvQueue[r], link[p])
    BY <1>6, <2>1, LessDataSame
  <2>9. LessData(dataRecvQueue'[p], link'[r], dataRecvQueue[p], link[r])
    BY <1>4, <1>6, <2>1, ThinnerSame, LessThinner
  <2>10. LessAck(batch'[p].acks, ackRecvQueue'[p], link'[r], batch[p].acks, ackRecvQueue[p], link[r])
    BY <1>6, <1>8, <2>3, <2>6
  <2>11. LessAck(batch'[r].acks, ackRecvQueue'[r], link'[p], batch[r].acks, ackRecvQueue[r], link[p])
    BY <1>6, <1>8, <2>6, LessAckSame
  <2>12. QED
    BY <1>2, <1>8, <2>7, <2>8, <2>9, <2>10, <2>11, Moving
<1>11. CASE ~snd[p].drained /\ m.type # "ACK"
  <2>1. /\ dataRecvQueue' = [dataRecvQueue EXCEPT ![p] = Append(@, m)]
        /\ UNCHANGED <<ackRecvQueue, conn>>
    BY <1>1, <1>11
  <2>2. m \in DataType
    BY <1>5, <1>11
  <2>3. /\ Append(dataRecvQueue[p], m) \in Seq(DataType)
        /\ LessData(Append(dataRecvQueue[p], m), Tail(link[r]), dataRecvQueue[p], link[r])
    BY <1>1, <1>3, <1>7, <2>2, LessReceived
  <2>4. /\ dataRecvQueue' \in [Node -> Seq(DataType)] /\ dataRecvQueue'[p] = Append(dataRecvQueue[p], m)
        /\ dataRecvQueue'[r] = dataRecvQueue[r]
    BY <1>2, <1>3, <2>1, <2>3
  <2>5. ChannelTypes'
    BY <1>2, <1>6, <1>8, <2>1, <2>4 DEF ChannelTypes
  <2>6. LessData(dataRecvQueue'[r], link'[p], dataRecvQueue[r], link[p])
    BY <1>6, <2>4, LessDataSame
  <2>7. LessData(dataRecvQueue'[p], link'[r], dataRecvQueue[p], link[r])
    BY <1>6, <2>3, <2>4
  <2>8. LessAck(batch'[p].acks, ackRecvQueue'[p], link'[r], batch[p].acks, ackRecvQueue[p], link[r])
    BY <1>4, <1>6, <1>8, <2>1, ThinnerSame, LessAckThinner
  <2>9. LessAck(batch'[r].acks, ackRecvQueue'[r], link'[p], batch[r].acks, ackRecvQueue[r], link[p])
    BY <1>6, <1>8, <2>1, LessAckSame
  <2>10. QED
    BY <1>2, <1>8, <2>5, <2>6, <2>7, <2>8, <2>9, Moving
<1>12. QED
  BY <1>9, <1>10, <1>11

\* Losing and duplicating datagrams.
LEMMA ThinnerKeeps ==
  ASSUME ChannelInv, NEW p \in Node, NEW kind, NEW l \in Seq(Message), Faulty(p, kind, l), Thinner(l, link[p])
  PROVE  Kept
<1> DEFINE r == Peer(p)
<1>1. /\ faults > 0 /\ faults' = faults - 1 /\ link' = [link EXCEPT ![p] = l]
      /\ UNCHANGED <<snd, rcv, dataRecvQueue, ackRecvQueue, batch, conn, shutting, passedUp>>
  BY DEF Faulty
<1>2. ChannelTypes /\ r \in Node /\ r # p /\ r = Peer(p)
  BY DirOf
<1>3. link \in [Node -> Seq(Message)]
  BY <1>2 DEF ChannelTypes
<1> HIDE DEF r
<1>4. link' \in [Node -> Seq(Message)] /\ link'[p] = l /\ link'[r] = link[r]
  BY <1>1, <1>2, <1>3
<1>5. faults' \in 0 .. MaxFaults
  BY <1>1, SenderState, FaultsLess
<1>6. ChannelTypes'
  BY <1>1, <1>2, <1>4, <1>5 DEF ChannelTypes
<1>7. LessData(dataRecvQueue'[r], link'[p], dataRecvQueue[r], link[p])
  BY <1>1, <1>4, ThinnerSame, LessThinner
<1>8. LessData(dataRecvQueue'[p], link'[r], dataRecvQueue[p], link[r])
  BY <1>1, <1>4, LessDataSame
<1>9. LessAck(batch'[p].acks, ackRecvQueue'[p], link'[r], batch[p].acks, ackRecvQueue[p], link[r])
  BY <1>1, <1>4, LessAckSame
<1>10. LessAck(batch'[r].acks, ackRecvQueue'[r], link'[p], batch[r].acks, ackRecvQueue[r], link[p])
  BY <1>1, <1>4, ThinnerSame, LessAckThinner
<1>11. QED
  BY <1>1, <1>2, <1>6, <1>7, <1>8, <1>9, <1>10, Moving

\* A lost datagram keeps the invariant,
LEMMA LoseKeeps == ASSUME ChannelInv, NEW p \in Node, NEW i \in DOMAIN link[p], Lose(p, i) PROVE Kept
<1>1. link[p] \in Seq(Message)
  BY TypeFacts DEF ChannelInv
<1>2. Thinner(RemoveAt(link[p], i), link[p]) /\ RemoveAt(link[p], i) \in Seq(Message)
  BY <1>1, ThinnerRemove
<1>3. QED
  BY <1>2, ThinnerKeeps DEF Lose

\* ... and so does a duplicated one,
LEMMA DuplicateKeeps == ASSUME ChannelInv, NEW p \in Node, NEW i \in DOMAIN link[p], Duplicate(p, i) PROVE Kept
<1>1. link[p] \in Seq(Message)
  BY TypeFacts DEF ChannelInv
<1>2. Thinner(InsertAt(link[p], i, link[p][i]), link[p]) /\ InsertAt(link[p], i, link[p][i]) \in Seq(Message)
  BY <1>1, ThinnerInsert
<1>3. QED
  BY <1>2, ThinnerKeeps DEF Duplicate

\* ... and a reordered one when less than half of the sequence space is used.
LEMMA ReorderKeeps ==
  ASSUME Orderly, ChannelInv, NEW p \in Node, NEW i \in DOMAIN link[p], Reorder(p, i) PROVE Kept
<1> DEFINE r == Peer(p)
           l == [link[p] EXCEPT ![i] = link[p][i + 1], ![i + 1] = link[p][i]]
<1>1. /\ i < Len(link[p]) /\ "reorder" \in FaultKinds
      /\ faults > 0 /\ faults' = faults - 1 /\ link' = [link EXCEPT ![p] = l]
      /\ UNCHANGED <<snd, rcv, dataRecvQueue, ackRecvQueue, batch, conn, shutting, passedUp>>
  BY DEF Reorder, Faulty
<1>2. /\ r \in Node /\ r # p /\ Peer(r) = p /\ ChannelTypes
      /\ Dir(p, snd[p], shutting[p], Received(passedUp[p]), rcv[r], dataRecvQueue[r], link[p],
             batch[p].acks, ackRecvQueue[p], link[r])
      /\ Dir(r, snd[r], shutting[r], Received(passedUp[r]), rcv[p], dataRecvQueue[p], link[r],
             batch[r].acks, ackRecvQueue[r], link[p])
  BY DirOf
<1>3. /\ link \in [Node -> Seq(Message)] /\ link[p] \in Seq(Message) /\ snd[p] \in SenderType
      /\ dataRecvQueue[r] \in Seq(DataType)
      /\ link[r] \in Seq(Message) /\ dataRecvQueue[p] \in Seq(DataType)
      /\ batch[r].acks \in Seq(AckType) /\ ackRecvQueue[r] \in Seq(AckType)
  BY <1>2, TypeFacts DEF ChannelTypes
<1>15. l = [link[p] EXCEPT ![i] = link[p][i + 1], ![i + 1] = link[p][i]]
  OBVIOUS
<1> HIDE DEF r, l
<1>4. l \in Seq(Message) /\ \A m : In(l, m) => In(link[p], m)
  <2>1. Reordered(Message, l, link[p])
    BY <1>1, <1>3, <1>15, SwapIn
  <2>2. QED
    BY <2>1 DEF Reordered
<1>5. link' \in [Node -> Seq(Message)] /\ link'[p] = l /\ link'[r] = link[r]
  BY <1>1, <1>2, <1>3, <1>4
<1>6. faults' \in 0 .. MaxFaults
  BY <1>1, SenderState, FaultsLess
<1>7. ChannelTypes'
  BY <1>1, <1>2, <1>5, <1>6 DEF ChannelTypes
<1>8. Dir(p, snd[p], shutting[p], Received(passedUp[p]), rcv[r], dataRecvQueue[r], l,
          batch[p].acks, ackRecvQueue[p], link[r])
  BY <1>1, <1>2, <1>3, <1>4, DirSwapped DEF Orderly
<1>9. LessAck(batch[r].acks, ackRecvQueue[r], l, batch[r].acks, ackRecvQueue[r], link[p])
  BY <1>1, <1>4, LessAckSwapped
<1>10. Dir(r, snd[r], shutting[r], Received(passedUp[r]), rcv[p], dataRecvQueue[p], link[r],
           batch[r].acks, ackRecvQueue[r], l)
  BY <1>2, <1>3, <1>9, LessDataSame, DirLess
<1>11. DirInv(p)'
  BY <1>1, <1>5, <1>8 DEF DirInv, r
<1>12. DirInv(r)'
  BY <1>1, <1>2, <1>5, <1>10 DEF DirInv
<1>13. DirStep(p) /\ DirStep(r)
  BY <1>1, SameSender
<1>14. QED
  BY <1>7, <1>11, <1>12, <1>13, KeptBoth DEF r

(***************************************************************************)
(* ackRecv.                                                                *)
(***************************************************************************)
LEMMA DirLike ==
  ASSUME NEW p, NEW s \in SenderType, NEW sh, NEW R, NEW rc, NEW dq \in Seq(DataType), NEW lk \in Seq(Message),
         NEW b \in Seq(AckType), NEW a \in Seq(AckType), NEW bk \in Seq(Message),
         Dir(p, s, sh, R, rc, dq, lk, b, a, bk),
         NEW t \in SenderType, Like(s, t), Counts(s, t)
  PROVE  Dir(p, t, sh, R, rc, dq, lk, b, a, bk)
<1>1. CountInv(p, t, sh)
  BY SameCounts DEF Dir
<1>2. ASSUME NEW la \in Int, NEW ms \in Int, SenderInv(s, R, la, ms) PROVE MovedOut(s, t, <<>>, R, la, ms)
  <2>1. SenderInv(t, R, la, ms) /\ Submits(s, t) /\ DataOut(<<>>, la, ms)
    BY <1>2, LikeInv, LikeSubmits, NoOut
  <2>2. ms + 0 = ms /\ 0 \in Nat
    OBVIOUS
  <2>3. QED
    BY <2>1, <2>2 DEF MovedOut
<1>3. <<>> \in Seq(Message) /\ lk \o <<>> = lk
  OBVIOUS
<1>4. Dir(p, t, sh, R, rc, dq, lk \o <<>>, b, a, bk)
  BY <1>1, <1>2, <1>3, DirMoved
<1>5. QED
  BY <1>3, <1>4

\* The acknowledgement in front has been processed or thrown away.
AckDone(p, s, t, u, sh, R, rc, dq, lk, b, a, bk) ==
  /\ u \in SenderType /\ u.out = <<>> /\ Forgets(s, u) /\ t.out \in Seq(Message) /\ OnlyData(t.out)
  /\ Dir(p, u, sh, R, rc, dq, lk \o t.out, Tail(b), a, bk)

\* The acknowledgement in front is processed,
LEMMA AckProcessed ==
  ASSUME Orderly, NEW p \in Node, NEW s \in SenderType, s.out = <<>>, NEW sh, NEW R, NEW rc,
         NEW dq \in Seq(DataType), NEW lk \in Seq(Message),
         NEW b \in Seq(AckType), b # <<>>, NEW a \in Seq(AckType), NEW bk \in Seq(Message),
         Dir(p, s, sh, R, rc, dq, lk, b, a, bk),
         NEW t, t = ProcessAck(s, Head(b)), NEW u, u = [t EXCEPT !.out = <<>>]
  PROVE  AckDone(p, s, t, u, sh, R, rc, dq, lk, b, a, bk)
<1>1. /\ t \in SenderType /\ Fixed(s, t) /\ Forgets(s, t)
      /\ \A m : In(t.out, m) => m.type = "DAT"
      /\ Dir(p, t, sh, R, rc, dq, lk \o t.out, Tail(b), a, bk)
  BY DirAnswered
<1>2. /\ u \in SenderType /\ u.out = <<>> /\ Like(t, u)
      /\ u.up = t.up /\ u.started = t.started /\ u.shutDownSent = t.shutDownSent
  BY <1>1, ClearOut
<1>3. t.out \in Seq(Message)
  BY <1>1 DEF SenderType
<1>4. Tail(b) \in Seq(AckType) /\ lk \o t.out \in Seq(Message)
  BY <1>3, TailIn, ConcatIn
<1>5. Counts(t, u)
  BY <1>2 DEF Counts, Like
<1>6. Dir(p, u, sh, R, rc, dq, lk \o t.out, Tail(b), a, bk)
  BY <1>1, <1>2, <1>4, <1>5, DirLike
<1>7. Forgets(s, u)
  <2>1. u.total = t.total /\ u.drained = t.drained /\ u.undelivered = t.undelivered /\ u.buf = t.buf
    BY <1>2 DEF Like
  <2>2. \A q : Held(u, q) <=> Held(t, q)
    BY <2>1 DEF Held
  <2>3. QED
    BY <1>1, <2>1, <2>2 DEF Forgets
<1>8. QED
  BY <1>1, <1>2, <1>3, <1>6, <1>7 DEF AckDone, OnlyData

\* ... or thrown away.
LEMMA AckIgnored ==
  ASSUME NEW p \in Node, NEW s \in SenderType, s.out = <<>>, NEW sh, NEW R, NEW rc,
         NEW dq \in Seq(DataType), NEW lk \in Seq(Message),
         NEW b \in Seq(AckType), b # <<>>, NEW a \in Seq(AckType), NEW bk \in Seq(Message),
         Dir(p, s, sh, R, rc, dq, lk, b, a, bk),
         NEW u, u = [s EXCEPT !.out = <<>>]
  PROVE  AckDone(p, s, s, u, sh, R, rc, dq, lk, b, a, bk)
<1>1. u = s
  BY DEF SenderType
<1>2. lk \o s.out = lk /\ s.out \in Seq(Message)
  OBVIOUS
<1>3. Thinner(Tail(b), b)
  BY ThinnerTail
<1>4. LessAck(Tail(b), a, bk, b, a, bk)
  BY <1>3, ThinnerSame, LessAckThinner
<1>5. Dir(p, s, sh, R, rc, dq, lk, Tail(b), a, bk)
  BY <1>4, LessDataSame, DirLess
<1>6. Forgets(s, s)
  BY DEF Forgets
<1>7. QED
  BY <1>1, <1>2, <1>5, <1>6, NoOut DEF AckDone

\* ackRecv keeps the invariant.
LEMMA AckRecvKeeps == ASSUME Orderly, ChannelInv, NEW p \in Node, AckRecv(p) PROVE Kept
<1> DEFINE r == Peer(p)
           s == snd[p]
           b == batch[p].acks
           t == IF Relevant(p, Head(b)) THEN ProcessAck(s, Head(b)) ELSE s
           u == [t EXCEPT !.out = <<>>]
           R == Received(passedUp[p])
<1>1. /\ b # <<>> /\ Apply(p, t)
      /\ batch' = [batch EXCEPT ![p] = AfterFirst(@)]
      /\ UNCHANGED <<rcv, dataRecvQueue, ackRecvQueue, conn, shutting, passedUp, faults>>
  BY DEF AckRecv
<1>2. /\ r \in Node /\ r # p /\ Peer(r) = p /\ ChannelTypes
      /\ Dir(p, s, shutting[p], R, rcv[r], dataRecvQueue[r], link[p], b, ackRecvQueue[p], link[r])
      /\ Dir(r, snd[r], shutting[r], Received(passedUp[r]), rcv[p], dataRecvQueue[p], link[r],
             batch[r].acks, ackRecvQueue[r], link[p])
  BY DirOf
<1>3. /\ s \in SenderType /\ s.out = <<>> /\ link[p] \in Seq(Message) /\ b \in Seq(AckType)
      /\ ackRecvQueue[p] \in Seq(AckType) /\ dataRecvQueue[p] \in Seq(DataType)
      /\ link[r] \in Seq(Message) /\ batch[r].acks \in Seq(AckType)
      /\ ackRecvQueue[r] \in Seq(AckType) /\ dataRecvQueue[r] \in Seq(DataType)
      /\ batch[p] \in BatchType
  BY <1>2, TypeFacts
<1>4. /\ batch \in [Node -> BatchType] /\ snd \in [Node -> SenderType] /\ link \in [Node -> Seq(Message)]
  BY <1>2 DEF ChannelTypes
<1>5. snd' = [snd EXCEPT ![p] = u] /\ link' = [link EXCEPT ![p] = @ \o t.out]
  BY <1>1 DEF Apply
<1>6. t = ProcessAck(s, Head(b)) \/ t = s
  OBVIOUS
<1>7. u = [t EXCEPT !.out = <<>>] /\ r = Peer(p) /\ s = snd[p] /\ b = batch[p].acks /\ R = Received(passedUp[p])
  OBVIOUS
<1> DEFINE new == AfterFirst(batch[p])
<1>8. batch' = [batch EXCEPT ![p] = new]
  BY <1>1
<1>9. new \in BatchType /\ new.acks = Tail(b)
  <2>1. CASE Len(b) > 1
    <3>1. Tail(b) \in Seq(AckType)
      BY <1>1, <1>3, TailIn
    <3>2. QED
      BY <1>3, <2>1, <3>1 DEF BatchType, AfterFirst
  <2>2. CASE ~(Len(b) > 1)
    <3>1. Tail(b) = <<>>
      BY <1>1, <1>3, <2>2
    <3>2. 0 \in SeqNo /\ <<>> \in Seq(AckType)
      BY SeqCntFacts DEF SeqNo
    <3>3. QED
      BY <2>2, <3>1, <3>2 DEF BatchType, AfterFirst, NoBatch
  <2>3. QED
    BY <2>1, <2>2
<1> HIDE DEF r, s, b, t, u, R, new
<1>10. AckDone(p, s, t, u, shutting[p], R, rcv[r], dataRecvQueue[r], link[p], b, ackRecvQueue[p], link[r])
  <2>1. CASE t = ProcessAck(s, Head(b))
    BY <1>1, <1>2, <1>3, <1>7, <2>1, AckProcessed
  <2>2. CASE t = s
    <3>1. u = [s EXCEPT !.out = <<>>]
      BY <1>7, <2>2
    <3>2. AckDone(p, s, s, u, shutting[p], R, rcv[r], dataRecvQueue[r], link[p], b, ackRecvQueue[p], link[r])
      BY <1>1, <1>2, <1>3, <3>1, AckIgnored
    <3>3. QED
      BY <2>2, <3>2
  <2>3. QED
    BY <1>6, <2>1, <2>2
<1>11. /\ u \in SenderType /\ u.out = <<>> /\ Forgets(s, u) /\ t.out \in Seq(Message) /\ OnlyData(t.out)
       /\ Dir(p, u, shutting[p], R, rcv[r], dataRecvQueue[r], link[p] \o t.out, Tail(b), ackRecvQueue[p], link[r])
  BY <1>10 DEF AckDone
<1>12. link[p] \o t.out \in Seq(Message)
  BY <1>3, <1>11, ConcatIn
<1>13. /\ snd'[p] = u /\ snd'[r] = snd[r] /\ link'[p] = link[p] \o t.out /\ link'[r] = link[r]
       /\ batch'[p].acks = Tail(b) /\ batch'[r] = batch[r]
  BY <1>2, <1>4, <1>5, <1>8, <1>9
<1>14. ChannelTypes'
  <2>1. snd' \in [Node -> SenderType] /\ link' \in [Node -> Seq(Message)] /\ batch' \in [Node -> BatchType]
    BY <1>4, <1>5, <1>8, <1>9, <1>11, <1>12
  <2>2. \A q \in Node : snd'[q].out = <<>>
    BY <1>2, <1>4, <1>5, <1>11 DEF ChannelTypes
  <2>3. QED
    BY <1>1, <1>2, <2>1, <2>2 DEF ChannelTypes
<1>15. DirInv(p)'
  BY <1>1, <1>7, <1>11, <1>13 DEF DirInv
<1>16. DirInv(r)'
  <2>1. \A m : In(t.out, m) => m.type # "ACK"
    BY <1>11 DEF OnlyData
  <2>2. LessAck(batch[r].acks, ackRecvQueue[r], link[p] \o t.out, batch[r].acks, ackRecvQueue[r], link[p])
    BY <1>3, <1>11, <2>1, LessData2
  <2>3. Dir(r, snd[r], shutting[r], Received(passedUp[r]), rcv[p], dataRecvQueue[p], link[r],
            batch[r].acks, ackRecvQueue[r], link[p] \o t.out)
    BY <1>2, <1>3, <2>2, LessDataSame, DirLess
  <2>4. QED
    BY <1>1, <1>2, <1>13, <2>3 DEF DirInv
<1>17. DirStep(p)
  BY <1>1, <1>7, <1>11, <1>13 DEF DirStep
<1>18. DirStep(r)
  BY <1>1, <1>13, SubmitsNothing DEF DirStep
<1>19. QED
  BY <1>7, <1>14, <1>15, <1>16, <1>17, <1>18, KeptBoth

(***************************************************************************)
(* pktRecv: the flags of the packet, and the close it asks for.            *)
(***************************************************************************)
\* What the flags of the packet change.
Flagged(s, m) == [s EXCEPT !.started = @ \/ m.pkt.chs, !.shutDownRecv = @ \/ m.pkt.chf]
\* The close a FLAG_CHF packet starts at the end it reaches.
Closing(s, m) ==
  IF m.pkt.chf /\ ~Flagged(s, m).shutDownSent
  THEN ShutdownFlags(SendChf(Flagged(s, m))) ELSE Flagged(s, m)

\* The flags concern neither packets nor window.
LEMMA FlaggedStep ==
  ASSUME NEW s \in SenderType, NEW m \in DataType, NEW t, t = Flagged(s, m)
  PROVE  t \in SenderType /\ Like(s, t) /\ t.out = s.out /\ t.up = s.up /\ t.shutDownSent = s.shutDownSent
<1>1. m.pkt.chs \in BOOLEAN /\ m.pkt.chf \in BOOLEAN
  BY DEF DataType, Pkt
<1>2. (s.started \/ m.pkt.chs) \in BOOLEAN /\ (s.shutDownRecv \/ m.pkt.chf) \in BOOLEAN
  OBVIOUS
<1> DEFINE x == s.started \/ m.pkt.chs
           y == s.shutDownRecv \/ m.pkt.chf
<1>3. t = [s EXCEPT !.started = x, !.shutDownRecv = y]
  BY DEF Flagged
<1>4. x \in BOOLEAN /\ y \in BOOLEAN
  BY <1>2
<1> HIDE DEF x, y
<1>5. t \in SenderType
  BY <1>3, <1>4, ZenonT(60) DEF SenderType
<1>6. /\ t.lastAcked = s.lastAcked /\ t.maxSent = s.maxSent /\ t.maxPacket = s.maxPacket
      /\ t.total = s.total /\ t.timerList = s.timerList /\ t.drained = s.drained
      /\ t.undelivered = s.undelivered /\ t.sendSeqLock = s.sendSeqLock
      /\ t.status = s.status /\ t.recover = s.recover /\ t.deadChannel = s.deadChannel
      /\ t.buf = s.buf /\ t.out = s.out
      /\ t.up = s.up /\ t.shutDownSent = s.shutDownSent
  BY <1>3 DEF SenderType
<1>7. Like(s, t)
  BY <1>6 DEF Like
<1>8. QED
  BY <1>5, <1>6, <1>7

\* Nor do those initShutdown sets.
LEMMA ShutdownFlagsStep ==
  ASSUME NEW s \in SenderType, NEW t, t = ShutdownFlags(s)
  PROVE  t \in SenderType /\ Like(s, t) /\ t.out = s.out /\ t.up = s.up /\ t.shutDownSent /\ t.total = s.total
<1>1. t = [s EXCEPT !.shutDownSent = TRUE, !.closed = TRUE]
  BY DEF ShutdownFlags
<1>2. t \in SenderType
  BY <1>1, ZenonT(60) DEF SenderType
<1>3. /\ t.lastAcked = s.lastAcked /\ t.maxSent = s.maxSent /\ t.maxPacket = s.maxPacket
      /\ t.total = s.total /\ t.timerList = s.timerList /\ t.drained = s.drained
      /\ t.undelivered = s.undelivered /\ t.sendSeqLock = s.sendSeqLock
      /\ t.status = s.status /\ t.recover = s.recover /\ t.deadChannel = s.deadChannel
      /\ t.buf = s.buf /\ t.out = s.out
      /\ t.up = s.up /\ t.shutDownSent
  BY <1>1 DEF SenderType
<1>4. Like(s, t)
  BY <1>3 DEF Like
<1>5. QED
  BY <1>2, <1>3, <1>4

\* With the close the packet asks for, at most one FLAG_CHF packet is added.
LEMMA ClosingHandler ==
  ASSUME NEW p \in Node, NEW s \in SenderType, s.out = <<>>, s.up, NEW sh, CountInv(p, s, sh), NEW R,
         NEW m \in DataType, m.pkt.chf => Closers # {}, NEW t, t = Closing(s, m)
  PROVE  DataHandlerOf(p, s, t, sh, R)
<1> DEFINE f == Flagged(s, m)
           v == Send(f, FALSE, TRUE)
<1>1. f \in SenderType /\ Like(s, f) /\ f.out = s.out /\ f.up = s.up /\ f.shutDownSent = s.shutDownSent
  BY FlaggedStep
<1>2. f.total = s.total
  BY <1>1 DEF Like
<1>3. t = IF m.pkt.chf /\ ~f.shutDownSent THEN ShutdownFlags(v) ELSE f
  BY DEF Closing, SendChf
<1>4. v = Send(f, FALSE, TRUE)
  OBVIOUS
<1> HIDE DEF f, v
<1>5. CASE m.pkt.chf /\ ~s.shutDownSent
  <2>1. t = ShutdownFlags(v) /\ Closers # {}
    BY <1>1, <1>3, <1>5
  <2>2. /\ s.total \in Nat /\ MaxPackets[p] \in Nat /\ s.total <= MaxPackets[p] + 2
        /\ s.total \in PacketId
    <3>1. s.total \in Nat /\ MaxPackets[p] \in Nat /\ s.total <= MaxPackets[p] + 2 /\ 2 \in 0 .. 2
      BY <1>5, CountBound
    <3>2. QED
      BY <3>1, CountBound
  <2>3. ASSUME NEW la \in Int, NEW ms \in Int, SenderInv(s, R, la, ms), R \subseteq 0 .. ms
        PROVE  Handled(s, t, R, la, ms) /\ CountInv(p, t, sh) /\ OnlyData(t.out)
    <3>1. HandledBySend(s, f, v, R, la, ms)
      <4>1. f.out = <<>> /\ f.total \in PacketId /\ TRUE \in BOOLEAN /\ FALSE \in BOOLEAN
        BY <1>1, <1>2, <2>2
      <4>2. QED
        BY <1>1, <1>4, <2>1, <2>3, <4>1, HandledSend
    <3>2. /\ Handled(s, v, R, la, ms) /\ OnlyData(v.out) /\ v \in SenderType
          /\ v.total = s.total \/ v.total = s.total + 1
          /\ v.up = s.up
      BY <1>1, <1>2, <3>1 DEF HandledBySend
    <3>3. t \in SenderType /\ Like(v, t) /\ t.out = v.out /\ t.up = v.up /\ t.shutDownSent /\ t.total = v.total
      BY <2>1, <3>2, ShutdownFlagsStep
    <3>4. Handled(s, t, R, la, ms)
      BY <3>2, <3>3, HandledAfter
    <3>5. CountInv(p, t, sh)
      <4>1. /\ t.total = s.total \/ t.total = s.total + 1
            /\ t.up /\ t.shutDownSent /\ 2 \in 0 .. 2
        BY <3>2, <3>3
      <4>2. QED
        BY <2>1, <2>2, <4>1, CountSend
    <3>6. QED
      BY <3>2, <3>3, <3>4, <3>5
  <2>4. QED
    BY <2>3 DEF DataHandlerOf
<1>6. CASE ~(m.pkt.chf /\ ~s.shutDownSent)
  <2>1. t = f
    BY <1>1, <1>3, <1>6
  <2>2. CountInv(p, t, sh)
    BY <1>1, <1>2, <2>1 DEF CountInv
  <2>3. QED
    BY <1>1, <2>1, <2>2, LikeHandler
<1>7. QED
  BY <1>5, <1>6

\* The handler sends the answer last.
WithAnswer(s, ack) == [s EXCEPT !.out = Append(@, ack)]

\* An acknowledgement is no data.
LEMMA AnsweredStep ==
  ASSUME NEW s \in SenderType, NEW ack \in AckType, NEW t, t = WithAnswer(s, ack)
  PROVE  /\ t \in SenderType /\ Like(s, t) /\ t.up = s.up /\ t.started = s.started
         /\ t.shutDownSent = s.shutDownSent /\ t.total = s.total
         /\ \A m : In(t.out, m) => In(s.out, m) \/ m = ack
<1>1. s.out \in Seq(Message) /\ ack \in Message
  BY DEF SenderType, Message
<1> DEFINE o == Append(s.out, ack)
<1>2. o \in Seq(Message) /\ \A m : In(o, m) => In(s.out, m) \/ m = ack
  BY <1>1, AppendIn
<1>3. t = [s EXCEPT !.out = o]
  BY DEF WithAnswer
<1> HIDE DEF o
<1>4. t \in SenderType
  BY <1>2, <1>3, SMTT(60) DEF SenderType
<1>5. /\ t.lastAcked = s.lastAcked /\ t.maxSent = s.maxSent /\ t.maxPacket = s.maxPacket
      /\ t.total = s.total /\ t.timerList = s.timerList /\ t.drained = s.drained
      /\ t.undelivered = s.undelivered /\ t.sendSeqLock = s.sendSeqLock
      /\ t.status = s.status /\ t.recover = s.recover /\ t.deadChannel = s.deadChannel
      /\ t.buf = s.buf /\ t.out = o
      /\ t.up = s.up /\ t.started = s.started /\ t.shutDownSent = s.shutDownSent
  BY <1>3 DEF SenderType
<1>6. Like(s, t)
  BY <1>5 DEF Like
<1>7. QED
  BY <1>2, <1>4, <1>5, <1>6

\* Both results pktRecv may have, with or without an acknowledgement.
Replies(p, s, t, sh, R, rc2, seq) ==
  HandlerOf(p, s, t, sh, R) /\ t.out \in Seq(Message) /\ Answers(t.out, rc2, seq)

\* So pktRecv answers what the receiver knows.
LEMMA RepliesWith ==
  ASSUME NEW p \in Node, NEW s \in SenderType, NEW sh, NEW R, NEW rc, NEW dq, NEW lk, NEW b, NEW a, NEW bk,
         Dir(p, s, sh, R, rc, dq, lk, b, a, bk), NEW c, DataHandlerOf(p, s, c, sh, R),
         NEW rc2 \in ReceiverType, NEW seq \in SeqNo,
         NEW ack, ack = AckMsg(Plus(rc2.expectedSeq, SeqCnt - 1), seq),
         NEW t, t = c \/ t = WithAnswer(c, ack)
  PROVE  Replies(p, s, t, sh, R, rc2, seq)
<1>1. PICK la, ms, e \in Int : SenderInv(s, R, la, ms) /\ ReceiverInv(rc, R, la, ms, e)
  BY DEF Dir
<1>2. R \subseteq 0 .. ms /\ 0 .. la \subseteq R
  BY <1>1, DirNumbers
<1>3. Handled(s, c, R, la, ms) /\ OnlyData(c.out)
  BY <1>1, <1>2 DEF DataHandlerOf
<1>4. c \in SenderType /\ c.out \in Seq(Message)
  BY <1>3 DEF Handled, SenderType
<1>5. HandlerOf(p, s, c, sh, R)
  BY DataHandlers
<1>6. CASE t = c
  <2>1. Answers(t.out, rc2, seq)
    BY <1>3, <1>6 DEF Answers, OnlyData
  <2>2. QED
    BY <1>4, <1>5, <1>6, <2>1 DEF Replies
<1>7. CASE t = WithAnswer(c, ack)
  <2>1. ack \in AckType /\ ack.type = "ACK"
    <3>1. Plus(rc2.expectedSeq, SeqCnt - 1) \in SeqNo
      <4>1. rc2.expectedSeq \in Int /\ SeqCnt - 1 \in Int
        BY SeqCntFacts DEF ReceiverType, SeqNo
      <4>2. QED
        BY <4>1, Residue DEF Plus
    <3>2. QED
      BY <3>1 DEF AckMsg, AckType
  <2>2. /\ t \in SenderType /\ Like(c, t) /\ t.up = c.up /\ t.started = c.started
        /\ t.shutDownSent = c.shutDownSent /\ t.total = c.total
        /\ \A m : In(t.out, m) => In(c.out, m) \/ m = ack
    BY <1>4, <1>7, <2>1, AnsweredStep, SMTT(60)
  <2>3. t.out \in Seq(Message)
    BY <2>2 DEF SenderType
  <2>4. Answers(t.out, rc2, seq)
    <3>1. SUFFICES ASSUME NEW m, In(t.out, m), m.type = "ACK" PROVE m = ack
      BY DEF Answers
    <3>2. ~In(c.out, m)
      BY <1>3, <3>1 DEF OnlyData
    <3>3. QED
      BY <2>2, <3>1, <3>2
  <2>5. \A m : In(t.out, m) /\ m.type = "DAT" => In(c.out, m)
    BY <2>1, <2>2
  <2>6. Counts(c, t)
    BY <2>2 DEF Counts
  <2>7. ASSUME NEW la2 \in Int, NEW ms2 \in Int,
               SenderInv(s, R, la2, ms2), R \subseteq 0 .. ms2, 0 .. la2 \subseteq R
        PROVE  Handled(s, t, R, la2, ms2) /\ CountInv(p, t, sh)
    <3>1. Handled(s, c, R, la2, ms2) /\ CountInv(p, c, sh)
      BY <1>5, <2>7 DEF HandlerOf
    <3>2. Handled(s, t, R, la2, ms2)
      BY <2>2, <2>5, <3>1, HandledAfter
    <3>3. CountInv(p, t, sh)
      BY <2>6, <3>1, SameCounts
    <3>4. QED
      BY <3>2, <3>3
  <2>8. HandlerOf(p, s, t, sh, R)
    BY <2>7 DEF HandlerOf
  <2>9. QED
    BY <2>3, <2>4, <2>8 DEF Replies
<1>8. QED
  BY <1>6, <1>7

\* What is passed up in a step is what the receiver takes as new.
PassesOn(pu, pu2, id, R2) ==
  /\ pu2 \in [PacketId -> {0, 1}] /\ Received(pu2) = R2
  /\ pu2 = pu \/ (pu[id] = 0 /\ pu2 = [pu EXCEPT ![id] = 1])

\* The packet counts as received from now on.
LEMMA PassedUpAs ==
  ASSUME NEW pu \in [PacketId -> {0, 1}], NEW m \in DataType, NEW rc,
         NEW R, R = Received(pu), Fresh(rc, m.seq) => m.pkt.id \notin R,
         NEW pu2, pu2 = IF Fresh(rc, m.seq) THEN [pu EXCEPT ![m.pkt.id] = @ + 1] ELSE pu
  PROVE  PassesOn(pu, pu2, m.pkt.id, NowReceived(R, rc, m))
<1> DEFINE i == m.pkt.id
<1>1. i \in PacketId
  BY DEF DataType, Pkt
<1>2. CASE Fresh(rc, m.seq)
  <2>1. pu[i] = 0
    BY <1>1, <1>2 DEF Received
  <2>2. pu2 = [pu EXCEPT ![i] = 1]
    BY <1>1, <1>2, <2>1
  <2>3. pu2 \in [PacketId -> {0, 1}] /\ \A j \in PacketId : pu2[j] = IF j = i THEN 1 ELSE pu[j]
    BY <1>1, <2>2
  <2>4. Received(pu2) = R \cup {i}
    BY <1>1, <2>3 DEF Received
  <2>5. QED
    BY <1>2, <2>1, <2>2, <2>3, <2>4 DEF NowReceived, PassesOn
<1>3. CASE ~Fresh(rc, m.seq)
  BY <1>3 DEF NowReceived, PassesOn
<1>4. QED
  BY <1>2, <1>3

\* pktRecv keeps the invariant of both directions.
LEMMA PktRecvKeeps == ASSUME Orderly, ChannelInv, NEW p \in Node, PktRecv(p) PROVE Kept
<1> DEFINE r == Peer(p)
           s == snd[p]
           rc == rcv[p]
           dq == dataRecvQueue[p]
           m == Head(dq)
           rc2 == Took(rc, m.seq)
           c == Closing(s, m)
           ack == AckMsg(Plus(rc2.expectedSeq, SeqCnt - 1), m.seq)
           t == IF InWindow(rc, m.seq) \/ JustBefore(rc, m.seq) THEN WithAnswer(c, ack) ELSE c
           u == [t EXCEPT !.out = <<>>]
           R == Received(passedUp[p])
           Rr == Received(passedUp[r])
           R2 == NowReceived(Rr, rc, m)
<1>1. /\ dq # <<>> /\ s.up
      /\ dataRecvQueue' = [dataRecvQueue EXCEPT ![p] = Tail(@)]
      /\ UNCHANGED <<ackRecvQueue, batch, conn, shutting, faults>>
  BY DEF PktRecv
<1>2. \/ UNCHANGED <<snd, rcv, link, passedUp>>
      \/ /\ rcv' = [rcv EXCEPT ![p] = rc2] /\ Apply(p, t)
         /\ passedUp' = IF Fresh(rc, m.seq)
                        THEN [passedUp EXCEPT ![r][m.pkt.id] = @ + 1] ELSE passedUp
  BY DEF PktRecv, Took, Closing, Flagged, WithAnswer, Fresh
<1>3. /\ r \in Node /\ r # p /\ Peer(r) = p /\ ChannelTypes
      /\ Dir(p, s, shutting[p], R, rcv[r], dataRecvQueue[r], link[p], batch[p].acks, ackRecvQueue[p], link[r])
      /\ Dir(r, snd[r], shutting[r], Rr, rc, dq, link[r], batch[r].acks, ackRecvQueue[r], link[p])
  BY DirOf
<1>4. /\ s \in SenderType /\ s.out = <<>> /\ link[p] \in Seq(Message) /\ batch[p].acks \in Seq(AckType)
      /\ ackRecvQueue[p] \in Seq(AckType) /\ dq \in Seq(DataType) /\ rc \in ReceiverType
      /\ passedUp[p] \in [PacketId -> {0, 1}]
  BY <1>3, TypeFacts
<1>5. /\ snd[r] \in SenderType /\ link[r] \in Seq(Message) /\ batch[r].acks \in Seq(AckType)
      /\ ackRecvQueue[r] \in Seq(AckType) /\ dataRecvQueue[r] \in Seq(DataType) /\ rcv[r] \in ReceiverType
      /\ passedUp[r] \in [PacketId -> {0, 1}]
  BY <1>3, TypeFacts
<1>6. /\ snd \in [Node -> SenderType] /\ rcv \in [Node -> ReceiverType] /\ link \in [Node -> Seq(Message)]
      /\ dataRecvQueue \in [Node -> Seq(DataType)] /\ passedUp \in [Node -> [PacketId -> {0, 1}]]
  BY <1>3 DEF ChannelTypes
<1>7. /\ r = Peer(p) /\ s = snd[p] /\ rc = rcv[p] /\ dq = dataRecvQueue[p] /\ m = Head(dq)
      /\ rc2 = Took(rc, m.seq) /\ c = Closing(s, m) /\ u = [t EXCEPT !.out = <<>>]
      /\ ack = AckMsg(Plus(rc2.expectedSeq, SeqCnt - 1), m.seq) /\ (t = c \/ t = WithAnswer(c, ack))
      /\ R = Received(passedUp[p]) /\ Rr = Received(passedUp[r]) /\ R2 = NowReceived(Rr, rc, m)
  OBVIOUS
<1> HIDE DEF r, s, rc, dq, m, rc2, c, ack, t, u, R, Rr, R2
<1>8. Tail(dq) \in Seq(DataType) /\ m \in DataType /\ Thinner(Tail(dq), dq)
  BY <1>1, <1>4, <1>7, TailIn, ThinnerTail
<1>9. /\ dataRecvQueue' \in [Node -> Seq(DataType)] /\ dataRecvQueue'[p] = Tail(dq)
      /\ dataRecvQueue'[r] = dataRecvQueue[r]
  BY <1>1, <1>3, <1>6, <1>7, <1>8
<1>10. CASE UNCHANGED <<snd, rcv, link, passedUp>>
  <2>1. ChannelTypes'
    BY <1>1, <1>3, <1>9, <1>10 DEF ChannelTypes
  <2>2. LessData(dataRecvQueue'[r], link'[p], dataRecvQueue[r], link[p])
    BY <1>9, <1>10, LessDataSame
  <2>3. LessData(dataRecvQueue'[p], link'[r], dataRecvQueue[p], link[r])
    BY <1>7, <1>8, <1>9, <1>10, ThinnerSame, LessThinner
  <2>4. LessAck(batch'[p].acks, ackRecvQueue'[p], link'[r], batch[p].acks, ackRecvQueue[p], link[r])
    BY <1>1, <1>10, LessAckSame
  <2>5. LessAck(batch'[r].acks, ackRecvQueue'[r], link'[p], batch[r].acks, ackRecvQueue[r], link[p])
    BY <1>1, <1>10, LessAckSame
  <2>6. UNCHANGED <<snd, rcv, shutting, passedUp>>
    BY <1>1, <1>10
  <2>7. QED
    BY <1>7, <2>1, <2>2, <2>3, <2>4, <2>5, <2>6, Moving
<1>11. CASE /\ rcv' = [rcv EXCEPT ![p] = rc2] /\ Apply(p, t)
            /\ passedUp' = IF Fresh(rc, m.seq)
                           THEN [passedUp EXCEPT ![r][m.pkt.id] = @ + 1] ELSE passedUp
  <2>1. ASSUME NEW o \in Seq(Message), Answers(o, rc2, m.seq)
        PROVE  /\ rc2 \in ReceiverType
               /\ m.pkt.id \in Int /\ 0 <= m.pkt.id /\ m.pkt.id < snd[r].total
               /\ m.pkt.chf => Closers # {}
               /\ Fresh(rc, m.seq) => m.pkt.id \notin Rr
               /\ Dir(r, snd[r], shutting[r], R2, rc2, Tail(dq), link[r], batch[r].acks, ackRecvQueue[r], link[p] \o o)
    <3>1. Takes(r, snd[r], shutting[r], Rr, rc, dq, link[r], batch[r].acks, ackRecvQueue[r], link[p], m, rc2, R2, o)
      BY <1>1, <1>3, <1>4, <1>5, <1>7, <2>1, DirTaken
    <3>2. QED
      BY <3>1 DEF Takes
  <2>2. /\ rc2 \in ReceiverType /\ (m.pkt.chf => Closers # {})
        /\ m.pkt.id < snd[r].total /\ (Fresh(rc, m.seq) => m.pkt.id \notin Rr)
    <3>1. <<>> \in Seq(Message) /\ Answers(<<>>, rc2, m.seq)
      BY EmptyIn DEF Answers
    <3>2. QED
      BY <2>1, <3>1
  <2>3. CountInv(p, s, shutting[p])
    BY <1>3 DEF Dir
  <2>4. DataHandlerOf(p, s, c, shutting[p], R)
    BY <1>1, <1>4, <1>7, <1>8, <2>2, <2>3, ClosingHandler
  <2>5. m.seq \in SeqNo /\ m.pkt.id \in PacketId
    BY <1>8 DEF DataType, Pkt
  <2>6. Replies(p, s, t, shutting[p], R, rc2, m.seq)
    BY <1>3, <1>4, <1>7, <2>2, <2>4, <2>5, RepliesWith
  <2>7. HandlerOf(p, s, t, shutting[p], R) /\ t.out \in Seq(Message) /\ Answers(t.out, rc2, m.seq)
    BY <2>6 DEF Replies
  <2>8. Ran(p, s, t, u, shutting[p], R, rcv[r], dataRecvQueue[r], link[p], batch[p].acks, ackRecvQueue[p], link[r])
    BY <1>3, <1>4, <1>5, <1>7, <2>7, DirHandled
  <2>9. /\ u \in SenderType /\ u.out = <<>> /\ (Submits(s, u) \/ Returns(s, u))
        /\ Dir(p, u, shutting[p], R, rcv[r], dataRecvQueue[r], link[p] \o t.out,
               batch[p].acks, ackRecvQueue[p], link[r])
    BY <2>8 DEF Ran
  <2>10. Dir(r, snd[r], shutting[r], R2, rc2, Tail(dq), link[r], batch[r].acks, ackRecvQueue[r], link[p] \o t.out)
    BY <2>1, <2>7
  <2>11. snd' = [snd EXCEPT ![p] = u] /\ link' = [link EXCEPT ![p] = @ \o t.out]
    BY <1>7, <1>11 DEF Apply
  <2>12. link[p] \o t.out \in Seq(Message)
    BY <1>4, <2>7, ConcatIn
  <2>13. /\ snd'[p] = u /\ snd'[r] = snd[r] /\ link'[p] = link[p] \o t.out /\ link'[r] = link[r]
         /\ rcv'[p] = rc2 /\ rcv'[r] = rcv[r]
    BY <1>3, <1>6, <1>11, <2>11
  <2>14. passedUp'[p] = passedUp[p] /\ passedUp' = [passedUp EXCEPT ![r] = passedUp'[r]]
         /\ passedUp'[r] = IF Fresh(rc, m.seq) THEN [passedUp[r] EXCEPT ![m.pkt.id] = @ + 1] ELSE passedUp[r]
    <3>1. CASE Fresh(rc, m.seq)
      BY <1>3, <1>6, <1>11, <2>5, <3>1
    <3>2. CASE ~Fresh(rc, m.seq)
      BY <1>3, <1>6, <1>11, <3>2
    <3>3. QED
      BY <3>1, <3>2
  <2>15. /\ passedUp'[r] \in [PacketId -> {0, 1}] /\ Received(passedUp'[r]) = R2
         /\ \/ passedUp'[r] = passedUp[r]
            \/ passedUp[r][m.pkt.id] = 0 /\ passedUp'[r] = [passedUp[r] EXCEPT ![m.pkt.id] = 1]
    <3> DEFINE pu == passedUp[r]
               pu2 == passedUp'[r]
    <3>1. /\ pu \in [PacketId -> {0, 1}] /\ Rr = Received(pu)
          /\ pu2 = IF Fresh(rc, m.seq) THEN [pu EXCEPT ![m.pkt.id] = @ + 1] ELSE pu
      BY <1>5, <1>7, <2>14
    <3> HIDE DEF pu, pu2
    <3>2. PassesOn(pu, pu2, m.pkt.id, NowReceived(Rr, rc, m))
      BY <1>8, <2>2, <3>1, PassedUpAs
    <3>3. QED
      BY <1>7, <3>2 DEF pu, pu2, PassesOn
  <2>16. ChannelTypes'
    <3>1. snd' \in [Node -> SenderType] /\ link' \in [Node -> Seq(Message)]
      BY <1>6, <2>9, <2>11, <2>12
    <3>2. rcv' \in [Node -> ReceiverType]
      BY <1>6, <1>11, <2>2
    <3>3. passedUp' \in [Node -> [PacketId -> {0, 1}]]
      BY <1>3, <1>6, <2>14, <2>15
    <3>4. \A q \in Node : snd'[q].out = <<>>
      BY <1>3, <1>6, <2>9, <2>11 DEF ChannelTypes
    <3>5. QED
      BY <1>1, <1>3, <1>9, <3>1, <3>2, <3>3, <3>4 DEF ChannelTypes
  <2>17. DirInv(p)'
    BY <1>1, <1>7, <1>9, <2>9, <2>13, <2>14 DEF DirInv
  <2>18. DirInv(r)'
    BY <1>1, <1>3, <1>7, <1>9, <2>10, <2>13, <2>15 DEF DirInv
  <2>19. DirStep(p)
    BY <1>7, <2>9, <2>13, <2>14 DEF DirStep
  <2>20. DirStep(r)
    <3>1. CASE passedUp'[r] = passedUp[r]
      BY <2>13, <3>1, SubmitsNothing DEF DirStep
    <3>2. CASE passedUp[r][m.pkt.id] = 0 /\ passedUp'[r] = [passedUp[r] EXCEPT ![m.pkt.id] = 1]
      <4>1. PassesUp(r)
        BY <2>2, <2>5, <3>2 DEF PassesUp
      <4>2. QED
        BY <2>13, <4>1 DEF DirStep
    <3>3. QED
      BY <2>15, <3>1, <3>2
  <2>21. QED
    BY <1>7, <2>16, <2>17, <2>18, <2>19, <2>20, KeptBoth
<1>12. QED
  BY <1>2, <1>7, <1>10, <1>11

(***************************************************************************)
(* The invariant of the channel.                                           *)
(***************************************************************************)
LEMMA InitSenderFacts ==
  ASSUME NEW s, s = InitSender
  PROVE  /\ s \in SenderType /\ s.out = <<>> /\ SenderInv(s, {}, -1, -1)
         /\ \A p \in Node : CountInv(p, s, FALSE)
<1>1. SeqCnt \in Nat /\ SeqCnt >= 8 /\ SeqCnt - 1 \in SeqNo /\ 0 \in SeqNo /\ SeqCnt \div 4 \in Nat
  BY SpaceFacts DEF SeqNo
<1>2. -1 % SeqCnt = SeqCnt - 1
  BY <1>1, ResidueNear
<1>3. EmptySlot \in SlotType
  BY DEF EmptySlot, SlotType
<1>4. CwndUnit \in CwndUnit .. CwndUnit * Half /\ 1 \in Nat /\ 0 \in Nat
  <2>1. CwndUnit \in Nat /\ CwndUnit > 0 /\ Half \in Nat /\ Half >= 4
    BY SpaceFacts
  <2>2. CwndUnit <= CwndUnit * Half /\ CwndUnit * Half \in Nat
    BY <2>1
  <2>3. QED
    BY <2>1, <2>2
<1>5. [q \in SeqNo |-> EmptySlot] \in [SeqNo -> SlotType]
  BY <1>3
<1>6. s \in SenderType
  BY <1>1, <1>4, <1>5 DEF InitSender, SenderType
<1>7. /\ s.total = 0 /\ s.lastAcked = SeqCnt - 1 /\ s.maxPacket = SeqCnt - 1 /\ s.maxSent = SeqCnt - 1
      /\ s.timerList = {} /\ ~s.drained /\ s.undelivered = {} /\ s.sendSeqLock = "free"
      /\ s.status = "SLOW_START" /\ ~s.up /\ ~s.started /\ ~s.shutDownSent /\ s.out = <<>>
  BY DEF InitSender
<1>8. \A q \in SeqNo : ~Held(s, q) /\ ~s.buf[q].pktSent
  BY DEF InitSender, EmptySlot, Held
<1>9. WindowInv(s, -1, -1)
  BY <1>2, <1>7, HalfFacts DEF WindowInv
<1>10. \A q \in SeqNo : SlotInv(s, -1, -1, q)
  BY <1>8 DEF SlotInv
<1>11. TimerInv(s)
  BY <1>7, <1>8 DEF TimerInv
<1>12. GapInv(s, {}, -1, -1)
  BY <1>7 DEF GapInv
<1>13. DeathInv(s, {}) /\ HeadInv(s, -1) /\ RecoveryInv(s, -1, -1)
  BY <1>7 DEF DeathInv, HeadInv, RecoveryInv, InRecovery
<1>14. SenderInv(s, {}, -1, -1)
  BY <1>9, <1>10, <1>11, <1>12, <1>13 DEF SenderInv, BufferInv
<1>15. \A p \in Node : CountInv(p, s, FALSE)
  <2>1. \A p \in Node : MaxPackets[p] \in Nat
    BY PacketIdFacts
  <2>2. QED
    BY <1>7, <2>1 DEF CountInv
<1>16. QED
  BY <1>6, <1>7, <1>14, <1>15

\* One direction in the beginning.
LEMMA InitDir ==
  ASSUME NEW p \in Node, NEW s, s = InitSender,
         NEW rc, rc = [expectedSeq |-> 0, buf |-> {}, recvStarted |-> FALSE],
         NEW z, z = <<>>
  PROVE  Dir(p, s, FALSE, {}, rc, z, z, z, z, z)
<1>1. SenderInv(s, {}, -1, -1) /\ CountInv(p, s, FALSE)
  BY InitSenderFacts
<1>2. ReceiverInv(rc, {}, -1, -1, 0)
  <2>1. 0 \in SeqNo /\ 0 % SeqCnt = 0 /\ 0 .. 0 - 1 = {}
    BY SeqCntFacts, ResidueNear DEF SeqNo
  <2>2. QED
    BY <2>1 DEF ReceiverInv
<1>3. \A m, x : ~In(z, m) /\ ~Ahead(z, m, x)
  BY EmptyIn
<1>4. DataInv(z, z, {}, -1)
  BY <1>3 DEF DataInv, DataIn, DataAhead
<1>5. AckInv(z, z, z, s, {}, -1, 0)
  BY <1>3 DEF AckInv, AckIn, AckAhead
<1>6. -1 \in Int /\ 0 \in Int
  OBVIOUS
<1>7. QED
  BY <1>1, <1>2, <1>4, <1>5, <1>6 DEF Dir

\* The invariant holds in the beginning.
LEMMA InitInvariant == Init => ChannelInv
<1> SUFFICES ASSUME Init PROVE ChannelInv
  OBVIOUS
<1> DEFINE s == InitSender
           rc == [expectedSeq |-> 0, buf |-> {}, recvStarted |-> FALSE]
           z == <<>>
           none == [i \in PacketId |-> 0]
<1>1. /\ snd = [p \in Node |-> s] /\ rcv = [p \in Node |-> rc] /\ link = [p \in Node |-> z]
      /\ dataRecvQueue = [p \in Node |-> z] /\ ackRecvQueue = [p \in Node |-> z]
      /\ batch = [p \in Node |-> NoBatch] /\ conn = [p \in Node |-> [pc |-> "idle", orig |-> 0]]
      /\ shutting = [p \in Node |-> FALSE] /\ passedUp = [p \in Node |-> none] /\ faults = MaxFaults
  BY DEF Init
<1>2. 0 \in SeqNo /\ MaxFaults \in 0 .. MaxFaults
  BY SpaceFacts DEF SeqNo
<1>3. rc \in ReceiverType /\ NoBatch \in BatchType /\ [pc |-> "idle", orig |-> 0] \in ConnType /\ NoBatch.acks = z
  BY <1>2 DEF ReceiverType, BatchType, ConnType, NoBatch
<1>4. none \in [PacketId -> {0, 1}] /\ Received(none) = {}
  BY DEF Received
<1>5. z \in Seq(Message) /\ z \in Seq(DataType) /\ z \in Seq(AckType)
  OBVIOUS
<1>6. s = InitSender /\ rc = [expectedSeq |-> 0, buf |-> {}, recvStarted |-> FALSE] /\ z = <<>>
  OBVIOUS
<1> HIDE DEF s, rc, z, none
<1>7. s \in SenderType /\ s.out = <<>>
  BY <1>6, InitSenderFacts
<1>8. ChannelTypes
  BY <1>1, <1>2, <1>3, <1>4, <1>5, <1>7 DEF ChannelTypes
<1>9. ASSUME NEW p \in Node PROVE DirInv(p)
  <2>1. Dir(p, s, FALSE, {}, rc, z, z, z, z, z)
    BY <1>6, InitDir
  <2>2. Peer(p) \in Node
    BY PeerFacts
  <2>3. QED
    BY <1>1, <1>3, <1>4, <2>1, <2>2 DEF DirInv
<1>10. QED
  BY <1>8, <1>9 DEF ChannelInv

\* Doing nothing keeps the invariant.
LEMMA StutterKeeps == ASSUME ChannelInv, UNCHANGED vars PROVE Kept
<1>1. /\ snd' = snd /\ rcv' = rcv /\ link' = link /\ dataRecvQueue' = dataRecvQueue
      /\ ackRecvQueue' = ackRecvQueue /\ batch' = batch /\ conn' = conn /\ shutting' = shutting
      /\ passedUp' = passedUp /\ faults' = faults
  BY DEF vars
<1>2. ChannelTypes'
  BY <1>1 DEF ChannelInv, ChannelTypes
<1>3. \A p \in Node : DirInv(p)'
  BY <1>1 DEF ChannelInv, DirInv
<1>4. \A p \in Node : DirStep(p)
  BY <1>1, SameSender
<1>5. QED
  BY <1>2, <1>3, <1>4 DEF Kept

\* The path keeps the invariant.
LEMMA NetworkKeeps == ASSUME Orderly, ChannelInv, NEW p \in Node, Network(p) PROVE Kept
<1>1. PICK i \in DOMAIN link[p] : Lose(p, i) \/ Duplicate(p, i) \/ Reorder(p, i)
  BY DEF Network
<1>2. QED
  BY <1>1, LoseKeeps, DuplicateKeeps, ReorderKeeps

\* Every step keeps the invariant.
LEMMA NextKeeps == ASSUME Orderly, ChannelInv, [Next]_vars PROVE Kept
<1>1. CASE UNCHANGED vars
  BY <1>1, StutterKeeps
<1>2. CASE Next
  <2>1. PICK p \in Node :
            \/ StartUp(p) \/ SendPacket(p)
            \/ Receive(p) \/ TestSent(p) \/ MarkAcked(p)
            \/ PktRecv(p) \/ TakeAcks(p) \/ AckRecv(p)
            \/ \E E \in SUBSET snd[p].timerList : TimeoutEvent(p, E)
            \/ MarkDeadChannel(p) \/ NotifyDeadChannel(p)
            \/ InitShutdown(p) \/ FinishInitShutdown(p)
            \/ Network(p)
    BY <1>2 DEF Next
  <2>2. CASE StartUp(p)
    BY <2>2, StartUpKeeps
  <2>3. CASE SendPacket(p)
    BY <2>3, SendPacketKeeps
  <2>4. CASE Receive(p)
    BY <2>4, ReceiveKeeps
  <2>5. CASE TestSent(p)
    BY <2>5, TestSentKeeps
  <2>6. CASE MarkAcked(p)
    BY <2>6, MarkAckedKeeps
  <2>7. CASE PktRecv(p)
    BY <2>7, PktRecvKeeps
  <2>8. CASE TakeAcks(p)
    BY <2>8, TakeAcksKeeps
  <2>9. CASE AckRecv(p)
    BY <2>9, AckRecvKeeps
  <2>10. CASE \E E \in SUBSET snd[p].timerList : TimeoutEvent(p, E)
    BY <2>10, TimeoutEventKeeps
  <2>11. CASE MarkDeadChannel(p)
    BY <2>11, MarkDeadChannelKeeps
  <2>12. CASE NotifyDeadChannel(p)
    BY <2>12, NotifyDeadChannelKeeps
  <2>13. CASE InitShutdown(p)
    BY <2>13, InitShutdownKeeps
  <2>14. CASE FinishInitShutdown(p)
    BY <2>14, FinishInitShutdownKeeps
  <2>15. CASE Network(p)
    BY <2>15, NetworkKeeps
  <2>16. QED
    BY <2>1, <2>2, <2>3, <2>4, <2>5, <2>6, <2>7, <2>8, <2>9, <2>10, <2>11, <2>12, <2>13, <2>14, <2>15
<1>3. QED
  BY <1>1, <1>2

(***************************************************************************)
(* The invariant holds in every reachable state, for any size of the       *)
(* sequence space (a multiple of four, at least eight), any number of      *)
(* packets, losses, duplicates, early timeouts and removed interfaces, and *)
(* with reordering as long as less than half of the sequence space is      *)
(* used.                                                                   *)
(***************************************************************************)
THEOREM ChannelInvariant == ASSUME Orderly PROVE Spec => []ChannelInv
<1>1. ChannelInv /\ [Next]_vars => ChannelInv'
  BY NextKeeps DEF Kept, ChannelInv
<1>2. QED
  BY InitInvariant, <1>1, PTL DEF Spec

\* What the invariant says of one sender and its receiver.
LEMMA DirNow ==
  ASSUME ChannelInv, NEW p \in Node
  PROVE  /\ snd[p] \in SenderType
         /\ \E la, ms, e \in Int : /\ SenderInv(snd[p], Received(passedUp[p]), la, ms)
                                   /\ ReceiverInv(rcv[Peer(p)], Received(passedUp[p]), la, ms, e)
<1>1. DirInv(p) /\ ChannelTypes
  BY DEF ChannelInv
<1>2. QED
  BY <1>1, TypeFacts DEF DirInv, Dir

(***************************************************************************)
(* The 16-bit counters, the slots with their 4-bit retryCnt_ and the       *)
(* congestion window stay in their ranges (TypeOK).                        *)
(***************************************************************************)
THEOREM TypeCorrect == ASSUME Orderly PROVE Spec => []TypeOK
<1>1. ASSUME ChannelInv PROVE TypeOK
  <2>1. ASSUME NEW p \in Node
        PROVE  LET s == snd[p] IN
          /\ {s.lastAcked, s.maxPacket, s.maxSent, s.recover, s.recoverIndex,
              s.multiRecoverIndex} \subseteq SeqNo
          /\ s.timerList \subseteq SeqNo
          /\ \A q \in SeqNo : /\ s.buf[q].pkt \in Pkt \cup {Null}
                              /\ s.buf[q].pktSent \in BOOLEAN
                              /\ s.buf[q].ackRcvd \in BOOLEAN
                              /\ s.buf[q].retryCnt \in 0 .. 15
          /\ s.cwnd \in CwndUnit .. CwndUnit * (SeqCnt \div 2)
          /\ s.status \in {"SLOW_START", "CONG_AVOIDANCE", "FAST_RECOVERY", "MULTI_RECOVERY"}
          /\ s.sendSeqLock \in {"free", "leaked", "stuck"}
          /\ rcv[p].expectedSeq \in SeqNo /\ rcv[p].buf \subseteq SeqNo
    <3>1. snd[p] \in SenderType /\ rcv[p] \in ReceiverType
      BY <1>1, TypeFacts DEF ChannelInv
    <3>2. \A q \in SeqNo : snd[p].buf[q] \in SlotType
      BY <3>1, BufFacts
    <3>3. \A q \in SeqNo : /\ snd[p].buf[q].pkt \in Pkt \cup {Null}
                           /\ snd[p].buf[q].pktSent \in BOOLEAN
                           /\ snd[p].buf[q].ackRcvd \in BOOLEAN
                           /\ snd[p].buf[q].retryCnt \in 0 .. 15
      BY <3>2 DEF SlotType
    <3>4. snd[p].cwnd \in CwndUnit .. CwndUnit * (SeqCnt \div 2)
      BY <3>1 DEF SenderType, Half
    <3>5. QED
      BY <3>1, <3>3, <3>4 DEF SenderType, ReceiverType
  <2>2. conn \in [Node -> [pc : {"idle", "test", "mark"}, orig : SeqNo]] /\ faults \in 0 .. MaxFaults
    BY <1>1 DEF ChannelInv, ChannelTypes, ConnType
  <2>3. QED
    BY <2>1, <2>2 DEF TypeOK
<1>2. QED
  BY ChannelInvariant, <1>1, PTL

(***************************************************************************)
(* WindowsAgree: the receiver expects a packet of the window of the        *)
(* sender, and no more than half of the sequence space is outstanding,     *)
(* however often sequence numbers have wrapped.                            *)
(***************************************************************************)
THEOREM WindowsAlwaysAgree == ASSUME Orderly PROVE Spec => []WindowsAgree
<1>1. ASSUME ChannelInv PROVE WindowsAgree
  <2> SUFFICES ASSUME NEW p \in Node
               PROVE  /\ Dist(rcv[Peer(p)].expectedSeq, Plus(snd[p].lastAcked, 1)) <= InFlight(snd[p])
                      /\ InFlight(snd[p]) <= Outstanding(snd[p])
                      /\ Outstanding(snd[p]) <= SeqCnt \div 2
    BY DEF WindowsAgree
  <2> DEFINE s == snd[p]
             rc == rcv[Peer(p)]
             R == Received(passedUp[p])
  <2>1. /\ s \in SenderType
        /\ \E la, ms, e \in Int : SenderInv(s, R, la, ms) /\ ReceiverInv(rc, R, la, ms, e)
    BY <1>1, DirNow
  <2> HIDE DEF s, rc, R
  <2>2. PICK la, ms, e \in Int : SenderInv(s, R, la, ms) /\ ReceiverInv(rc, R, la, ms, e)
    BY <2>1
  <2>3. /\ s.total \in Nat /\ la \in Int /\ ms \in Int /\ e \in Nat
        /\ -1 <= la /\ la <= ms /\ ms < s.total /\ s.total - 1 <= la + Half /\ ms <= la + Half
        /\ la < e /\ R \subseteq 0 .. ms /\ 0 .. e - 1 \subseteq R
    BY <2>1, <2>2, DirNumbers
  <2>4. e - 1 <= ms
    BY <2>3
  <2>5. /\ s.lastAcked = la % SeqCnt /\ s.maxSent = ms % SeqCnt /\ s.maxPacket = (s.total - 1) % SeqCnt
        /\ rc.expectedSeq = e % SeqCnt
    BY <2>2 DEF SenderInv, BufferInv, WindowInv, ReceiverInv
  <2>6. s.total - 1 \in Int /\ la + 1 \in Int /\ e \in Int
    BY <2>3
  <2>7. /\ la <= ms /\ ms < la + SeqCnt /\ la <= s.total - 1 /\ s.total - 1 < la + SeqCnt
        /\ la + 1 <= e /\ e < (la + 1) + SeqCnt
    BY <2>3, <2>4, HalfFacts
  <2>8. InFlight(s) = ms - la
    BY <2>3, <2>5, <2>7, DistNear DEF InFlight
  <2>9. Outstanding(s) = (s.total - 1) - la
    BY <2>3, <2>5, <2>6, <2>7, DistNear DEF Outstanding
  <2>10. Plus(s.lastAcked, 1) = (la + 1) % SeqCnt
    BY <2>3, <2>5, PlusOfResidue
  <2>11. Dist(rc.expectedSeq, Plus(s.lastAcked, 1)) = e - (la + 1)
    BY <2>5, <2>6, <2>7, <2>10, DistNear
  <2>12. /\ Dist(rc.expectedSeq, Plus(s.lastAcked, 1)) <= InFlight(s)
         /\ InFlight(s) <= Outstanding(s) /\ Outstanding(s) <= SeqCnt \div 2
    BY <2>3, <2>4, <2>8, <2>9, <2>11, HalfFacts
  <2>13. QED
    BY <2>12 DEF s, rc
<1>2. QED
  BY ChannelInvariant, <1>1, PTL

(***************************************************************************)
(* TimersExact: no assert of startTimer, stopTimer or restartTimer can     *)
(* fail, on any path through ackRecv, timeoutEvent and                     *)
(* getUndeliveredPackets.                                                  *)
(***************************************************************************)
THEOREM TimersAlwaysExact == ASSUME Orderly PROVE Spec => []TimersExact
<1>1. ASSUME ChannelInv PROVE TimersExact
  <2>1. ASSUME NEW p \in Node PROVE TimerInv(snd[p])
    BY <1>1, DirNow DEF SenderInv, BufferInv
  <2>2. QED
    BY <2>1 DEF TimersExact, TimerInv, Held
<1>2. QED
  BY ChannelInvariant, <1>1, PTL

(***************************************************************************)
(* HeadHeld: the packet after lastAcked, which a triple duplicate or a     *)
(* partial acknowledgement retransmits without looking, is in the buffer.  *)
(***************************************************************************)
THEOREM HeadAlwaysHeld == ASSUME Orderly PROVE Spec => []HeadHeld
<1>1. ASSUME ChannelInv PROVE HeadHeld
  <2> SUFFICES ASSUME NEW p \in Node, Outstanding(snd[p]) > 0, ~snd[p].drained
               PROVE  snd[p].buf[Plus(snd[p].lastAcked, 1)].pkt # Null
    BY DEF HeadHeld
  <2> DEFINE s == snd[p]
             rc == rcv[Peer(p)]
             R == Received(passedUp[p])
  <2>1. /\ s \in SenderType
        /\ \E la, ms, e \in Int : SenderInv(s, R, la, ms) /\ ReceiverInv(rc, R, la, ms, e)
    BY <1>1, DirNow
  <2>2. Outstanding(s) > 0 /\ ~s.drained
    OBVIOUS
  <2> HIDE DEF s, rc, R
  <2>3. PICK la, ms, e \in Int : SenderInv(s, R, la, ms) /\ ReceiverInv(rc, R, la, ms, e)
    BY <2>1
  <2>4. /\ s.total \in Nat /\ la \in Int /\ -1 <= la /\ la < s.total /\ s.total - 1 <= la + Half
    BY <2>1, <2>3, DirNumbers
  <2>5. s.lastAcked = la % SeqCnt /\ s.maxPacket = (s.total - 1) % SeqCnt /\ HeadInv(s, la)
    BY <2>3 DEF SenderInv, BufferInv, WindowInv
  <2>6. s.total - 1 \in Int /\ la <= s.total - 1 /\ s.total - 1 < la + SeqCnt
    BY <2>4, HalfFacts
  <2>7. Outstanding(s) = (s.total - 1) - la
    BY <2>4, <2>5, <2>6, DistNear DEF Outstanding
  <2>8. la + 1 < s.total
    BY <2>2, <2>4, <2>7
  <2>9. Plus(s.lastAcked, 1) = (la + 1) % SeqCnt
    BY <2>4, <2>5, PlusOfResidue
  <2>10. Held(s, Plus(s.lastAcked, 1))
    BY <2>2, <2>5, <2>8, <2>9 DEF HeadInv
  <2>11. QED
    BY <2>10 DEF Held, s
<1>2. QED
  BY ChannelInvariant, <1>1, PTL

(***************************************************************************)
(* RecoverInFlight: the packets still to be recovered are in flight.       *)
(***************************************************************************)
THEOREM RecoveryInFlight == ASSUME Orderly PROVE Spec => []RecoverInFlight
<1>1. ASSUME ChannelInv PROVE RecoverInFlight
  <2> SUFFICES ASSUME NEW p \in Node, InRecovery(snd[p])
               PROVE  snd[p].recover \in 1 .. InFlight(snd[p])
    BY DEF RecoverInFlight, InRecovery
  <2> DEFINE s == snd[p]
             rc == rcv[Peer(p)]
             R == Received(passedUp[p])
  <2>1. /\ s \in SenderType
        /\ \E la, ms, e \in Int : SenderInv(s, R, la, ms) /\ ReceiverInv(rc, R, la, ms, e)
    BY <1>1, DirNow
  <2>2. InRecovery(s)
    OBVIOUS
  <2> HIDE DEF s, rc, R
  <2>3. PICK la, ms, e \in Int : SenderInv(s, R, la, ms) /\ ReceiverInv(rc, R, la, ms, e)
    BY <2>1
  <2>4. /\ la \in Int /\ ms \in Int /\ la <= ms /\ ms <= la + Half
    BY <2>1, <2>3, DirNumbers
  <2>5. s.lastAcked = la % SeqCnt /\ s.maxSent = ms % SeqCnt /\ RecoveryInv(s, la, ms)
    BY <2>3 DEF SenderInv, BufferInv, WindowInv
  <2>6. ms < la + SeqCnt
    BY <2>4, HalfFacts
  <2>7. InFlight(s) = ms - la
    BY <2>4, <2>5, <2>6, DistNear DEF InFlight
  <2>8. s.recover \in Int
    BY <2>1, SeqCntFacts DEF SenderType, SeqNo
  <2>9. 1 <= s.recover /\ s.recover <= ms - la
    BY <2>2, <2>5 DEF RecoveryInv
  <2>10. s.recover \in 1 .. InFlight(s)
    BY <2>4, <2>7, <2>8, <2>9
  <2>11. QED
    BY <2>10 DEF s
<1>2. QED
  BY ChannelInvariant, <1>1, PTL

(***************************************************************************)
(* NothingLeftBehind: what a dead channel does not give back has arrived.  *)
(***************************************************************************)
THEOREM NothingIsLeftBehind == ASSUME Orderly PROVE Spec => []NothingLeftBehind
<1>1. ASSUME ChannelInv PROVE NothingLeftBehind
  <2> SUFFICES ASSUME NEW p \in Node, snd[p].drained
               PROVE  /\ \A q \in SeqNo : snd[p].buf[q].pkt = Null
                      /\ \A i \in 0 .. snd[p].total - 1 : passedUp[p][i] > 0 \/ i \in snd[p].undelivered
    BY DEF NothingLeftBehind
  <2>1. DeathInv(snd[p], Received(passedUp[p]))
    BY <1>1, DirNow DEF SenderInv, BufferInv
  <2>2. snd[p].total \in Nat
    BY <1>1, DirNow DEF SenderType
  <2>3. ASSUME NEW i \in 0 .. snd[p].total - 1 PROVE passedUp[p][i] > 0 \/ i \in snd[p].undelivered
    <3>1. i \in Int /\ 0 <= i /\ i < snd[p].total
      BY <2>2
    <3>2. i \in Received(passedUp[p]) \/ i \in snd[p].undelivered
      BY <2>1, <3>1 DEF DeathInv
    <3>3. QED
      BY <3>2 DEF Received
  <2>4. \A q \in SeqNo : snd[p].buf[q].pkt = Null
    BY <2>1 DEF DeathInv, Held
  <2>5. QED
    BY <2>3, <2>4
<1>2. QED
  BY ChannelInvariant, <1>1, PTL

(***************************************************************************)
(* Every direction implements ReliableTransfer.                            *)
(***************************************************************************)
LEMMA HeldIdsAre == \A s : HeldIds(s) = HeldPackets(s)
  BY DEF HeldIds, HeldPackets, Held

\* A held packet lies behind the acknowledged ones, in its own slot.
LEMMA HeldPacketFacts ==
  ASSUME NEW s \in SenderType, NEW R, NEW la, NEW ms, SenderInv(s, R, la, ms)
  PROVE  \A i \in HeldPackets(s) : i \in Int /\ la < i /\ i < s.total /\ i \in PacketId
<1> SUFFICES ASSUME NEW i \in HeldPackets(s)
             PROVE  i \in Int /\ la < i /\ i < s.total /\ i \in PacketId
  OBVIOUS
<1>1. PICK q \in SeqNo : Held(s, q) /\ i = s.buf[q].pkt.id
  BY DEF HeldPackets
<1>2. i \in PacketId /\ i \in Int
  BY <1>1, BufFacts
<1>3. SlotInv(s, la, ms, q)
  BY DEF SenderInv, BufferInv
<1>4. QED
  BY <1>1, <1>2, <1>3 DEF SlotInv

\* A packet whose slot is held is the one that is held there.
LEMMA SlotOfPacket ==
  ASSUME NEW s \in SenderType, NEW R, NEW la \in Int, NEW ms \in Int, SenderInv(s, R, la, ms),
         NEW i \in Int, la < i, i < s.total, s.total - 1 <= la + Half, s.total \in Nat, Held(s, i % SeqCnt)
  PROVE  i \in HeldPackets(s)
<1> DEFINE q == i % SeqCnt
           j == s.buf[q].pkt.id
<1>1. q \in SeqNo
  BY Residue
<1>2. j \in Int
  BY <1>1, BufFacts
<1>3. SlotInv(s, la, ms, q)
  BY <1>1 DEF SenderInv, BufferInv
<1>4. la < j /\ j < s.total /\ q = j % SeqCnt
  BY <1>3 DEF SlotInv
<1>5. i % SeqCnt = j % SeqCnt
  BY <1>4
<1> HIDE DEF j
<1>6. -SeqCnt < i - j /\ i - j < SeqCnt
  BY <1>2, <1>4, HalfFacts
<1>7. i = j
  BY <1>2, <1>5, <1>6, ResidueEqual
<1>8. QED
  BY <1>1, <1>7 DEF HeldPackets, j

\* A packet that is neither held nor given back has arrived.
LEMMA GoneReceived ==
  ASSUME NEW s \in SenderType, NEW R, NEW rc, NEW la, NEW ms, NEW e,
         SenderInv(s, R, la, ms), ReceiverInv(rc, R, la, ms, e)
  PROVE  RetiredIds(s) \subseteq R
<1>1. /\ s.total \in Nat /\ la \in Int /\ ms \in Int
      /\ s.total - 1 <= la + Half /\ 0 .. la \subseteq R
  BY DirNumbers
<1> SUFFICES ASSUME NEW i \in 0 .. s.total - 1, i \notin HeldPackets(s), i \notin s.undelivered
             PROVE  i \in R
  BY HeldIdsAre DEF RetiredIds
<1>2. i \in Int /\ 0 <= i /\ i < s.total
  BY <1>1
<1>3. CASE i <= la
  BY <1>1, <1>2, <1>3
<1>4. CASE la < i
  <2>1. ~Held(s, i % SeqCnt)
    BY <1>1, <1>2, <1>4, SlotOfPacket
  <2>2. CASE s.drained
    BY <1>2, <2>2 DEF SenderInv, BufferInv, DeathInv
  <2>3. CASE ~s.drained
    BY <1>2, <1>4, <2>1, <2>3 DEF SenderInv, BufferInv, GapInv
  <2>4. QED
    BY <2>2, <2>3
<1>5. QED
  BY <1>1, <1>2, <1>3, <1>4

\* A handler that takes a packet, or none, forgets none.
LEMMA SubmitKeepsRetired ==
  ASSUME NEW s \in SenderType, NEW t \in SenderType, NEW R, NEW la, NEW ms, SenderInv(s, R, la, ms),
         NEW rc, NEW e, ReceiverInv(rc, R, la, ms, e),
         NEW la2, NEW ms2, SenderInv(t, R, la2, ms2), NEW rc2, NEW e2, ReceiverInv(rc2, R, la2, ms2, e2),
         Submits(s, t)
  PROVE  RetiredIds(t) = RetiredIds(s)
<1>1. /\ t.total = s.total \/ t.total = s.total + 1
      /\ t.undelivered = s.undelivered /\ AddsPacket(s, t)
  BY DEF Submits
<1>2. s.total \in Nat /\ t.total \in Nat /\ ms < s.total /\ R \subseteq 0 .. ms /\ ms \in Int
  BY DirNumbers DEF SenderType
<1>3. HeldPackets(s) \subseteq HeldPackets(t)
  <2>1. \A q \in SeqNo : Held(s, q) => Held(t, q) /\ t.buf[q].pkt = s.buf[q].pkt
    BY <1>1 DEF AddsPacket, Held
  <2>2. QED
    BY <2>1 DEF HeldPackets
<1>4. \A i \in HeldPackets(t) : i \in HeldPackets(s) \/ (i = s.total /\ t.total = s.total + 1)
  <2> SUFFICES ASSUME NEW i \in HeldPackets(t), i \notin HeldPackets(s)
               PROVE  i = s.total /\ t.total = s.total + 1
    OBVIOUS
  <2>1. PICK q \in SeqNo : Held(t, q) /\ i = t.buf[q].pkt.id
    BY DEF HeldPackets
  <2>2. ~Held(s, q)
    BY <1>1, <2>1 DEF AddsPacket, HeldPackets
  <2>3. QED
    BY <1>1, <2>1, <2>2 DEF AddsPacket
<1>5. RetiredIds(s) = (0 .. s.total - 1) \ (HeldPackets(s) \cup s.undelivered)
  BY HeldIdsAre DEF RetiredIds
<1>6. RetiredIds(t) = (0 .. t.total - 1) \ (HeldPackets(t) \cup s.undelivered)
  BY <1>1, HeldIdsAre DEF RetiredIds
<1>7. CASE t.total = s.total
  <2>1. HeldPackets(t) = HeldPackets(s)
    <3>1. t.total # s.total + 1
      BY <1>2, <1>7
    <3>2. \A i \in HeldPackets(t) : i \in HeldPackets(s)
      BY <1>4, <3>1
    <3>3. QED
      BY <1>3, <3>2
  <2>2. QED
    BY <1>5, <1>6, <1>7, <2>1
<1>8. CASE t.total = s.total + 1
  <2>1. s.total \in HeldPackets(t) \cup s.undelivered
    <3>1. s.total \notin R
      BY <1>2
    <3>2. RetiredIds(t) \subseteq R
      BY GoneReceived
    <3>3. s.total \in 0 .. t.total - 1
      BY <1>2, <1>8
    <3>4. QED
      BY <1>6, <3>1, <3>2, <3>3
  <2>2. 0 .. t.total - 1 = (0 .. s.total - 1) \cup {s.total}
    BY <1>2, <1>8
  <2>3. s.total \notin 0 .. s.total - 1
    BY <1>2
  <2>4. QED
    BY <1>3, <1>4, <1>5, <1>6, <2>1, <2>2, <2>3
<1>9. QED
  BY <1>1, <1>7, <1>8

\* What goes back is all that had not arrived.
LEMMA ReturnTakesAll ==
  ASSUME NEW s \in SenderType, NEW t \in SenderType, NEW R, NEW la, NEW ms, SenderInv(s, R, la, ms),
         -1 <= la, la \in Int, 0 .. s.total - 1 \subseteq PacketId, Returns(s, t)
  PROVE  /\ RetiredIds(t) = RetiredIds(s)
         /\ t.undelivered = {i \in PacketId : i < s.total} \ RetiredIds(s)
<1>1. /\ ~s.drained /\ t.total = s.total /\ t.undelivered = s.undelivered \cup HeldPackets(s)
      /\ \A q \in SeqNo : ~Held(t, q)
  BY DEF Returns
<1>2. s.undelivered = {}
  BY <1>1 DEF SenderInv, BufferInv, DeathInv
<1>3. HeldPackets(t) = {}
  BY <1>1 DEF HeldPackets
<1>4. RetiredIds(s) = (0 .. s.total - 1) \ HeldPackets(s)
  BY <1>2, HeldIdsAre DEF RetiredIds
<1>5. RetiredIds(t) = (0 .. s.total - 1) \ HeldPackets(s)
  BY <1>1, <1>2, <1>3, HeldIdsAre DEF RetiredIds
<1>6. \A i \in HeldPackets(s) : i \in Int /\ la < i /\ i < s.total /\ i \in PacketId
  BY HeldPacketFacts
<1>7. s.total \in Nat
  BY DEF SenderType
<1>8. \A i \in HeldPackets(s) : i \in 0 .. s.total - 1
  BY <1>6, <1>7
<1>9. \A i \in PacketId : i < s.total <=> i \in 0 .. s.total - 1
  BY <1>7, PacketIdNat
<1>10. t.undelivered = {i \in PacketId : i < s.total} \ RetiredIds(s)
  BY <1>1, <1>2, <1>4, <1>6, <1>8, <1>9
<1>11. QED
  BY <1>4, <1>5, <1>10

\* Forgetting never makes a packet unforgotten.
LEMMA ForgetsReceived ==
  ASSUME NEW s \in SenderType, NEW t \in SenderType, Forgets(s, t)
  PROVE  t.total = s.total /\ t.undelivered = s.undelivered /\ RetiredIds(s) \subseteq RetiredIds(t)
<1>1. HeldPackets(t) \subseteq HeldPackets(s)
  BY DEF Forgets, HeldPackets
<1>2. QED
  BY <1>1, HeldIdsAre DEF Forgets, RetiredIds

\* The packets of an end fit in PacketId.
LEMMA TotalBound ==
  ASSUME ChannelInv, NEW p \in Node
  PROVE  snd[p].total \in Nat /\ 0 .. snd[p].total - 1 \subseteq PacketId
<1>1. snd[p] \in SenderType /\ CountInv(p, snd[p], shutting[p])
  BY SenderState
<1>2. snd[p].total \in Nat /\ MaxPackets[p] \in Nat /\ 0 .. MaxPackets[p] + 2 \subseteq PacketId
  BY <1>1, PacketIdFacts DEF SenderType
<1>3. snd[p].total <= MaxPackets[p] + 3
  <2>1. CASE snd[p].shutDownSent
    BY <1>1, <1>2, <2>1 DEF CountInv
  <2>2. CASE ~snd[p].shutDownSent /\ shutting[p]
    BY <1>1, <1>2, <2>2 DEF CountInv
  <2>3. CASE ~snd[p].shutDownSent /\ ~shutting[p]
    BY <1>1, <1>2, <2>3 DEF CountInv
  <2>4. QED
    BY <2>1, <2>2, <2>3
<1>4. QED
  BY <1>2, <1>3

\* Each end's step is one of the steps ReliableTransfer allows.
Allowed(p) ==
  Transfer!Submit(p) \/ Transfer!PassUp(p) \/ Transfer!Retire(p) \/ Transfer!Return(p) \/ Transfer!Idle(p)

\* What an end does to its packets is one of the five steps.
LEMMA StepAllowed == ASSUME ChannelInv, Kept, NEW p \in Node PROVE Allowed(p)
<1> DEFINE s == snd[p]
           t == snd'[p]
           R == Received(passedUp[p])
           rc == rcv[Peer(p)]
           rc2 == rcv'[Peer(p)]
<1>1. /\ s \in SenderType
      /\ \E la, ms, e \in Int : SenderInv(s, R, la, ms) /\ ReceiverInv(rc, R, la, ms, e)
  BY DirNow
<1>2. t \in SenderType /\ passedUp'[p] \in [PacketId -> {0, 1}]
  BY DEF Kept, ChannelTypes
<1>3. \E la, ms, e \in Int : SenderInv(t, Received(passedUp'[p]), la, ms) /\ ReceiverInv(rc2, Received(passedUp'[p]), la, ms, e)
  BY DEF Kept, DirInv, Dir
<1>4. DirStep(p)
  BY DEF Kept
<1>5. s.total \in Nat /\ 0 .. s.total - 1 \subseteq PacketId
  BY TotalBound
<1>6. PICK la, ms, e \in Int : SenderInv(s, R, la, ms) /\ ReceiverInv(rc, R, la, ms, e)
  BY <1>1
<1>7. s = snd[p] /\ t = snd'[p]
  OBVIOUS
<1> DEFINE sent == [q \in Node |-> snd[q].total]
           retired == [q \in Node |-> RetiredIds(snd[q])]
           returned == [q \in Node |-> snd[q].undelivered]
<1>8. /\ [q \in Node |-> snd[q].total][p] = s.total /\ [q \in Node |-> snd'[q].total][p] = t.total
      /\ [q \in Node |-> RetiredIds(snd[q])][p] = RetiredIds(s)
      /\ [q \in Node |-> RetiredIds(snd'[q])][p] = RetiredIds(t)
      /\ [q \in Node |-> snd[q].undelivered][p] = s.undelivered
      /\ [q \in Node |-> snd'[q].undelivered][p] = t.undelivered
  BY <1>7
<1> HIDE DEF s, t, R, rc, rc2, sent, retired, returned
<1>9. CASE passedUp'[p] = passedUp[p] /\ Submits(s, t)
  <2>1. \E la2, ms2, e2 \in Int : SenderInv(t, R, la2, ms2) /\ ReceiverInv(rc2, R, la2, ms2, e2)
    BY <1>3, <1>9 DEF R
  <2>2. RetiredIds(t) = RetiredIds(s)
    BY <1>1, <1>2, <1>6, <1>9, <2>1, SubmitKeepsRetired
  <2>3. (t.total = s.total \/ t.total = s.total + 1) /\ t.undelivered = s.undelivered
    BY <1>9 DEF Submits
  <2>4. CASE t.total = s.total
    BY <1>8, <1>9, <2>2, <2>3, <2>4 DEF Allowed, Transfer!Idle
  <2>5. CASE t.total = s.total + 1
    BY <1>8, <1>9, <2>2, <2>3, <2>5 DEF Allowed, Transfer!Submit
  <2>6. QED
    BY <2>3, <2>4, <2>5
<1>10. CASE passedUp'[p] = passedUp[p] /\ Returns(s, t)
  <2>1. -1 <= la
    BY <1>1, <1>6, DirNumbers
  <2>2. /\ RetiredIds(t) = RetiredIds(s)
        /\ t.undelivered = {i \in PacketId : i < s.total} \ RetiredIds(s)
    BY <1>1, <1>2, <1>5, <1>6, <1>10, <2>1, ReturnTakesAll
  <2>3. t.total = s.total
    BY <1>10 DEF Returns
  <2>4. QED
    BY <1>8, <1>10, <2>2, <2>3 DEF Allowed, Transfer!Return
<1>11. CASE passedUp'[p] = passedUp[p] /\ Forgets(s, t)
  <2>1. t.total = s.total /\ t.undelivered = s.undelivered /\ RetiredIds(s) \subseteq RetiredIds(t)
    BY <1>1, <1>2, <1>11, ForgetsReceived
  <2>2. RetiredIds(t) \subseteq R
    BY <1>2, <1>3, <1>11, GoneReceived DEF R
  <2>3. \A i \in RetiredIds(t) : passedUp[p][i] = 1
    BY <2>2 DEF R, Received
  <2>4. RetiredIds(t) \cap s.undelivered = {}
    BY <2>1 DEF RetiredIds
  <2>5. QED
    BY <1>8, <1>11, <2>1, <2>3, <2>4 DEF Allowed, Transfer!Retire
<1>12. CASE t = s /\ PassesUp(p)
  BY <1>7, <1>8, <1>12 DEF Allowed, Transfer!PassUp, PassesUp
<1>13. QED
  BY <1>4, <1>7, <1>9, <1>10, <1>11, <1>12 DEF DirStep

\* So each step of the channel is a step of ReliableTransfer.
LEMMA TransferStep == ASSUME Orderly, ChannelInv, [Next]_vars PROVE [Transfer!Next]_(Transfer!vars)
<1>1. Kept
  BY NextKeeps
<1>2. \A p \in Node : Allowed(p)
  BY <1>1, StepAllowed
<1>3. QED
  BY <1>2 DEF Allowed, Transfer!Next

\* The beginning is that of ReliableTransfer.
LEMMA TransferInit == Init => Transfer!Init
<1> SUFFICES ASSUME Init PROVE Transfer!Init
  OBVIOUS
<1>1. /\ InitSender.total = 0 /\ InitSender.undelivered = {} /\ RetiredIds(InitSender) = {}
  BY DEF InitSender, RetiredIds
<1>2. snd = [p \in Node |-> InitSender] /\ passedUp = [p \in Node |-> [i \in PacketId |-> 0]]
  BY DEF Init
<1> HIDE DEF Init
<1>3. \A p \in Node : snd[p].total = 0 /\ snd[p].undelivered = {} /\ RetiredIds(snd[p]) = {}
  BY <1>1, <1>2
<1>4. QED
  BY <1>2, <1>3 DEF Transfer!Init

(***************************************************************************)
(* The channel implements ReliableTransfer: every packet is passed up at   *)
(* most once, and the sender forgets only what has arrived or what it      *)
(* gives back.                                                             *)
(***************************************************************************)
THEOREM ChannelImplementsTransfer == ASSUME Orderly PROVE Spec => ImplementsTransfer
<1>1. ChannelInv /\ [Next]_vars => [Transfer!Next]_(Transfer!vars)
  BY TransferStep
<1>2. QED
  BY ChannelInvariant, TransferInit, <1>1, PTL DEF Spec, ImplementsTransfer, Transfer!Spec
=============================================================================
