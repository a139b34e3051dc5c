------------------------- MODULE ChannelEnds_proofs -------------------------
(***************************************************************************)
(* What the handlers of a sender keep, one after the other. Sequence       *)
(* numbers are residues of absolute positions: la of the last acknowledged *)
(* packet, ms of the last sent one, e of the one the receiver expects.     *)
(* Packets carry their position as their id, so every wrapped comparison   *)
(* of the code is compared with the one it stands for.                     *)
(***************************************************************************)
EXTENDS Channel, FiniteSetTheorems, SequenceTheorems, WellFoundedInduction, TLAPS

Half == SeqCnt \div 2

\* Every end sends less than half of the sequence space: its start packet, the
\* packets of the application and, where a close is possible, two FLAG_CHF
\* packets.
FewPackets ==
  \A p \in Node : MaxPackets[p] + (IF Closers = {} THEN 1 ELSE 3) < Half

\* A datagram that is overtaken by half of the sequence space cannot be told
\* from a new one, and the code has no lifetime for datagrams.
Orderly == "reorder" \in FaultKinds => FewPackets

\* Types of what the variables hold.
SlotType == [pkt : Pkt \cup {Null}, pktSent : BOOLEAN, ackRcvd : BOOLEAN, retryCnt : 0 .. 15]
DataType == [type : {"DAT"}, seq : SeqNo, pkt : Pkt]
AckType == [type : {"ACK"}, ackNo : SeqNo, orig : SeqNo]
Message == DataType \cup AckType

SenderType ==
  [lastAcked : SeqNo, maxPacket : SeqNo, maxSent : SeqNo, bufStarted : BOOLEAN,
   buf : [SeqNo -> SlotType], timerList : SUBSET SeqNo,
   sendSeqLock : {"free", "leaked", "stuck"}, total : Nat, undelivered : SUBSET PacketId,
   senderWindow : Nat, cwnd : CwndUnit .. CwndUnit * Half, ssthresh : Nat,
   status : {"SLOW_START", "CONG_AVOIDANCE", "FAST_RECOVERY", "MULTI_RECOVERY"},
   recover : SeqNo, recoverIndex : SeqNo, multiRecoverIndex : SeqNo, duplicateCount : Nat,
   up : BOOLEAN, started : BOOLEAN, closed : BOOLEAN, deadChannel : BOOLEAN,
   drained : BOOLEAN, shutDownSent : BOOLEAN, shutDownRecv : BOOLEAN,
   shutDownSentRecv : BOOLEAN, out : Seq(Message)]

ReceiverType == [expectedSeq : SeqNo, buf : SUBSET SeqNo, recvStarted : BOOLEAN]
BatchType == [acks : Seq(AckType), maxAck : SeqNo, normalisedMax : SeqNo]
ConnType == [pc : {"idle", "test", "mark"}, orig : SeqNo]

\* The type of the state. A handler leaves no datagram behind in out.
ChannelTypes ==
  /\ snd \in [Node -> SenderType]
  /\ rcv \in [Node -> ReceiverType]
  /\ link \in [Node -> Seq(Message)]
  /\ dataRecvQueue \in [Node -> Seq(DataType)]
  /\ ackRecvQueue \in [Node -> Seq(AckType)]
  /\ batch \in [Node -> BatchType]
  /\ conn \in [Node -> ConnType]
  /\ shutting \in [Node -> BOOLEAN]
  /\ passedUp \in [Node -> [PacketId -> {0, 1}]]
  /\ faults \in 0 .. MaxFaults
  /\ \A p \in Node : snd[p].out = <<>>

-----------------------------------------------------------------------------
\* The slot q holds a packet.
Held(s, q) == s.buf[q].pkt # Null
InRecovery(s) == s.status \in {"FAST_RECOVERY", "MULTI_RECOVERY"}

\* lastAcked and maxSent are the residues of la and ms; no more than half of
\* the sequence space is outstanding.
WindowInv(s, la, ms) ==
  /\ la \in Int /\ ms \in Int
  /\ -1 <= la /\ la <= ms /\ ms < s.total /\ s.total - 1 <= la + Half
  /\ s.lastAcked = la % SeqCnt /\ s.maxSent = ms % SeqCnt /\ s.maxPacket = (s.total - 1) % SeqCnt

\* A full slot holds a packet of the window, and pktSent_ says whether it went
\* out.
SlotInv(s, la, ms, q) ==
  IF Held(s, q)
  THEN /\ la < s.buf[q].pkt.id /\ s.buf[q].pkt.id < s.total /\ q = s.buf[q].pkt.id % SeqCnt
       /\ s.buf[q].pktSent <=> s.buf[q].pkt.id <= ms
       /\ s.buf[q].pkt.chf => Closers # {}
  ELSE ~s.buf[q].pktSent

\* The timers are those of the packets in flight.
TimerInv(s) == s.timerList = {q \in SeqNo : Held(s, q) /\ s.buf[q].pktSent}

\* An empty slot of the window is that of a packet that arrived.
GapInv(s, R, la, ms) ==
  ~s.drained => \A i \in Int : la < i /\ i < s.total /\ ~Held(s, i % SeqCnt) =>
                    i <= ms /\ i \in R

\* The first slot of the window is full while something is outstanding.
HeadInv(s, la) == ~s.drained /\ la + 1 < s.total => Held(s, (la + 1) % SeqCnt)

\* A channel that gave its packets back holds none, and what it did not give
\* back has arrived; the others hold no lock.
DeathInv(s, R) ==
  IF s.drained
  THEN /\ s.deadChannel
       /\ \A q \in SeqNo : ~Held(s, q)
       /\ \A i \in Int : 0 <= i /\ i < s.total => i \in R \/ i \in s.undelivered
  ELSE s.undelivered = {} /\ s.sendSeqLock = "free"

\* In recovery, the packets to be recovered are in flight.
RecoveryInv(s, la, ms) == InRecovery(s) => 1 <= s.recover /\ s.recover <= ms - la

BufferInv(s, R, la, ms) ==
  /\ WindowInv(s, la, ms)
  /\ \A q \in SeqNo : SlotInv(s, la, ms, q)
  /\ TimerInv(s) /\ GapInv(s, R, la, ms) /\ DeathInv(s, R)

SenderInv(s, R, la, ms) == BufferInv(s, R, la, ms) /\ HeadInv(s, la) /\ RecoveryInv(s, la, ms)

\* The data packets a handler sends are among those in flight.
OutInv(o, la, ms) ==
  \A j \in DOMAIN o :
    /\ o[j].type = "DAT" /\ la < o[j].pkt.id /\ o[j].pkt.id <= ms
    /\ o[j].seq = o[j].pkt.id % SeqCnt /\ (o[j].pkt.chf => Closers # {})

\* What no acknowledgement and no timeout changes, and what sending leaves alone besides.
Fixed(s, t) ==
  /\ t.maxPacket = s.maxPacket /\ t.total = s.total /\ t.undelivered = s.undelivered
  /\ t.drained = s.drained /\ t.deadChannel = s.deadChannel
  /\ t.up = s.up /\ t.started = s.started /\ t.shutDownSent = s.shutDownSent
Frame(s, t) ==
  Fixed(s, t) /\ t.lastAcked = s.lastAcked /\ t.status = s.status /\ t.recover = s.recover

\* How many packets an end may have taken, and what the flags imply.
CountInv(p, s, sh) ==
  /\ s.total <= MaxPackets[p] + 1 + (IF s.shutDownSent THEN 2 ELSE IF sh THEN 1 ELSE 0)
  /\ ~s.up => s.total = 0
  /\ s.started \/ sh \/ s.shutDownSent => s.up
  /\ sh \/ s.shutDownSent => Closers # {}

\* expectedSeq is the residue of e, the first packet that has not arrived, and
\* the bitmap marks those that have.
ReceiverInv(r, R, la, ms, e) ==
  /\ e \in Nat /\ la < e
  /\ R \subseteq 0 .. ms /\ 0 .. e - 1 \subseteq R /\ e \notin R
  /\ r.expectedSeq = e % SeqCnt
  /\ \A q \in SeqNo : q \in r.buf <=> e + Dist(q, r.expectedSeq) \in R

-----------------------------------------------------------------------------
\* A datagram is in a queue, or one is in front of another there.
In(q, m) == \E i \in DOMAIN q : q[i] = m
Ahead(q, m, x) == \E i, j \in DOMAIN q : i < j /\ q[i] = m /\ q[j] = x

\* Data on its way: first l, the path, then dq, the queue of the receiving
\* thread.
DataIn(dq, l, m) == m.type = "DAT" /\ (In(dq, m) \/ In(l, m))
DataAhead(dq, l, m, x) ==
  /\ m.type = "DAT" /\ x.type = "DAT"
  /\ Ahead(dq, m, x) \/ Ahead(l, m, x) \/ (In(dq, m) /\ In(l, x))

\* Acknowledgements on their way: the path l, the queue a, the batch b.
AckIn(b, a, l, m) == m.type = "ACK" /\ (In(b, m) \/ In(a, m) \/ In(l, m))
AckAhead(b, a, l, m, x) ==
  /\ m.type = "ACK" /\ x.type = "ACK"
  /\ \/ Ahead(b, m, x) \/ Ahead(a, m, x) \/ Ahead(l, m, x)
     \/ In(b, m) /\ (In(a, x) \/ In(l, x))
     \/ In(a, m) /\ In(l, x)

\* Data packets under way were sent, and are less than half of the space behind
\* what has arrived and what follows them: the receiver takes none for a new
\* one.
DataInv(dq, l, R, ms) ==
  /\ \A m : DataIn(dq, l, m) =>
       /\ 0 <= m.pkt.id /\ m.pkt.id <= ms /\ m.seq = m.pkt.id % SeqCnt
       /\ m.pkt.chf => Closers # {}
       /\ \A r \in R : r < m.pkt.id + Half
  /\ \A m, x : DataAhead(dq, l, m, x) => m.pkt.id < x.pkt.id + Half

\* The position an acknowledgement is measured from. Where there is no
\* reordering it never names one before lastAcked.
Base(la) == IF "reorder" \in FaultKinds THEN -1 ELSE la
\* The position an acknowledgement names,
AckPos(b, m) == b + Dist(m.ackNo, b % SeqCnt)
\* ... and the packet it was sent for.
OrigPos(i, m) == (i + Half) - Dist((i + Half) % SeqCnt, m.orig)
CausedBy(b, m) == OrigPos(AckPos(b, m), m)

\* An acknowledgement names a position before the one expected and a packet
\* that arrived. The packet behind that position is still held, and an
\* acknowledgement that was sent for this packet names a later position: so a
\* selective acknowledgement never empties the head of the window. Without
\* reordering, positions only grow along the way.
AckInv(b, a, l, s, R, la, e) ==
  LET low == Base(la) IN
  /\ \A m : AckIn(b, a, l, m) =>
       /\ AckPos(low, m) < e
       /\ CausedBy(low, m) \in R
       /\ la <= AckPos(low, m) /\ AckPos(low, m) + 1 < s.total /\ ~s.drained =>
            Held(s, (AckPos(low, m) + 1) % SeqCnt)
  /\ \A m, x : AckIn(b, a, l, m) /\ AckIn(b, a, l, x) /\ CausedBy(low, x) = AckPos(low, m) + 1 =>
       AckPos(low, m) < AckPos(low, x)
  /\ "reorder" \notin FaultKinds =>
       \A m, x : AckAhead(b, a, l, m, x) => AckPos(low, m) <= AckPos(low, x)

\* The packets that were passed up.
Received(pu) == {i \in PacketId : pu[i] = 1}

-----------------------------------------------------------------------------
\* Half of the sequence space and the other constants are whole numbers.
LEMMA SpaceFacts ==
  /\ SeqCnt \in Nat /\ SeqCnt >= 8 /\ Half \in Nat /\ Half >= 4 /\ SeqCnt = 2 * Half
  /\ SeqCnt \div 4 \in Nat /\ Half = 2 * (SeqCnt \div 4) /\ SeqCnt \div 2 = Half
  /\ CwndUnit \in Nat /\ CwndUnit > 0 /\ MaxFaults \in Nat
  BY ChannelAssumption DEF ChannelAssumption, Half

\* The same, for goals that need no quarter of the space.
LEMMA HalfFacts ==
  SeqCnt \in Int /\ Half \in Int /\ Half >= 4 /\ SeqCnt = Half + Half /\ SeqCnt \div 2 = Half
  BY SpaceFacts

\* The same, for goals that need no half of it.
LEMMA SeqCntFacts ==
  SeqCnt \in Nat /\ SeqCnt >= 8
  BY SpaceFacts

\* A sequence number is the residue of a position.
LEMMA Residue ==
  ASSUME NEW i \in Int
  PROVE  i % SeqCnt \in SeqNo /\ i \div SeqCnt \in Int /\ i = (i \div SeqCnt) * SeqCnt + (i % SeqCnt)
  BY SeqCntFacts DEF SeqNo

\* A number below SeqCnt is its own residue, whatever multiple is added.
LEMMA ResidueUnique ==
  ASSUME NEW q \in Int, NEW r \in SeqNo
  PROVE  (q * SeqCnt + r) % SeqCnt = r
<1> DEFINE S == SeqCnt
<1>1. S \in Nat /\ S > 0 /\ r \in 0 .. S - 1
  BY SeqCntFacts DEF SeqNo
<1> HIDE DEF S
<1>2. (q * S + r) % S = r
  BY <1>1
<1>3. QED
  BY <1>2 DEF S

\* Only the residue of what is added to matters.
LEMMA ResidueAdd ==
  ASSUME NEW i \in Int, NEW k \in Int
  PROVE  ((i % SeqCnt) + k) % SeqCnt = (i + k) % SeqCnt
<1> DEFINE j == (i % SeqCnt) + k
<1>1. i % SeqCnt \in SeqNo /\ i \div SeqCnt \in Int /\ i = (i \div SeqCnt) * SeqCnt + (i % SeqCnt)
  BY Residue
<1>2. j \in Int
  <2>1. i % SeqCnt \in Int
    BY <1>1, SeqCntFacts DEF SeqNo
  <2>2. QED
    BY <2>1
<1>3. j % SeqCnt \in SeqNo /\ j \div SeqCnt \in Int /\ j = (j \div SeqCnt) * SeqCnt + (j % SeqCnt)
  BY <1>2, Residue
<1> DEFINE a == i \div SeqCnt
           b == j \div SeqCnt
           r == j % SeqCnt
<1>4. a \in Int /\ b \in Int /\ r \in SeqNo /\ a + b \in Int
  BY <1>1, <1>3
<1>5. i + k = a * SeqCnt + j
  BY <1>1, SeqCntFacts DEF SeqNo
<1>6. j = b * SeqCnt + r
  BY <1>3
<1> HIDE DEF j, a, b, r
<1>7. i + k = (a + b) * SeqCnt + r
  BY <1>4, <1>5, <1>6, SeqCntFacts DEF SeqNo
<1>8. (i + k) % SeqCnt = r
  BY <1>4, <1>7, ResidueUnique
<1>9. QED
  BY <1>8 DEF r, j

\* Plus moves a sequence number as its position moves.
LEMMA PlusOfResidue ==
  ASSUME NEW i \in Int, NEW k \in Int
  PROVE  Plus(i % SeqCnt, k) = (i + k) % SeqCnt
  BY ResidueAdd DEF Plus

\* Dist of two sequence numbers is the difference of their positions, wrapped.
LEMMA DistOfResidues ==
  ASSUME NEW i \in Int, NEW j \in Int
  PROVE  Dist(i % SeqCnt, j % SeqCnt) = (i - j) % SeqCnt
<1> DEFINE r == j % SeqCnt
           b == j \div SeqCnt
<1>1. r \in SeqNo /\ b \in Int /\ j = b * SeqCnt + r
  BY Residue
<1>2. r \in Int
  BY <1>1, SeqCntFacts DEF SeqNo
<1>3. ((i % SeqCnt) - r) % SeqCnt = (i - r) % SeqCnt
  <2>1. -r \in Int /\ i % SeqCnt \in Int
    BY <1>2, Residue, SeqCntFacts DEF SeqNo
  <2>2. ((i % SeqCnt) + (-r)) % SeqCnt = (i + (-r)) % SeqCnt
    BY <2>1, ResidueAdd
  <2> HIDE DEF r
  <2>3. (i % SeqCnt) + (-r) = (i % SeqCnt) - r /\ i + (-r) = i - r
    BY <1>2, <2>1
  <2>4. QED
    BY <2>2, <2>3
<1> DEFINE d == i - r
           c == d \div SeqCnt
           e == d % SeqCnt
<1>4. d \in Int /\ e \in SeqNo /\ c \in Int /\ d = c * SeqCnt + e
  BY <1>2, Residue
<1>5. i - j = d - b * SeqCnt /\ b * SeqCnt \in Int
  BY <1>1, <1>2, SeqCntFacts
<1>9. ((i % SeqCnt) - (j % SeqCnt)) % SeqCnt = e
  BY <1>3
<1> HIDE DEF r, b, d, c, e
<1>6. i - j = (c - b) * SeqCnt + e /\ c - b \in Int
  BY <1>1, <1>4, <1>5, SeqCntFacts DEF SeqNo
<1>7. (i - j) % SeqCnt = e
  BY <1>4, <1>6, ResidueUnique
<1>8. QED
  BY <1>7, <1>9 DEF Dist

\* Residues of numbers close to the space.
LEMMA ResidueNear ==
  ASSUME NEW d \in Int
  PROVE  /\ 0 <= d /\ d < SeqCnt => d % SeqCnt = d
         /\ -SeqCnt <= d /\ d < 0 => d % SeqCnt = d + SeqCnt
         /\ SeqCnt <= d /\ d < 2 * SeqCnt => d % SeqCnt = d - SeqCnt
  BY SeqCntFacts

\* Positions less than SeqCnt apart with one sequence number are the same.
LEMMA ResidueEqual ==
  ASSUME NEW i \in Int, NEW j \in Int, i % SeqCnt = j % SeqCnt, -SeqCnt < i - j, i - j < SeqCnt
  PROVE  i = j
<1>1. (i - j) % SeqCnt = Dist(i % SeqCnt, i % SeqCnt)
  BY DistOfResidues
<1>2. Dist(i % SeqCnt, i % SeqCnt) = (i - i) % SeqCnt
  BY DistOfResidues
<1>3. (i - j) % SeqCnt = 0
  BY <1>1, <1>2, ResidueNear, SeqCntFacts
<1>4. QED
  BY <1>3, ResidueNear, SeqCntFacts

\* Dist is the way from one sequence number to the other.
LEMMA DistSound ==
  ASSUME NEW x \in SeqNo, NEW y \in SeqNo
  PROVE  Dist(x, y) \in SeqNo /\ Plus(y, Dist(x, y)) = x /\ Dist(x, x) = 0
<1>1. x \in Int /\ y \in Int /\ x - y \in Int
  BY SeqCntFacts DEF SeqNo
<1>2. Dist(x, y) \in SeqNo
  BY <1>1, Residue DEF Dist
<1>3. (y + ((x - y) % SeqCnt)) % SeqCnt = (y + (x - y)) % SeqCnt
  BY <1>1, <1>2, ResidueAdd, SeqCntFacts DEF Dist, SeqNo
<1>4. x % SeqCnt = x
  BY <1>1, ResidueNear, SeqCntFacts DEF SeqNo
<1>5. y + (x - y) = x /\ x - x = 0
  BY <1>1
<1>6. 0 % SeqCnt = 0
  BY ResidueNear, SeqCntFacts
<1>7. QED
  BY <1>2, <1>3, <1>4, <1>5, <1>6 DEF Dist, Plus

(***************************************************************************)
(* The least element of a set of numbers, in place of an induction.        *)
(***************************************************************************)
Below == {ss \in Nat \X Nat : ss[1] < ss[2]}

\* Every set of numbers that is not empty has a least element.
LEMMA LeastOf ==
  ASSUME NEW T, T \subseteq Nat, T # {}
  PROVE  \E n \in T : \A m \in T : n <= m
<1>1. IsWellFoundedOn(Below, Nat)
  BY NatLessThanWellFounded DEF OpToRel, Below
<1>2. PICK n \in T : \A m \in T : <<m, n>> \notin Below
  BY <1>1, WFMin
<1>3. ASSUME NEW m \in T PROVE n <= m
  <2>1. <<m, n>> \notin Below /\ m \in Nat /\ n \in Nat
    BY <1>2
  <2>2. QED
    BY <2>1 DEF Below
<1>4. QED
  BY <1>3

\* There are two ends, each the peer of the other.
LEMMA PeerFacts ==
  ASSUME NEW p \in Node
  PROVE  Peer(p) \in Node /\ Peer(p) # p /\ Peer(Peer(p)) = p /\ Node = {p, Peer(p)}
<1>1. IsFiniteSet(Node) /\ Cardinality(Node) = 2
  BY ChannelAssumption DEF ChannelAssumption
<1>2. IsFiniteSet(Node \ {p}) /\ Cardinality(Node \ {p}) = 1
  BY <1>1, FS_RemoveElement
<1>3. PICK q : Node \ {p} = {q}
  BY <1>2, FS_Singleton
<1>4. q \in Node /\ q # p /\ Node = {p, q}
  BY <1>3
<1>5. Peer(p) = q
  BY <1>4 DEF Peer
<1>6. Peer(q) = p
  BY <1>4 DEF Peer
<1>7. QED
  BY <1>4, <1>5, <1>6

\* Dist of positions that are close.
LEMMA DistNear ==
  ASSUME NEW i \in Int, NEW j \in Int
  PROVE  /\ j <= i /\ i < j + SeqCnt => Dist(i % SeqCnt, j % SeqCnt) = i - j
         /\ i < j /\ j <= i + SeqCnt => Dist(i % SeqCnt, j % SeqCnt) = i - j + SeqCnt
<1>1. Dist(i % SeqCnt, j % SeqCnt) = (i - j) % SeqCnt
  BY DistOfResidues
<1>2. i - j \in Int
  OBVIOUS
<1>3. QED
  BY <1>1, <1>2, ResidueNear, SpaceFacts

\* What an acknowledgement says, as positions.
LEMMA AckPosFacts ==
  ASSUME NEW low \in Int, NEW m, m.ackNo \in SeqNo
  PROVE  /\ AckPos(low, m) \in Int /\ low <= AckPos(low, m) /\ AckPos(low, m) < low + SeqCnt
         /\ m.ackNo = AckPos(low, m) % SeqCnt
         /\ \A i \in Int : low <= i /\ i < low + SeqCnt /\ m.ackNo = i % SeqCnt => AckPos(low, m) = i
<1> DEFINE d == Dist(m.ackNo, low % SeqCnt)
<1>1. low % SeqCnt \in SeqNo
  BY Residue
<1>2. d \in SeqNo /\ Plus(low % SeqCnt, d) = m.ackNo
  BY <1>1, DistSound
<1>3. d \in Int /\ 0 <= d /\ d < SeqCnt
  BY <1>2, SpaceFacts DEF SeqNo
<1>4. Plus(low % SeqCnt, d) = (low + d) % SeqCnt
  BY <1>3, PlusOfResidue
<1>5. AckPos(low, m) = low + d
  BY DEF AckPos
<1> HIDE DEF d
<1>6. ASSUME NEW i \in Int, low <= i, i < low + SeqCnt, m.ackNo = i % SeqCnt
      PROVE  low + d = i
  <2>1. i % SeqCnt = (low + d) % SeqCnt /\ low + d \in Int
    BY <1>2, <1>3, <1>4, <1>6
  <2>2. QED
    <3>1. -SeqCnt < i - (low + d) /\ i - (low + d) < SeqCnt
      BY <1>3, <1>6, SpaceFacts
    <3>2. QED
      BY <2>1, <3>1, ResidueEqual
<1>7. QED
  BY <1>2, <1>3, <1>4, <1>5, <1>6, SpaceFacts

\* The packet that caused an acknowledgement is the only one of its number near the position.
LEMMA OrigPosFacts ==
  ASSUME NEW i \in Int, NEW m, m.orig \in SeqNo
  PROVE  /\ OrigPos(i, m) \in Int /\ i - Half < OrigPos(i, m) /\ OrigPos(i, m) <= i + Half
         /\ m.orig = OrigPos(i, m) % SeqCnt
         /\ \A j \in Int : i - Half < j /\ j <= i + Half /\ m.orig = j % SeqCnt => OrigPos(i, m) = j
<1> DEFINE h == i + Half
           d == Dist(h % SeqCnt, m.orig)
<1>0. h \in Int
  BY SpaceFacts
<1>1. h % SeqCnt \in SeqNo
  BY <1>0, Residue
<1>2. d \in SeqNo /\ Plus(m.orig, d) = h % SeqCnt
  BY <1>1, DistSound
<1>3. d \in Int /\ 0 <= d /\ d < SeqCnt
  BY <1>2, SpaceFacts DEF SeqNo
<1>4. OrigPos(i, m) = h - d
  BY DEF OrigPos
<1>5. Dist(h % SeqCnt, (h - d) % SeqCnt) = d
  <2>1. h - d \in Int /\ h - d <= h /\ h < h - d + SeqCnt /\ h - (h - d) = d
    BY <1>0, <1>3, SpaceFacts
  <2> HIDE DEF h, d
  <2>2. QED
    BY <2>1, <1>0, DistNear
<1>6. (h - d) % SeqCnt = m.orig
  <2>1. (h - d) % SeqCnt \in SeqNo
    BY <1>0, <1>3, Residue
  <2>2. \A x, y, z \in SeqNo : Dist(x, y) = Dist(x, z) => y = z
    BY SpaceFacts DEF Dist, SeqNo
  <2>3. QED
    BY <2>1, <2>2, <1>1, <1>5
<1>7. ASSUME NEW j \in Int, i - Half < j, j <= i + Half, m.orig = j % SeqCnt
      PROVE  h - d = j
  <2>1. j % SeqCnt = (h - d) % SeqCnt /\ h - d \in Int
    BY <1>0, <1>3, <1>6, <1>7
  <2>2. -SeqCnt < j - (h - d) /\ j - (h - d) < SeqCnt
    BY <1>3, <1>7, SpaceFacts
  <2> HIDE DEF h, d
  <2>3. QED
    BY <2>1, <2>2, <1>0, <1>3, ResidueEqual
<1>8. i - Half < h - d /\ h - d <= i + Half /\ h - d \in Int
  BY <1>0, <1>3, SpaceFacts
<1> HIDE DEF h, d
<1>9. QED
  BY <1>4, <1>6, <1>7, <1>8

\* What setting one field of a slot leaves alone.
LEMMA SlotFacts ==
  ASSUME NEW x \in SlotType
  PROVE  /\ [x EXCEPT !.pktSent = TRUE] \in SlotType
         /\ [x EXCEPT !.pktSent = TRUE].pkt = x.pkt /\ [x EXCEPT !.pktSent = TRUE].pktSent
         /\ EmptySlot \in SlotType /\ EmptySlot.pkt = Null /\ ~EmptySlot.pktSent
         /\ \A v \in 0 .. 15 : /\ [x EXCEPT !.retryCnt = v] \in SlotType
                               /\ [x EXCEPT !.retryCnt = v].pkt = x.pkt
                               /\ [x EXCEPT !.retryCnt = v].pktSent = x.pktSent
         /\ \A v \in Pkt : /\ [x EXCEPT !.pkt = v] \in SlotType
                           /\ [x EXCEPT !.pkt = v].pkt = v
                           /\ [x EXCEPT !.pkt = v].pktSent = x.pktSent
<1>1. /\ [x EXCEPT !.pktSent = TRUE] \in SlotType
      /\ [x EXCEPT !.pktSent = TRUE].pkt = x.pkt /\ [x EXCEPT !.pktSent = TRUE].pktSent
  BY DEF SlotType
<1>2. EmptySlot \in SlotType /\ EmptySlot.pkt = Null /\ ~EmptySlot.pktSent
  BY DEF SlotType, EmptySlot
<1>3. \A v \in 0 .. 15 : /\ [x EXCEPT !.retryCnt = v] \in SlotType
                        /\ [x EXCEPT !.retryCnt = v].pkt = x.pkt
                        /\ [x EXCEPT !.retryCnt = v].pktSent = x.pktSent
  BY DEF SlotType
<1>4. \A v \in Pkt : /\ [x EXCEPT !.pkt = v] \in SlotType
                    /\ [x EXCEPT !.pkt = v].pkt = v
                    /\ [x EXCEPT !.pkt = v].pktSent = x.pktSent
  BY DEF SlotType
<1>5. QED
  BY <1>1, <1>2, <1>3, <1>4

\* PacketId holds the application's packets and up to three of the channel's own.
LEMMA PacketIdFacts ==
  /\ PacketId \subseteq Nat
  /\ \A p \in Node : MaxPackets[p] \in Nat /\ 0 .. MaxPackets[p] + 2 \subseteq PacketId
<1> DEFINE S == {MaxPackets[p] : p \in Node}
           m == CHOOSE m \in S : \A p \in Node : MaxPackets[p] <= m
<1>1. \A p \in Node : MaxPackets[p] \in Nat
  BY ChannelAssumption DEF ChannelAssumption
<1>2. \E m1 \in S : \A p \in Node : MaxPackets[p] <= m1
  <2>1. PICK p \in Node : TRUE
    <3>1. Node # {}
      BY ChannelAssumption, FS_EmptySet DEF ChannelAssumption
    <3>2. QED
      BY <3>1
  <2>2. Node = {p, Peer(p)} /\ Peer(p) \in Node
    BY PeerFacts
  <2>3. CASE MaxPackets[p] <= MaxPackets[Peer(p)]
    BY <1>1, <2>2, <2>3
  <2>4. CASE MaxPackets[Peer(p)] <= MaxPackets[p]
    BY <1>1, <2>1, <2>2, <2>4
  <2>5. QED
    BY <1>1, <2>1, <2>2, <2>3, <2>4
<1>3. m \in S /\ \A p \in Node : MaxPackets[p] <= m
  BY <1>2
<1>4. m \in Nat
  BY <1>1, <1>3
<1>5. PacketId = 0 .. (2 + m)
  BY DEF PacketId
<1> HIDE DEF m, S
<1>6. QED
  BY <1>1, <1>3, <1>4, <1>5

\* Packets are numbered.
LEMMA PacketIdNat == PacketId \subseteq Nat
  BY PacketIdFacts

\* The fields of a datagram, by its type.
LEMMA MessageFacts ==
  ASSUME NEW m \in Message
  PROVE  /\ m.type = "DAT" => m \in DataType /\ m.pkt \in Pkt /\ m.pkt.id \in Int /\ m.seq \in SeqNo
         /\ m.type = "ACK" => m \in AckType /\ m.ackNo \in SeqNo /\ m.orig \in SeqNo
<1>1. m \in DataType \/ m \in AckType
  BY DEF Message
<1>2. m.type = "DAT" => m \in DataType /\ m.pkt \in Pkt /\ m.seq \in SeqNo
  BY <1>1 DEF DataType, AckType
<1>3. m.type = "ACK" => m \in AckType /\ m.ackNo \in SeqNo /\ m.orig \in SeqNo
  BY <1>1 DEF DataType, AckType
<1>4. \A k \in Pkt : k.id \in Int
  <2>1. \A k \in Pkt : k.id \in PacketId
    BY DEF Pkt
  <2>2. PacketId \subseteq Int
    BY PacketIdNat
  <2>3. QED
    BY <2>1, <2>2
<1>5. QED
  BY <1>2, <1>3, <1>4

\* An element of a concatenation comes from one of its parts.
LEMMA ConcatFacts ==
  ASSUME NEW S, NEW a \in Seq(S), NEW b \in Seq(S)
  PROVE  /\ a \o b \in Seq(S)
         /\ \A j \in DOMAIN (a \o b) : \/ j \in DOMAIN a /\ (a \o b)[j] = a[j]
                                       \/ j - Len(a) \in DOMAIN b /\ (a \o b)[j] = b[j - Len(a)]
  OBVIOUS

\* The type of a slot.
LEMMA BufFacts ==
  ASSUME NEW s \in SenderType, NEW q \in SeqNo
  PROVE  /\ s.buf[q] \in SlotType
         /\ Held(s, q) => /\ s.buf[q].pkt \in Pkt /\ s.buf[q].pkt.id \in PacketId
                          /\ s.buf[q].pkt.id \in Int
         /\ s.buf[q].pktSent \in BOOLEAN
<1>1. s.buf \in [SeqNo -> SlotType]
  BY DEF SenderType
<1>2. s.buf[q] \in SlotType
  BY <1>1
<1>3. s.buf[q].pkt \in Pkt \cup {Null} /\ s.buf[q].pktSent \in BOOLEAN
  BY <1>2 DEF SlotType
<1>4. PacketId \subseteq Int
  BY PacketIdNat
<1>5. Held(s, q) => s.buf[q].pkt \in Pkt /\ s.buf[q].pkt.id \in PacketId
  BY <1>3 DEF Held, Pkt
<1>6. QED
  BY <1>2, <1>3, <1>4, <1>5

\* Datagrams in flight stay in flight when the window grows.
LEMMA OutAppend ==
  ASSUME NEW o \in Seq(Message), NEW new \in Seq(Message), NEW la \in Int, NEW ms \in Int,
         NEW n \in Nat, OutInv(o, la, ms), OutInv(new, la, ms + n)
  PROVE  OutInv(o \o new, la, ms + n)
<1>1. ASSUME NEW j \in DOMAIN o
      PROVE  /\ o[j].type = "DAT" /\ la < o[j].pkt.id /\ o[j].pkt.id <= ms + n
             /\ o[j].seq = o[j].pkt.id % SeqCnt /\ (o[j].pkt.chf => Closers # {})
  <2>1. o[j] \in Message
    OBVIOUS
  <2>2. /\ o[j].type = "DAT" /\ la < o[j].pkt.id /\ o[j].pkt.id <= ms
        /\ o[j].seq = o[j].pkt.id % SeqCnt /\ (o[j].pkt.chf => Closers # {})
    BY DEF OutInv
  <2>3. o[j].pkt.id \in Int
    BY <2>1, <2>2, MessageFacts
  <2>4. QED
    BY <2>2, <2>3
<1>2. \A j \in DOMAIN (o \o new) : \/ j \in DOMAIN o /\ (o \o new)[j] = o[j]
                                   \/ j - Len(o) \in DOMAIN new /\ (o \o new)[j] = new[j - Len(o)]
  BY ConcatFacts
<1>3. QED
  BY <1>1, <1>2 DEF OutInv

(***************************************************************************)
(* sendSeq.                                                                *)
(***************************************************************************)
LEMMA DataMsgFacts ==
  ASSUME NEW q \in SeqNo, NEW k \in Pkt
  PROVE  /\ DataMsg(q, k) \in DataType /\ DataMsg(q, k) \in Message
         /\ DataMsg(q, k).type = "DAT" /\ DataMsg(q, k).seq = q /\ DataMsg(q, k).pkt = k
  BY DEF DataMsg, DataType, Message

\* A handler sent what the slots seqs held.
Sends(s, t, seqs) ==
  \E new \in Seq(Message) :
    /\ Len(new) = Len(seqs) /\ t.out = s.out \o new
    /\ \A j \in 1 .. Len(seqs) : /\ new[j].type = "DAT" /\ new[j].seq = seqs[j]
                                 /\ new[j].pkt = s.buf[seqs[j]].pkt

\* sendSeq on slots that all hold a packet sends them and keeps the lock free.
LEMMA SendSeqsFull ==
  ASSUME NEW s \in SenderType, NEW seqs \in Seq(SeqNo), s.sendSeqLock = "free",
         \A j \in 1 .. Len(seqs) : Held(s, seqs[j]),
         NEW t, t = SendSeqs(s, seqs)
  PROVE  /\ t \in SenderType
         /\ Frame(s, t) /\ t.maxSent = s.maxSent /\ t.sendSeqLock = "free"
         /\ \A q \in SeqNo : /\ t.buf[q].pkt = s.buf[q].pkt
                             /\ t.buf[q].pktSent <=> (q \in ToSet(seqs) \/ s.buf[q].pktSent)
                             /\ t.buf[q].retryCnt = s.buf[q].retryCnt
         /\ (\A q \in ToSet(seqs) : s.buf[q].pktSent) => t.buf = s.buf
         /\ t.timerList = s.timerList \cup ToSet(seqs)
         /\ Sends(s, t, seqs)
<1> DEFINE full == CHOOSE k \in 0 .. Len(seqs) :
                    /\ \A j \in 1 .. k : s.buf[seqs[j]].pkt # Null
                    /\ k < Len(seqs) => s.buf[seqs[k + 1]].pkt = Null
           sent == ToSet(seqs)
           buf == [q \in SeqNo |-> IF q \in sent THEN [s.buf[q] EXCEPT !.pktSent = TRUE]
                                                 ELSE s.buf[q]]
           new == [j \in 1 .. Len(seqs) |-> DataMsg(seqs[j], s.buf[seqs[j]].pkt)]
<1>0. sent = {seqs[j] : j \in 1 .. Len(seqs)}
  BY DEF ToSet
<1> HIDE DEF sent
<1>1. full = Len(seqs)
  <2>1. Len(seqs) \in Nat
    OBVIOUS
  <2>2. \A k \in 0 .. Len(seqs) :
          (k < Len(seqs) => s.buf[seqs[k + 1]].pkt = Null) => k = Len(seqs)
    BY <2>1 DEF Held
  <2>3. \A j \in 1 .. Len(seqs) : s.buf[seqs[j]].pkt # Null
    BY DEF Held
  <2>4. QED
    BY <2>1, <2>2, <2>3
<1>2. \A j \in 1 .. Len(seqs) : seqs[j] \in SeqNo /\ s.buf[seqs[j]].pkt \in Pkt
  BY BufFacts
<1>3. sent \subseteq SeqNo
  BY <1>0, <1>2
<1>4. buf \in [SeqNo -> SlotType]
  BY BufFacts, SlotFacts
<1>5. new \in Seq(Message) /\ Len(new) = Len(seqs)
  BY <1>2, DataMsgFacts
<1>9. \A j \in 1 .. Len(seqs) : /\ new[j].type = "DAT" /\ new[j].seq = seqs[j]
                                /\ new[j].pkt = s.buf[seqs[j]].pkt
  BY <1>2, DataMsgFacts
<1>6. CASE seqs = <<>>
  <2>1. t = s
    BY <1>6 DEF SendSeqs
  <2>2. sent = {} /\ new = <<>>
    BY <1>0, <1>5, <1>6
  <2>3. s.out \in Seq(Message)
    BY DEF SenderType
  <2>4. Frame(s, s)
    BY DEF Frame, Fixed
  <2>5. s.out \o <<>> = s.out
    BY <2>3
  <2>6. s.timerList = s.timerList \cup sent
    BY <2>2
  <2>7. s.out = s.out \o new
    BY <2>2, <2>5
  <2>8. \A q \in SeqNo : s.buf[q].pktSent <=> (q \in sent \/ s.buf[q].pktSent)
    BY <2>2, BufFacts
  <2>9. /\ s \in SenderType
        /\ Frame(s, s) /\ s.maxSent = s.maxSent /\ s.sendSeqLock = "free"
        /\ \A q \in SeqNo : /\ s.buf[q].pkt = s.buf[q].pkt
                            /\ s.buf[q].pktSent <=> (q \in sent \/ s.buf[q].pktSent)
                            /\ s.buf[q].retryCnt = s.buf[q].retryCnt
        /\ (\A q \in sent : s.buf[q].pktSent) => s.buf = s.buf
        /\ s.timerList = s.timerList \cup sent
        /\ s.out = s.out \o new
    BY <2>4, <2>6, <2>7, <2>8
  <2> HIDE DEF new
  <2>10. QED
    BY <1>5, <1>9, <2>1, <2>9 DEF sent, Sends
<1>7. CASE seqs # <<>>
  <2>1. t = [s EXCEPT !.buf = buf, !.timerList = s.timerList \cup sent,
                      !.out = s.out \o new, !.sendSeqLock = "free"]
    <3> HIDE DEF full
    <3>1. t = [s EXCEPT !.buf = [q \in SeqNo |-> IF q \in {seqs[j] : j \in 1 .. full}
                                                THEN [s.buf[q] EXCEPT !.pktSent = TRUE]
                                                ELSE s.buf[q]],
                       !.timerList = s.timerList \cup {seqs[j] : j \in 1 .. full},
                       !.out = s.out \o [j \in 1 .. full |-> DataMsg(seqs[j], s.buf[seqs[j]].pkt)],
                       !.sendSeqLock = CASE full = Len(seqs) -> "free"
                                         [] full + 1 = Len(seqs) -> "leaked"
                                         [] OTHER -> "stuck"]
      BY <1>7 DEF SendSeqs, full
    <3>2. (CASE full = Len(seqs) -> "free"
             [] full + 1 = Len(seqs) -> "leaked"
             [] OTHER -> "stuck") = "free"
      <4>1. Len(seqs) \in Nat /\ Len(seqs) + 1 # Len(seqs)
        OBVIOUS
      <4>2. QED
        BY <1>1, <4>1
    <3>3. QED
      BY <1>0, <1>1, <3>1, <3>2
  <2> HIDE DEF buf, new
  <2>2. s.out \o new \in Seq(Message)
    BY <1>5 DEF SenderType
  <2>3. s.timerList \cup sent \in SUBSET SeqNo
    BY <1>3 DEF SenderType
  <2>4. t \in SenderType
    BY <1>4, <2>1, <2>2, <2>3, ZenonT(60) DEF SenderType
  <2>5. t.buf = buf /\ t.timerList = s.timerList \cup sent /\ t.out = s.out \o new
    BY <2>1 DEF SenderType
  <2>6. Frame(s, t) /\ t.maxSent = s.maxSent /\ t.sendSeqLock = "free"
    BY <2>1 DEF SenderType, Frame, Fixed
  <2>7. \A q \in SeqNo : /\ t.buf[q].pkt = s.buf[q].pkt
                         /\ t.buf[q].pktSent <=> (q \in sent \/ s.buf[q].pktSent)
                         /\ t.buf[q].retryCnt = s.buf[q].retryCnt
    <3> TAKE q \in SeqNo
    <3>1. s.buf[q] \in SlotType
      BY BufFacts
    <3>2. t.buf[q] = IF q \in sent THEN [s.buf[q] EXCEPT !.pktSent = TRUE] ELSE s.buf[q]
      BY <2>5 DEF buf
    <3>3. CASE q \in sent
      BY <3>1, <3>2, <3>3 DEF SlotType
    <3>4. CASE q \notin sent
      BY <3>1, <3>2, <3>4 DEF SlotType
    <3>5. QED
      BY <3>3, <3>4
  <2>8. (\A q \in sent : s.buf[q].pktSent) => t.buf = s.buf
    <3> SUFFICES ASSUME \A q \in sent : s.buf[q].pktSent PROVE t.buf = s.buf
      OBVIOUS
    <3>1. ASSUME NEW q \in SeqNo PROVE t.buf[q] = s.buf[q]
      <4>1. s.buf[q] \in SlotType
        BY BufFacts
      <4>2. t.buf[q] = IF q \in sent THEN [s.buf[q] EXCEPT !.pktSent = TRUE] ELSE s.buf[q]
        BY <2>5 DEF buf
      <4>3. q \in sent => s.buf[q].pktSent = TRUE
        BY <4>1 DEF SlotType
      <4>4. QED
        BY <4>1, <4>2, <4>3 DEF SlotType
    <3>2. t.buf \in [SeqNo -> SlotType] /\ s.buf \in [SeqNo -> SlotType]
      BY <2>4 DEF SenderType
    <3>3. QED
      BY <3>1, <3>2
  <2>9. QED
    BY <1>5, <1>9, <2>4, <2>5, <2>6, <2>7, <2>8 DEF sent, Sends
<1>8. QED
  BY <1>6, <1>7

\* sendSeq on the empty buffer of a drained channel sends nothing.
LEMMA SendSeqsEmpty ==
  ASSUME NEW s \in SenderType, NEW seqs \in Seq(SeqNo), \A q \in SeqNo : ~Held(s, q),
         NEW t, t = SendSeqs(s, seqs)
  PROVE  /\ t \in SenderType /\ Frame(s, t) /\ t.maxSent = s.maxSent
         /\ t.buf = s.buf /\ t.timerList = s.timerList /\ t.out = s.out
<1> DEFINE full == CHOOSE k \in 0 .. Len(seqs) :
                    /\ \A j \in 1 .. k : s.buf[seqs[j]].pkt # Null
                    /\ k < Len(seqs) => s.buf[seqs[k + 1]].pkt = Null
           lock == CASE full = Len(seqs) -> "free"
                     [] full + 1 = Len(seqs) -> "leaked"
                     [] OTHER -> "stuck"
<1>1. Frame(s, s)
  BY DEF Frame, Fixed
<1>2. CASE seqs = <<>>
  <2>1. t = s
    BY <1>2 DEF SendSeqs
  <2>2. QED
    BY <1>1, <2>1
<1>3. CASE seqs # <<>> /\ s.sendSeqLock # "free"
  <2>1. t = [s EXCEPT !.sendSeqLock = "stuck"]
    BY <1>3 DEF SendSeqs
  <2>2. QED
    BY <2>1, ZenonT(60) DEF SenderType, Frame, Fixed
<1>4. CASE seqs # <<>> /\ s.sendSeqLock = "free"
  <2>1. full = 0
    <3>1. Len(seqs) \in Nat /\ \A j \in 1 .. Len(seqs) : seqs[j] \in SeqNo
      OBVIOUS
    <3>2. \A j \in 1 .. Len(seqs) : s.buf[seqs[j]].pkt = Null
      BY <3>1 DEF Held
    <3>3. 0 < Len(seqs) => s.buf[seqs[0 + 1]].pkt = Null
      BY <3>1, <3>2
    <3>4. \A k \in 0 .. Len(seqs) : (\A j \in 1 .. k : s.buf[seqs[j]].pkt # Null) => k = 0
      BY <3>1, <3>2
    <3>5. \A j \in 1 .. 0 : s.buf[seqs[j]].pkt # Null
      OBVIOUS
    <3>6. 0 \in 0 .. Len(seqs)
      BY <3>1
    <3>7. QED
      BY <3>3, <3>4, <3>5, <3>6
  <2> HIDE DEF full
  <2>2. t = [s EXCEPT !.buf = [q \in SeqNo |-> IF q \in {seqs[j] : j \in 1 .. full}
                                                THEN [s.buf[q] EXCEPT !.pktSent = TRUE]
                                                ELSE s.buf[q]],
                       !.timerList = s.timerList \cup {seqs[j] : j \in 1 .. full},
                       !.out = s.out \o [j \in 1 .. full |-> DataMsg(seqs[j], s.buf[seqs[j]].pkt)],
                       !.sendSeqLock = lock]
    BY <1>4 DEF SendSeqs, full
  <2>3. {seqs[j] : j \in 1 .. full} = {} /\ s.timerList \cup {} = s.timerList
    BY <2>1
  <2>4. [q \in SeqNo |-> IF q \in {} THEN [s.buf[q] EXCEPT !.pktSent = TRUE] ELSE s.buf[q]] = s.buf
    BY DEF SenderType
  <2>5. s.out \o [j \in 1 .. full |-> DataMsg(seqs[j], s.buf[seqs[j]].pkt)] = s.out
    <3>1. s.out \in Seq(Message)
      BY DEF SenderType
    <3>2. [j \in 1 .. full |-> DataMsg(seqs[j], s.buf[seqs[j]].pkt)] = <<>>
      BY <2>1
    <3>3. s.out \o <<>> = s.out
      BY <3>1
    <3>4. QED
      BY ONLY <3>2, <3>3
  <2>6. lock \in {"free", "leaked", "stuck"}
    OBVIOUS
  <2> HIDE DEF lock
  <2>7. t = [s EXCEPT !.buf = s.buf, !.timerList = s.timerList, !.out = s.out, !.sendSeqLock = lock]
    BY <2>2, <2>3, <2>4, <2>5
  <2>8. QED
    BY <2>6, <2>7, ZenonT(60) DEF SenderType, Frame, Fixed
<1>5. QED
  BY <1>2, <1>3, <1>4

(***************************************************************************)
(* The window and the slots.                                               *)
(***************************************************************************)
LEMMA WindowFacts ==
  ASSUME NEW s \in SenderType, NEW la, NEW ms, WindowInv(s, la, ms)
  PROVE  /\ InFlight(s) = ms - la /\ Outstanding(s) = s.total - 1 - la
         /\ Dist(s.maxPacket, s.maxSent) = s.total - 1 - ms
         /\ s.total \in Nat /\ la \in Int /\ ms \in Int
         /\ -1 <= la /\ la <= ms /\ ms < s.total /\ s.total - 1 <= la + Half
<1>1. /\ s.total \in Nat /\ la \in Int /\ ms \in Int
      /\ -1 <= la /\ la <= ms /\ ms < s.total /\ s.total - 1 <= la + Half
      /\ s.lastAcked = la % SeqCnt /\ s.maxSent = ms % SeqCnt /\ s.maxPacket = (s.total - 1) % SeqCnt
  BY DEF WindowInv, SenderType
<1> DEFINE top == s.total - 1
<1>2. top \in Int /\ la <= top /\ ms <= top /\ top < la + SeqCnt /\ top < ms + SeqCnt /\ ms < la + SeqCnt
  BY <1>1, SpaceFacts
<1>3. s.maxPacket = top % SeqCnt
  BY <1>1
<1> HIDE DEF top
<1>4. Dist(ms % SeqCnt, la % SeqCnt) = ms - la
  BY <1>1, <1>2, DistNear
<1>5. Dist(top % SeqCnt, la % SeqCnt) = top - la /\ Dist(top % SeqCnt, ms % SeqCnt) = top - ms
  BY <1>1, <1>2, DistNear
<1>6. QED
  BY <1>1, <1>3, <1>4, <1>5 DEF InFlight, Outstanding, top

\* A slot tells the position of its packet.
LEMMA SlotOf ==
  ASSUME NEW s \in SenderType, NEW la, NEW ms, WindowInv(s, la, ms),
         \A q \in SeqNo : SlotInv(s, la, ms, q), NEW i \in Int
  PROVE  /\ i % SeqCnt \in SeqNo
         /\ s.total - 1 - SeqCnt < i /\ i < la + 1 + SeqCnt /\ Held(s, i % SeqCnt) =>
              s.buf[i % SeqCnt].pkt.id = i
<1>1. i % SeqCnt \in SeqNo
  BY Residue
<1>2. ASSUME s.total - 1 - SeqCnt < i, i < la + 1 + SeqCnt, Held(s, i % SeqCnt)
      PROVE  s.buf[i % SeqCnt].pkt.id = i
  <2> DEFINE k == s.buf[i % SeqCnt].pkt.id
  <2>1. k \in Int
    BY <1>1, <1>2, BufFacts
  <2>2. la < k /\ k < s.total /\ i % SeqCnt = k % SeqCnt
    BY <1>1, <1>2 DEF SlotInv
  <2> HIDE DEF k
  <2>3. -SeqCnt < i - k /\ i - k < SeqCnt
    BY <1>2, <2>1, <2>2, WindowFacts, SpaceFacts
  <2>4. QED
    BY <2>1, <2>2, <2>3, ResidueEqual DEF k
<1>3. QED
  BY <1>1, <1>2

\* Division of whole numbers.
LEMMA DivInt ==
  ASSUME NEW x \in Int, NEW y \in Nat, y > 0
  PROVE  x \div y \in Int /\ (x \in Nat => x \div y \in Nat)
  OBVIOUS

(***************************************************************************)
(* The congestion window.                                                  *)
(***************************************************************************)
\* The slots and the window are the same.
SameBuffer(s, t) ==
  /\ t.maxSent = s.maxSent /\ t.buf = s.buf /\ t.timerList = s.timerList
  /\ t.sendSeqLock = s.sendSeqLock /\ t.out = s.out

\* Setting cwnd keeps it in its range and changes nothing else.
LEMMA SetCwndFrame ==
  ASSUME NEW s \in SenderType, NEW v \in Int, NEW t, t = SetCwnd(s, v)
  PROVE  t \in SenderType /\ SameBuffer(s, t) /\ Frame(s, t)
<1> DEFINE top == CwndUnit * (SeqCnt \div 2)
           c == IF v > top THEN top ELSE IF v < CwndUnit THEN CwndUnit ELSE v
<1>1. SeqCnt \div 2 = Half /\ top = CwndUnit * Half
  BY SpaceFacts
<1>2. top \in Nat /\ CwndUnit <= top
  <2>1. CwndUnit * Half = CwndUnit + CwndUnit * (Half - 1) /\ CwndUnit * (Half - 1) \in Nat
    BY SpaceFacts
  <2>2. QED
    BY <1>1, <2>1, SpaceFacts
<1>3. c \in CwndUnit .. CwndUnit * Half
  <2> HIDE DEF top
  <2>1. c \in CwndUnit .. top
    BY <1>2, SpaceFacts
  <2>2. QED
    BY <1>1, <2>1
<1>4. SetCwnd(s, v) = [s EXCEPT !.cwnd = c]
  BY DEF SetCwnd
<1> HIDE DEF c
<1>5. QED
  BY <1>3, <1>4 DEF SenderType, Frame, Fixed, SameBuffer

\* So does growing it by a packet,
LEMMA GrowCwndFrame ==
  ASSUME NEW s \in SenderType, NEW t, t = GrowCwnd(s)
  PROVE  t \in SenderType /\ SameBuffer(s, t) /\ Frame(s, t)
<1>1. s.cwnd + CwndUnit \in Int
  BY SpaceFacts DEF SenderType
<1>2. QED
  BY <1>1, SetCwndFrame DEF GrowCwnd

\* ... and by a fraction of one.
LEMMA GrowCwndSlowlyFrame ==
  ASSUME NEW s \in SenderType, NEW t, t = GrowCwndSlowly(s)
  PROVE  t \in SenderType /\ SameBuffer(s, t) /\ Frame(s, t)
<1>1. s.cwnd \in Nat /\ s.cwnd > 0
  <2>1. s.cwnd \in CwndUnit .. CwndUnit * Half
    BY DEF SenderType
  <2>2. QED
    BY <2>1, SpaceFacts
<1>2. CwndUnit * CwndUnit \in Int
  BY SpaceFacts
<1>3. (CwndUnit * CwndUnit) \div s.cwnd \in Int
  BY <1>1, <1>2, DivInt
<1>4. s.cwnd + ((CwndUnit * CwndUnit) \div s.cwnd) \in Int
  BY <1>1, <1>3
<1>5. QED
  BY <1>4, SetCwndFrame DEF GrowCwndSlowly

\* No more packets may be sent than wait behind maxSent.
LEMMA SendableFacts ==
  ASSUME NEW s \in SenderType, NEW la, NEW ms, WindowInv(s, la, ms)
  PROVE  Sendable(s) \in Nat /\ Sendable(s) <= s.total - 1 - ms
<1>1. CwndPackets(s) \in Int
  <2>1. s.cwnd \in Int
    BY SpaceFacts DEF SenderType
  <2>2. CwndUnit \div 2 \in Int
    BY SpaceFacts
  <2>3. s.cwnd + CwndUnit \div 2 \in Int
    BY <2>1, <2>2
  <2>4. QED
    BY <2>3, DivInt, SpaceFacts DEF CwndPackets
<1>2. s.senderWindow \in Int
  BY DEF SenderType
<1>3. /\ InFlight(s) \in Int /\ Dist(s.maxPacket, s.maxSent) \in Nat
      /\ Dist(s.maxPacket, s.maxSent) = s.total - 1 - ms
  BY WindowFacts
<1> DEFINE wnd == IF s.senderWindow < CwndPackets(s) THEN s.senderWindow ELSE CwndPackets(s)
           room == IF InFlight(s) < wnd THEN wnd - InFlight(s) ELSE 0
<1>4. wnd \in Int
  BY <1>1, <1>2
<1> HIDE DEF wnd
<1>5. room \in Nat
  BY <1>3, <1>4
<1> HIDE DEF room
<1>6. Sendable(s) = IF Dist(s.maxPacket, s.maxSent) < room THEN Dist(s.maxPacket, s.maxSent) ELSE room
  BY DEF Sendable, room, wnd
<1>7. QED
  BY <1>3, <1>5, <1>6

(***************************************************************************)
(* sendNext: the n packets behind maxSent go out.                          *)
(***************************************************************************)
\* The slots hold the same packets.
SamePackets(s, t) == \A q \in SeqNo : t.buf[q].pkt = s.buf[q].pkt

\* More may be in flight, and the packets sent are among those in flight.
BufferGrown(t, R, la, ms) == \E n \in Nat : BufferInv(t, R, la, ms + n) /\ OutInv(t.out, la, ms + n)
SenderGrown(t, R, la, ms) == \E n \in Nat : SenderInv(t, R, la, ms + n) /\ OutInv(t.out, la, ms + n)

\* sendNext keeps the buffer, with more packets in flight.
LEMMA SendNewStep ==
  ASSUME NEW s \in SenderType, NEW R, NEW la, NEW ms, BufferInv(s, R, la, ms), OutInv(s.out, la, ms),
         NEW cnt \in Nat, NEW t, t = SendNew(s, cnt)
  PROVE  /\ t \in SenderType
         /\ Frame(s, t) /\ SamePackets(s, t) /\ BufferGrown(t, R, la, ms)
<1> DEFINE n == IF cnt < Sendable(s) THEN cnt ELSE Sendable(s)
           seqs == [k \in 1 .. n |-> Plus(s.maxSent, k)]
           u == SendSeqs(s, seqs)
           sent == ToSet(seqs)
<1>1. /\ WindowInv(s, la, ms) /\ (\A q \in SeqNo : SlotInv(s, la, ms, q))
      /\ TimerInv(s) /\ GapInv(s, R, la, ms) /\ DeathInv(s, R)
  BY DEF BufferInv
<1>2. n \in Nat /\ n <= s.total - 1 - ms
  <2>1. Sendable(s) \in Nat /\ Sendable(s) <= s.total - 1 - ms
    BY <1>1, SendableFacts
  <2>2. s.total - 1 - ms \in Int
    BY <1>1, WindowFacts
  <2>3. QED
    BY <2>1, <2>2
<1>3. /\ s.total \in Nat /\ la \in Int /\ ms \in Int
      /\ -1 <= la /\ la <= ms /\ ms < s.total /\ s.total - 1 <= la + Half
  BY <1>1, WindowFacts
<1>4. s.lastAcked = la % SeqCnt /\ s.maxSent = ms % SeqCnt /\ s.maxPacket = (s.total - 1) % SeqCnt
  BY <1>1 DEF WindowInv
<1>5. t = [u EXCEPT !.maxSent = Plus(u.maxSent, n)]
  BY DEF SendNew
<1> HIDE DEF n
<1>6. \A k \in 1 .. n : seqs[k] = (ms + k) % SeqCnt /\ seqs[k] \in SeqNo
  <2> TAKE k \in 1 .. n
  <2>1. k \in Int /\ ms + k \in Int
    BY <1>2, <1>3
  <2>2. seqs[k] = Plus(ms % SeqCnt, k)
    BY <1>4
  <2> HIDE DEF seqs
  <2>3. QED
    BY <1>3, <2>1, <2>2, PlusOfResidue, Residue
<1>7. seqs \in Seq(SeqNo) /\ Len(seqs) = n
  BY <1>2, <1>6
<1> HIDE DEF seqs
<1>12. sent = {seqs[j] : j \in 1 .. n}
  BY <1>7 DEF ToSet
<1>8. Plus(ms % SeqCnt, n) = (ms + n) % SeqCnt /\ (ms + n) % SeqCnt \in SeqNo
  <2>1. n \in Int /\ ms + n \in Int
    BY <1>2, <1>3
  <2>2. QED
    BY <1>3, <2>1, PlusOfResidue, Residue
<1>9. CASE s.drained
  <2>1. \A q \in SeqNo : ~Held(s, q)
    BY <1>1, <1>9 DEF DeathInv
  <2>2. /\ u \in SenderType /\ Frame(s, u) /\ u.maxSent = s.maxSent
        /\ u.buf = s.buf /\ u.timerList = s.timerList /\ u.out = s.out
    <3>1. u = SendSeqs(s, seqs)
      OBVIOUS
    <3> HIDE DEF u
    <3>2. QED
      BY <1>7, <2>1, <3>1, SendSeqsEmpty
  <2> HIDE DEF u
  <2>3. u.maxSent = ms % SeqCnt
    BY <1>4, <2>2
  <2>4. t = [u EXCEPT !.maxSent = (ms + n) % SeqCnt]
    BY <1>5, <1>8, <2>3
  <2>5. t \in SenderType
    BY <1>8, <2>2, <2>4, SMTT(60) DEF SenderType
  <2>6. /\ Frame(u, t) /\ t.maxSent = (ms + n) % SeqCnt
        /\ t.buf = u.buf /\ t.timerList = u.timerList /\ t.out = u.out
    BY <2>2, <2>4 DEF SenderType, Frame, Fixed
  <2>7. Frame(s, t)
    BY <2>2, <2>6 DEF Frame, Fixed
  <2>8. /\ t.buf = s.buf /\ t.out = s.out /\ t.lastAcked = s.lastAcked /\ t.total = s.total
        /\ t.maxPacket = s.maxPacket /\ t.maxSent = (ms + n) % SeqCnt /\ t.drained = s.drained
        /\ t.timerList = s.timerList /\ t.deadChannel = s.deadChannel /\ t.undelivered = s.undelivered
    BY <2>2, <2>6, <2>7 DEF Frame, Fixed
  <2>9. WindowInv(t, la, ms + n)
    BY <1>2, <1>3, <1>4, <2>8 DEF WindowInv
  <2>10. \A q \in SeqNo : SlotInv(t, la, ms + n, q)
    BY <1>1, <2>1, <2>8 DEF SlotInv, Held
  <2>11. TimerInv(t)
    BY <1>1, <2>8 DEF TimerInv, Held
  <2>12. GapInv(t, R, la, ms + n) /\ DeathInv(t, R)
    BY <1>1, <1>9, <2>1, <2>8 DEF GapInv, DeathInv, Held
  <2>13. OutInv(t.out, la, ms + n)
    <3>1. \A j \in DOMAIN s.out : s.out[j].type = "DAT" => s.out[j].pkt.id \in Int
      <4>1. s.out \in Seq(Message)
        BY DEF SenderType
      <4>2. \A j \in DOMAIN s.out : s.out[j] \in Message
        BY <4>1
      <4>3. QED
        BY <4>2, MessageFacts
    <3>2. QED
      BY <1>2, <1>3, <2>8, <3>1 DEF OutInv
  <2>14. QED
    BY <1>2, <2>5, <2>7, <2>8, <2>9, <2>10, <2>11, <2>12, <2>13 DEF BufferInv, SamePackets, BufferGrown
<1>10. CASE ~s.drained
  <2>1. s.sendSeqLock = "free"
    BY <1>1, <1>10 DEF DeathInv
  <2>2. ASSUME NEW k \in 1 .. n
        PROVE  Held(s, seqs[k]) /\ s.buf[seqs[k]].pkt.id = ms + k
    <3>1. ms + k \in Int /\ la < ms + k /\ ms + k < s.total
      BY <1>2, <1>3
    <3>2. Held(s, (ms + k) % SeqCnt)
      BY <1>1, <1>3, <1>10, <3>1 DEF GapInv
    <3>3. s.total - 1 - SeqCnt < ms + k /\ ms + k < la + 1 + SeqCnt
      BY <1>2, <1>3, <3>1, SpaceFacts
    <3>4. QED
      BY <1>1, <1>6, <3>1, <3>2, <3>3, SlotOf
  <2>3. /\ u \in SenderType
        /\ Frame(s, u) /\ u.maxSent = s.maxSent /\ u.sendSeqLock = "free"
        /\ \A q \in SeqNo : /\ u.buf[q].pkt = s.buf[q].pkt
                            /\ u.buf[q].pktSent <=> (q \in sent \/ s.buf[q].pktSent)
        /\ u.timerList = s.timerList \cup sent
        /\ Sends(s, u, seqs)
    <3>1. \A j \in 1 .. Len(seqs) : Held(s, seqs[j])
      BY <1>7, <2>2
    <3>2. u = SendSeqs(s, seqs)
      OBVIOUS
    <3> HIDE DEF u
    <3>3. seqs \in Seq(SeqNo)
      BY <1>7
    <3>4. QED
      BY <2>1, <3>1, <3>2, <3>3, SendSeqsFull
  <2> HIDE DEF u
  <2>4. u.maxSent = ms % SeqCnt
    BY <1>4, <2>3
  <2>5. t = [u EXCEPT !.maxSent = (ms + n) % SeqCnt]
    BY <1>5, <1>8, <2>4
  <2>6. t \in SenderType
    BY <1>5, <1>8, <2>3, <2>5, ZenonT(60) DEF SenderType
  <2>7. /\ Frame(u, t) /\ t.maxSent = (ms + n) % SeqCnt /\ t.sendSeqLock = u.sendSeqLock
        /\ t.buf = u.buf /\ t.timerList = u.timerList /\ t.out = u.out
    BY <2>3, <2>5 DEF SenderType, Frame, Fixed
  <2>8. Frame(s, t)
    BY <2>3, <2>7 DEF Frame, Fixed
  <2>9. /\ t.buf = u.buf /\ t.out = u.out /\ t.lastAcked = s.lastAcked /\ t.total = s.total
        /\ t.maxPacket = s.maxPacket /\ t.maxSent = (ms + n) % SeqCnt /\ t.drained = s.drained
        /\ t.timerList = u.timerList /\ t.deadChannel = s.deadChannel /\ t.undelivered = s.undelivered
        /\ t.sendSeqLock = s.sendSeqLock
    BY <2>1, <2>3, <2>7, <2>8 DEF Frame, Fixed
  <2>10. \A q \in SeqNo : Held(t, q) <=> Held(s, q)
    BY <2>3, <2>9 DEF Held
  <2>11. WindowInv(t, la, ms + n)
    BY <1>2, <1>3, <1>4, <2>9 DEF WindowInv
  <2>12. ASSUME NEW q \in SeqNo, Held(s, q)
         PROVE  q \in sent <=> ms < s.buf[q].pkt.id /\ s.buf[q].pkt.id <= ms + n
    <3> DEFINE k == s.buf[q].pkt.id
    <3>1. k \in Int /\ q = k % SeqCnt
      BY <1>1, <2>12, BufFacts DEF SlotInv
    <3>2. ASSUME ms < k, k <= ms + n PROVE q \in sent
      <4>1. k - ms \in 1 .. n /\ ms + (k - ms) = k
        BY <1>2, <1>3, <3>1, <3>2
      <4> HIDE DEF k
      <4>2. seqs[k - ms] = q
        BY <1>6, <3>1, <4>1
      <4>3. QED
        BY <1>12, <4>1, <4>2
    <3>3. ASSUME q \in sent PROVE ms < k /\ k <= ms + n
      <4>1. PICK j \in 1 .. n : q = seqs[j]
        BY <1>12, <3>3
      <4>2. k = ms + j
        BY <2>2, <4>1
      <4>3. QED
        BY <1>2, <1>3, <4>1, <4>2
    <3>4. QED
      BY <3>2, <3>3
  <2>13. \A q \in sent : q \in SeqNo /\ Held(s, q)
    BY <1>6, <1>12, <2>2
  <2> HIDE DEF sent
  <2>14. ASSUME NEW q \in SeqNo PROVE SlotInv(t, la, ms + n, q)
    <3>1. SlotInv(s, la, ms, q) /\ s.buf[q].pktSent \in BOOLEAN
      BY <1>1, BufFacts
    <3>2. t.buf[q].pkt = s.buf[q].pkt /\ (t.buf[q].pktSent <=> (q \in sent \/ s.buf[q].pktSent))
      BY <2>3, <2>9
    <3>3. CASE Held(s, q)
      <4>1. s.buf[q].pkt.id \in Int
        BY <3>3, BufFacts
      <4>2. q \in sent <=> ms < s.buf[q].pkt.id /\ s.buf[q].pkt.id <= ms + n
        BY <2>12, <3>3
      <4>3. s.buf[q].pktSent <=> s.buf[q].pkt.id <= ms
        BY <3>1, <3>3 DEF SlotInv
      <4>4. t.buf[q].pktSent <=> s.buf[q].pkt.id <= ms + n
        <5>1. s.buf[q].pkt.id <= ms + n <=>
                s.buf[q].pkt.id <= ms \/ (ms < s.buf[q].pkt.id /\ s.buf[q].pkt.id <= ms + n)
          BY <1>2, <1>3, <4>1
        <5>2. QED
          BY ONLY <3>2, <4>2, <4>3, <5>1
      <4>5. QED
        BY <2>9, <2>10, <3>1, <3>2, <3>3, <4>4 DEF SlotInv
    <3>4. CASE ~Held(s, q)
      <4>1. q \notin sent
        BY <2>13, <3>4
      <4>2. QED
        BY <2>10, <3>1, <3>2, <3>4, <4>1 DEF SlotInv
    <3>5. QED
      BY <3>3, <3>4
  <2>15. TimerInv(t)
    <3>1. s.timerList = {q \in SeqNo : Held(s, q) /\ s.buf[q].pktSent}
      BY <1>1 DEF TimerInv
    <3>2. \A q \in SeqNo : t.buf[q].pktSent <=> (q \in sent \/ s.buf[q].pktSent)
      BY <2>3, <2>9
    <3>3. \A q : q \in t.timerList <=> q \in SeqNo /\ Held(t, q) /\ t.buf[q].pktSent
      BY <2>3, <2>9, <2>10, <2>13, <3>1, <3>2
    <3>4. QED
      BY <3>3 DEF TimerInv
  <2>16. GapInv(t, R, la, ms + n) /\ DeathInv(t, R)
    <3>1. DeathInv(t, R)
      BY <1>1, <1>10, <2>1, <2>9 DEF DeathInv
    <3>2. ASSUME NEW i \in Int, la < i, i < t.total, ~Held(t, i % SeqCnt) PROVE i <= ms + n /\ i \in R
      <4>1. ~Held(s, i % SeqCnt)
        BY <2>10, <3>2, Residue
      <4>2. i <= ms /\ i \in R
        BY <1>1, <1>10, <2>9, <3>2, <4>1 DEF GapInv
      <4>3. QED
        BY <1>2, <1>3, <4>2
    <3>3. QED
      BY <3>1, <3>2 DEF GapInv
  <2>17. OutInv(t.out, la, ms + n)
    <3>1. PICK new \in Seq(Message) :
             /\ Len(new) = Len(seqs) /\ u.out = s.out \o new
             /\ \A j \in 1 .. Len(seqs) : /\ new[j].type = "DAT" /\ new[j].seq = seqs[j]
                                          /\ new[j].pkt = s.buf[seqs[j]].pkt
      BY <2>3 DEF Sends
    <3>2. ASSUME NEW j \in DOMAIN new
          PROVE  /\ new[j].type = "DAT" /\ la < new[j].pkt.id /\ new[j].pkt.id <= ms + n
                 /\ new[j].seq = new[j].pkt.id % SeqCnt /\ (new[j].pkt.chf => Closers # {})
      <4>1. j \in 1 .. n
        BY <1>7, <3>1
      <4>2. new[j].type = "DAT" /\ new[j].seq = seqs[j] /\ new[j].pkt = s.buf[seqs[j]].pkt
        BY <1>7, <3>1, <4>1
      <4>3. s.buf[seqs[j]].pkt.id = ms + j /\ Held(s, seqs[j]) /\ seqs[j] \in SeqNo
        BY <1>6, <2>2, <4>1
      <4>4. s.buf[seqs[j]].pkt.chf => Closers # {}
        BY <1>1, <4>3 DEF SlotInv
      <4>5. seqs[j] = (ms + j) % SeqCnt
        BY <1>6, <4>1
      <4>6. QED
        BY <1>2, <1>3, <4>1, <4>2, <4>3, <4>4, <4>5
    <3>3. OutInv(new, la, ms + n)
      BY <3>2 DEF OutInv
    <3>4. s.out \in Seq(Message)
      BY DEF SenderType
    <3>5. QED
      BY <1>2, <1>3, <2>9, <3>1, <3>3, <3>4, OutAppend
  <2>18. QED
    BY <1>2, <2>3, <2>6, <2>8, <2>9, <2>11, <2>14, <2>15, <2>16, <2>17 DEF BufferInv, SamePackets, BufferGrown
<1>11. QED
  BY <1>9, <1>10

\* A handler that leaves the buffer alone keeps what is said of it.
LEMMA SameBufferStep ==
  ASSUME NEW s \in SenderType, NEW t \in SenderType, NEW R, NEW la, NEW ms,
         BufferInv(s, R, la, ms), SameBuffer(s, t), Fixed(s, t), t.lastAcked = s.lastAcked
  PROVE  /\ BufferInv(t, R, la, ms)
         /\ HeadInv(s, la) => HeadInv(t, la)
         /\ OutInv(s.out, la, ms) => OutInv(t.out, la, ms)
         /\ \A q : t.buf[q] = s.buf[q] /\ (Held(t, q) <=> Held(s, q))
<1>1. /\ t.maxPacket = s.maxPacket /\ t.total = s.total /\ t.undelivered = s.undelivered
      /\ t.drained = s.drained /\ t.deadChannel = s.deadChannel
      /\ t.maxSent = s.maxSent /\ t.buf = s.buf /\ t.timerList = s.timerList
      /\ t.sendSeqLock = s.sendSeqLock /\ t.out = s.out
  BY DEF SameBuffer, Fixed
<1>2. \A q : t.buf[q] = s.buf[q] /\ (Held(t, q) <=> Held(s, q))
  BY <1>1 DEF Held
<1>3. WindowInv(t, la, ms)
  BY <1>1 DEF BufferInv, WindowInv
<1>4. \A q \in SeqNo : SlotInv(t, la, ms, q)
  BY <1>1, <1>2 DEF BufferInv, SlotInv
<1>5. TimerInv(t)
  BY <1>1, <1>2 DEF BufferInv, TimerInv
<1>6. GapInv(t, R, la, ms) /\ DeathInv(t, R)
  BY <1>1, <1>2 DEF BufferInv, GapInv, DeathInv
<1>7. HeadInv(s, la) => HeadInv(t, la)
  BY <1>1, <1>2 DEF HeadInv
<1>8. QED
  BY <1>1, <1>2, <1>3, <1>4, <1>5, <1>6, <1>7 DEF BufferInv

(***************************************************************************)
(* addBuffer.                                                              *)
(***************************************************************************)
LEMMA AddBufferStep ==
  ASSUME NEW s \in SenderType, NEW R, NEW la, NEW ms, BufferInv(s, R, la, ms),
         ~s.drained, Outstanding(s) < Half, s.total \in PacketId,
         NEW chs \in BOOLEAN, NEW chf \in BOOLEAN, chf => Closers # {},
         NEW t, t = AddBuffer(s, chs, chf)
  PROVE  /\ t \in SenderType /\ BufferInv(t, R, la, ms)
         /\ t.total = s.total + 1 /\ t.out = s.out /\ t.status = s.status /\ t.recover = s.recover
         /\ t.drained = s.drained /\ t.deadChannel = s.deadChannel /\ t.undelivered = s.undelivered
         /\ t.up = s.up /\ t.started = s.started /\ t.shutDownSent = s.shutDownSent
         /\ \A q \in SeqNo : Held(s, q) => t.buf[q].pkt = s.buf[q].pkt
         /\ \A q \in SeqNo : Held(t, q) /\ ~Held(s, q) => t.buf[q].pkt.id = s.total
<1> DEFINE new == s.total % SeqCnt
           k == [id |-> s.total, chs |-> chs, chf |-> chf]
<1>1. /\ WindowInv(s, la, ms) /\ (\A q \in SeqNo : SlotInv(s, la, ms, q))
      /\ TimerInv(s) /\ GapInv(s, R, la, ms) /\ DeathInv(s, R)
  BY DEF BufferInv
<1>2. /\ s.total \in Nat /\ la \in Int /\ ms \in Int
      /\ -1 <= la /\ la <= ms /\ ms < s.total /\ s.total - 1 <= la + Half
      /\ Outstanding(s) = s.total - 1 - la
  BY <1>1, WindowFacts
<1>3. s.lastAcked = la % SeqCnt /\ s.maxSent = ms % SeqCnt /\ s.maxPacket = (s.total - 1) % SeqCnt
  BY <1>1 DEF WindowInv
<1>4. Plus(s.maxPacket, 1) = new
  <2>1. s.total - 1 \in Int /\ s.total - 1 + 1 = s.total
    BY <1>2
  <2>2. Plus((s.total - 1) % SeqCnt, 1) = (s.total - 1 + 1) % SeqCnt
    BY <2>1, PlusOfResidue, SMTT(60)
  <2>3. QED
    BY <1>3, <2>1, <2>2
<1>5. new \in SeqNo
  BY <1>2, Residue
<1>6. ~Held(s, new)
  <2>1. SUFFICES ASSUME Held(s, new) PROVE FALSE
    OBVIOUS
  <2> DEFINE j == s.buf[new].pkt.id
  <2>2. j \in Int /\ la < j /\ j < s.total /\ s.total % SeqCnt = j % SeqCnt
    BY <1>1, <1>5, <2>1, BufFacts DEF SlotInv
  <2> HIDE DEF j
  <2>3. -SeqCnt < s.total - j /\ s.total - j < SeqCnt
    BY <1>2, <2>2, SpaceFacts
  <2>4. QED
    BY <1>2, <2>2, <2>3, ResidueEqual
<1>7. k \in Pkt /\ k.id = s.total /\ k.chf = chf
  BY DEF Pkt
<1>8. t = [s EXCEPT !.maxPacket = new, !.buf[new].pkt = k, !.total = s.total + 1]
  BY <1>4 DEF AddBuffer
<1> HIDE DEF new, k
<1>9. s.buf \in [SeqNo -> SlotType] /\ s.buf[new] \in SlotType
  BY <1>5, BufFacts DEF SenderType
<1> DEFINE buf == [s.buf EXCEPT ![new] = [s.buf[new] EXCEPT !.pkt = k]]
<1>10. buf \in [SeqNo -> SlotType]
  BY <1>5, <1>7, <1>9, SlotFacts
<1>11. t = [s EXCEPT !.maxPacket = new, !.buf = buf, !.total = s.total + 1]
  BY <1>8 DEF SenderType
<1>12. \A q \in SeqNo : q # new => buf[q] = s.buf[q]
  BY <1>9
<1>13. /\ buf[new].pkt = k /\ (buf[new].pktSent <=> s.buf[new].pktSent)
  BY <1>5, <1>7, <1>9, SlotFacts
<1> HIDE DEF buf
<1>14. t \in SenderType
  <2>1. s.total + 1 \in Nat
    BY <1>2
  <2>2. QED
    BY <1>5, <1>10, <1>11, <2>1, ZenonT(60) DEF SenderType
<1>15. /\ t.maxPacket = new /\ t.buf = buf /\ t.total = s.total + 1 /\ t.out = s.out
       /\ t.status = s.status /\ t.recover = s.recover /\ t.lastAcked = s.lastAcked
       /\ t.maxSent = s.maxSent /\ t.timerList = s.timerList /\ t.sendSeqLock = s.sendSeqLock
       /\ t.drained = s.drained /\ t.deadChannel = s.deadChannel /\ t.undelivered = s.undelivered
       /\ t.up = s.up /\ t.started = s.started /\ t.shutDownSent = s.shutDownSent
  BY <1>11 DEF SenderType
<1>16. k # Null
  BY <1>7, NullAssumption
<1>17. \A q \in SeqNo : Held(t, q) <=> Held(s, q) \/ q = new
  BY <1>12, <1>13, <1>15, <1>16 DEF Held
<1>18. ~s.buf[new].pktSent
  BY <1>1, <1>5, <1>6 DEF SlotInv
<1>19. WindowInv(t, la, ms)
  <2>1. s.total + 1 - 1 = s.total /\ ms < s.total + 1 /\ s.total <= la + Half
    BY <1>2, SpaceFacts
  <2>2. QED
    BY <1>2, <1>3, <1>15, <2>1 DEF WindowInv, new
<1>20. ASSUME NEW q \in SeqNo PROVE SlotInv(t, la, ms, q)
  <2>1. CASE q = new
    <3>1. Held(t, q) /\ t.buf[q].pkt = k /\ ~t.buf[q].pktSent
      BY <1>13, <1>15, <1>17, <1>18, <2>1
    <3>2. la < s.total /\ s.total < t.total /\ ~(s.total <= ms)
      BY <1>2, <1>15
    <3>3. QED
      BY <1>7, <2>1, <3>1, <3>2 DEF SlotInv, new
  <2>2. CASE q # new
    <3>1. t.buf[q] = s.buf[q] /\ (Held(t, q) <=> Held(s, q))
      BY <1>12, <1>15, <1>17, <2>2
    <3>2. SlotInv(s, la, ms, q)
      BY <1>1
    <3>3. Held(s, q) => s.buf[q].pkt.id \in Int
      BY BufFacts
    <3>4. QED
      BY <1>2, <1>15, <3>1, <3>2, <3>3 DEF SlotInv
  <2>3. QED
    BY <2>1, <2>2
<1>21. TimerInv(t)
  <2>1. s.timerList = {q \in SeqNo : Held(s, q) /\ s.buf[q].pktSent}
    BY <1>1 DEF TimerInv
  <2>2. \A q \in SeqNo : Held(t, q) /\ t.buf[q].pktSent <=> Held(s, q) /\ s.buf[q].pktSent
    BY <1>6, <1>12, <1>13, <1>15, <1>17, <1>18
  <2>3. QED
    BY <1>15, <2>1, <2>2 DEF TimerInv
<1>22. GapInv(t, R, la, ms)
  <2>1. ASSUME NEW i \in Int, la < i, i < t.total, ~Held(t, i % SeqCnt) PROVE i <= ms /\ i \in R
    <3>1. i % SeqCnt \in SeqNo
      BY Residue
    <3>2. i # s.total
      BY <1>17, <2>1, <3>1 DEF new
    <3>3. i < s.total
      BY <1>2, <1>15, <2>1, <3>2
    <3>4. ~Held(s, i % SeqCnt)
      BY <1>17, <2>1, <3>1
    <3>5. QED
      BY <1>1, <2>1, <3>3, <3>4 DEF GapInv
  <2>2. QED
    BY <2>1 DEF GapInv
<1>23. DeathInv(t, R)
  BY <1>1, <1>15 DEF DeathInv
<1>24. \A q \in SeqNo : Held(s, q) => t.buf[q].pkt = s.buf[q].pkt
  BY <1>6, <1>12, <1>15
<1>25. \A q \in SeqNo : Held(t, q) /\ ~Held(s, q) => t.buf[q].pkt.id = s.total
  BY <1>7, <1>13, <1>15, <1>17
<1>26. QED
  BY <1>14, <1>15, <1>19, <1>20, <1>21, <1>22, <1>23, <1>24, <1>25 DEF BufferInv

(***************************************************************************)
(* sendPacket.                                                             *)
(***************************************************************************)
\* One packet is taken from the scheduler, or none.
AddsPacket(s, t) ==
  /\ \A q \in SeqNo : Held(s, q) => t.buf[q].pkt = s.buf[q].pkt
  /\ \A q \in SeqNo : Held(t, q) /\ ~Held(s, q) =>
       t.buf[q].pkt.id = s.total /\ t.total = s.total + 1

SentOne(s, t, R, la, ms) ==
  /\ t \in SenderType
  /\ t.total = s.total \/ t.total = s.total + 1
  /\ t.drained = s.drained /\ t.deadChannel = s.deadChannel /\ t.undelivered = s.undelivered
  /\ t.up = s.up /\ t.started = s.started /\ t.shutDownSent = s.shutDownSent
  /\ AddsPacket(s, t) /\ SenderGrown(t, R, la, ms)

\* sendPacket takes at most one packet and keeps what is said of the sender.
LEMMA SendStep ==
  ASSUME NEW s \in SenderType, NEW R, NEW la, NEW ms, R \subseteq 0 .. ms,
         SenderInv(s, R, la, ms), s.out = <<>>, s.total \in PacketId,
         NEW chs \in BOOLEAN, NEW chf \in BOOLEAN, chf => Closers # {},
         NEW t, t = Send(s, chs, chf)
  PROVE  SentOne(s, t, R, la, ms)
<1>1. /\ BufferInv(s, R, la, ms) /\ HeadInv(s, la) /\ RecoveryInv(s, la, ms)
  BY DEF SenderInv
<1>2. /\ s.total \in Nat /\ la \in Int /\ ms \in Int
      /\ -1 <= la /\ la <= ms /\ ms < s.total /\ s.total - 1 <= la + Half
      /\ Outstanding(s) = s.total - 1 - la
  BY <1>1, WindowFacts DEF BufferInv
<1>3. OutInv(s.out, la, ms)
  BY DEF OutInv
<1>4. CASE t = s
  <2>1. SenderInv(s, R, la, ms + 0) /\ OutInv(s.out, la, ms + 0)
    BY <1>2, <1>3
  <2>2. AddsPacket(s, s)
    BY DEF AddsPacket
  <2>3. SenderGrown(s, R, la, ms)
    BY <2>1 DEF SenderGrown
  <2>4. QED
    BY <1>4, <2>2, <2>3 DEF SentOne
<1>5. ASSUME NEW v \in SenderType, SameBuffer(s, v), Frame(s, v), ~s.deadChannel,
             Outstanding(s) < Half, NEW c \in BOOLEAN,
             t = SendNew(AddBuffer(v, c, chf), 1)
      PROVE  /\ t \in SenderType
             /\ t.total = s.total \/ t.total = s.total + 1
             /\ t.drained = s.drained /\ t.deadChannel = s.deadChannel /\ t.undelivered = s.undelivered
             /\ t.up = s.up /\ t.started = s.started /\ t.shutDownSent = s.shutDownSent
             /\ AddsPacket(s, t) /\ SenderGrown(t, R, la, ms)
  <2> DEFINE a == AddBuffer(v, c, chf)
  <2>1. /\ v.total = s.total /\ v.drained = s.drained /\ v.lastAcked = s.lastAcked
        /\ v.maxPacket = s.maxPacket /\ v.out = s.out /\ v.status = s.status /\ v.recover = s.recover
        /\ v.deadChannel = s.deadChannel /\ v.undelivered = s.undelivered
        /\ v.up = s.up /\ v.started = s.started /\ v.shutDownSent = s.shutDownSent
    BY <1>5 DEF SameBuffer, Frame, Fixed
  <2>2. BufferInv(v, R, la, ms) /\ \A q : v.buf[q] = s.buf[q] /\ (Held(v, q) <=> Held(s, q))
    <3>1. Fixed(s, v)
      BY <1>5 DEF Frame
    <3>2. QED
      BY <1>1, <1>5, <2>1, <3>1, SameBufferStep
  <2>3. ~s.drained
    BY <1>1, <1>5 DEF BufferInv, DeathInv
  <2>4. Outstanding(v) < Half
    BY <1>5, <2>1 DEF Outstanding
  <2>5. /\ a \in SenderType /\ BufferInv(a, R, la, ms)
        /\ a.total = v.total + 1 /\ a.out = v.out /\ a.status = v.status /\ a.recover = v.recover
        /\ a.drained = v.drained /\ a.deadChannel = v.deadChannel /\ a.undelivered = v.undelivered
        /\ a.up = v.up /\ a.started = v.started /\ a.shutDownSent = v.shutDownSent
        /\ \A q \in SeqNo : Held(v, q) => a.buf[q].pkt = v.buf[q].pkt
        /\ \A q \in SeqNo : Held(a, q) /\ ~Held(v, q) => a.buf[q].pkt.id = v.total
    <3>1. a = AddBuffer(v, c, chf)
      OBVIOUS
    <3> HIDE DEF a
    <3>2. QED
      BY <1>5, <2>1, <2>2, <2>3, <2>4, <3>1, AddBufferStep
  <2>6. t = SendNew(a, 1)
    BY <1>5
  <2> HIDE DEF a
  <2>7. OutInv(a.out, la, ms)
    BY <1>3, <2>1, <2>5
  <2>8. t \in SenderType /\ Frame(a, t) /\ SamePackets(a, t) /\ BufferGrown(t, R, la, ms)
    BY <2>5, <2>6, <2>7, SendNewStep
  <2>9. PICK n \in Nat : BufferInv(t, R, la, ms + n) /\ OutInv(t.out, la, ms + n)
    BY <2>8 DEF BufferGrown
  <2>10. /\ t.total = s.total + 1 /\ t.drained = s.drained /\ t.deadChannel = s.deadChannel
         /\ t.undelivered = s.undelivered /\ t.status = s.status /\ t.recover = s.recover
         /\ t.up = s.up /\ t.started = s.started /\ t.shutDownSent = s.shutDownSent
    BY <2>1, <2>5, <2>8 DEF Frame, Fixed
  <2>11. \A q \in SeqNo : Held(s, q) => t.buf[q].pkt = s.buf[q].pkt
    BY <2>2, <2>5, <2>8 DEF SamePackets
  <2>12. \A q \in SeqNo : Held(t, q) /\ ~Held(s, q) => t.buf[q].pkt.id = s.total
    BY <2>1, <2>2, <2>5, <2>8 DEF Held, SamePackets
  <2>13. HeadInv(t, la)
    <3>1. CASE la + 1 < s.total
      <4>1. Held(s, (la + 1) % SeqCnt) /\ (la + 1) % SeqCnt \in SeqNo
        BY <1>1, <1>2, <2>3, <3>1, Residue DEF HeadInv
      <4>2. QED
        BY <2>11, <4>1 DEF HeadInv, Held
    <3>2. CASE ~(la + 1 < s.total)
      <4>1. la + 1 = s.total /\ la + 1 \notin R /\ la + 1 \in Int /\ la < la + 1 /\ la + 1 < t.total
        BY <1>2, <2>10, <3>2
      <4>2. QED
        BY <2>3, <2>9, <2>10, <4>1 DEF HeadInv, BufferInv, GapInv
    <3>3. QED
      BY <3>1, <3>2
  <2>14. RecoveryInv(t, la, ms + n)
    <3>1. s.recover \in Int
      BY SpaceFacts DEF SenderType, SeqNo
    <3>2. QED
      BY <1>1, <1>2, <2>10, <3>1 DEF RecoveryInv, InRecovery
  <2>15. SenderInv(t, R, la, ms + n)
    BY <2>9, <2>13, <2>14 DEF SenderInv
  <2>16. QED
    BY <2>8, <2>9, <2>10, <2>11, <2>12, <2>15 DEF AddsPacket, SenderGrown
<1>10. SeqCnt \div 2 = Half /\ (Outstanding(s) >= Half <=> ~(Outstanding(s) < Half))
  <2>1. Half \in Int /\ SeqCnt \div 2 = Half
    BY SpaceFacts
  <2>2. Outstanding(s) \in Int
    BY <1>2
  <2>3. QED
    BY <2>1, <2>2
<1>6. CASE ~s.closed /\ ~s.deadChannel /\ Outstanding(s) = 0
  <2> DEFINE v == [s EXCEPT !.bufStarted = TRUE]
  <2>1. v \in SenderType /\ SameBuffer(s, v) /\ Frame(s, v)
    BY DEF SenderType, SameBuffer, Frame, Fixed
  <2>2. t = SendNew(AddBuffer(v, TRUE, chf), 1)
    BY <1>6 DEF Send
  <2>3. Outstanding(s) < Half
    BY <1>6, SpaceFacts
  <2> HIDE DEF v
  <2>4. QED
    BY <1>5, <1>6, <2>1, <2>2, <2>3 DEF SentOne
<1>7. CASE ~s.closed /\ ~s.deadChannel /\ Outstanding(s) # 0 /\ Outstanding(s) < Half
  <2>1. SameBuffer(s, s) /\ Frame(s, s)
    BY DEF SameBuffer, Frame, Fixed
  <2>2. t = SendNew(AddBuffer(s, chs, chf), 1)
    <3>1. SeqCnt \div 2 = Half /\ ~(Outstanding(s) >= Half)
      BY <1>7, <1>10
    <3>2. QED
      BY <1>7, <3>1 DEF Send
  <2>3. QED
    BY <1>5, <1>7, <2>1, <2>2 DEF SentOne
<1>8. CASE s.closed \/ s.deadChannel \/ (Outstanding(s) # 0 /\ ~(Outstanding(s) < Half))
  <2>1. t = s
    <3>1. SeqCnt \div 2 = Half /\ (~(Outstanding(s) < Half) => Outstanding(s) >= Half)
      BY <1>10
    <3>2. QED
      BY <1>8, <3>1 DEF Send
  <2>2. QED
    BY <1>4, <2>1
<1>9. QED
  BY <1>6, <1>7, <1>8

(***************************************************************************)
(* Emptying slots.                                                         *)
(***************************************************************************)
\* The slots S are empty and their timers stopped.
Freed(s, t, S) ==
  /\ \A q \in SeqNo : q \in S => ~Held(t, q) /\ ~t.buf[q].pktSent
  /\ \A q \in SeqNo : q \notin S => t.buf[q] = s.buf[q]
  /\ \A q \in SeqNo : Held(t, q) => Held(s, q) /\ t.buf[q] = s.buf[q]

\* The slots alone.
LEMMA FreeSlots ==
  ASSUME NEW s \in SenderType, NEW S \in SUBSET SeqNo, \A q \in SeqNo : ~Held(s, q) => ~s.buf[q].pktSent,
         TimerInv(s), NEW t, t = Free(s, S)
  PROVE  /\ t \in SenderType /\ Frame(s, t) /\ t.maxSent = s.maxSent
         /\ t.sendSeqLock = s.sendSeqLock /\ t.out = s.out /\ Freed(s, t, S) /\ TimerInv(t)
<1> DEFINE held == {q \in S : s.buf[q].pkt # Null}
           buf == [q \in SeqNo |-> IF q \in held THEN EmptySlot ELSE s.buf[q]]
<1>1. t = [s EXCEPT !.buf = buf, !.timerList = s.timerList \ held]
  BY DEF Free
<1>2. buf \in [SeqNo -> SlotType]
  BY BufFacts, SlotFacts
<1>3. \A q \in SeqNo : buf[q] = IF q \in held THEN EmptySlot ELSE s.buf[q]
  OBVIOUS
<1>4. \A q \in SeqNo : q \in held <=> q \in S /\ Held(s, q)
  BY DEF Held
<1> HIDE DEF buf, held
<1>5. t \in SenderType
  BY <1>1, <1>2, ZenonT(60) DEF SenderType
<1>6. /\ t.buf = buf /\ t.timerList = s.timerList \ held
      /\ Frame(s, t) /\ t.maxSent = s.maxSent /\ t.sendSeqLock = s.sendSeqLock /\ t.out = s.out
  BY <1>1 DEF SenderType, Frame, Fixed
<1>7. EmptySlot.pkt = Null /\ ~EmptySlot.pktSent
  BY DEF EmptySlot
<1>8. \A q \in SeqNo : t.buf[q] = IF q \in held THEN EmptySlot ELSE s.buf[q]
  BY <1>3, <1>6
<1>9. \A q \in SeqNo : Held(t, q) <=> Held(s, q) /\ q \notin S
  BY <1>4, <1>7, <1>8 DEF Held
<1>10. Freed(s, t, S)
  BY <1>4, <1>7, <1>8, <1>9 DEF Freed
<1>11. TimerInv(t)
  <2>1. s.timerList = {q \in SeqNo : Held(s, q) /\ s.buf[q].pktSent}
    BY DEF TimerInv
  <2>2. \A q : q \in t.timerList <=> q \in SeqNo /\ Held(t, q) /\ t.buf[q].pktSent
    BY <1>4, <1>6, <1>8, <1>9, <2>1
  <2>3. QED
    BY <2>2 DEF TimerInv
<1>12. QED
  BY <1>5, <1>6, <1>10, <1>11

(***************************************************************************)
(* An acknowledgement for position pos, caused by the packet o, moves      *)
(* lastAcked from la to pos and empties the slots up to pos and that of o. *)
(***************************************************************************)
\* The slots an acknowledgement of position pos, for packet o, empties.
AckedSlots(la, pos, o, q) ==
  q = o % SeqCnt \/ \E i \in Int : la < i /\ i <= pos /\ q = i % SeqCnt

\* The slots an acknowledgement names hold nothing else.
LEMMA AckedOnly ==
  ASSUME NEW s \in SenderType, NEW R, NEW la, NEW ms, BufferInv(s, R, la, ms),
         NEW pos \in Int, NEW o \in Int, la <= pos, pos <= ms, pos - Half < o, o <= pos + Half,
         NEW q \in SeqNo, Held(s, q), AckedSlots(la, pos, o, q)
  PROVE  s.buf[q].pkt.id = o \/ s.buf[q].pkt.id <= pos
<1>1. WindowInv(s, la, ms) /\ (\A r \in SeqNo : SlotInv(s, la, ms, r))
  BY DEF BufferInv
<1>2. /\ s.total \in Nat /\ la \in Int /\ ms \in Int
      /\ -1 <= la /\ la <= ms /\ ms < s.total /\ s.total - 1 <= la + Half
  BY <1>1, WindowFacts
<1>3. CASE q = o % SeqCnt
  <2>1. s.total - 1 - SeqCnt < o /\ o < la + 1 + SeqCnt
    BY <1>2, SpaceFacts
  <2>2. QED
    BY <1>1, <1>3, <2>1, SlotOf
<1>4. ASSUME NEW i \in Int, la < i, i <= pos, q = i % SeqCnt PROVE s.buf[q].pkt.id <= pos
  <2>1. s.total - 1 - SeqCnt < i /\ i < la + 1 + SeqCnt
    BY <1>2, <1>4, SpaceFacts
  <2>2. QED
    BY <1>1, <1>4, <2>1, SlotOf
<1>5. QED
  BY <1>3, <1>4 DEF AckedSlots

\* The buffer after a handler has emptied exactly these slots and moved lastAcked.
LEMMA AckedBuffer ==
  ASSUME NEW s \in SenderType, NEW R, NEW la, NEW ms, R \subseteq 0 .. ms, BufferInv(s, R, la, ms),
         NEW pos \in Int, NEW o \in Int, la <= pos, pos <= ms, pos - Half < o, o <= pos + Half,
         0 .. pos \subseteq R, o \in R,
         NEW t \in SenderType, Fixed(s, t), t.maxSent = s.maxSent, t.sendSeqLock = s.sendSeqLock,
         t.lastAcked = pos % SeqCnt, TimerInv(t), NEW S, Freed(s, t, S),
         \A q \in SeqNo : q \in S => AckedSlots(la, pos, o, q),
         \A i \in Int : la < i /\ i <= pos => i % SeqCnt \in S
  PROVE  BufferInv(t, R, pos, ms)
<1>1. /\ WindowInv(s, la, ms) /\ (\A q \in SeqNo : SlotInv(s, la, ms, q))
      /\ TimerInv(s) /\ GapInv(s, R, la, ms) /\ DeathInv(s, R)
  BY DEF BufferInv
<1>2. /\ s.total \in Nat /\ la \in Int /\ ms \in Int
      /\ -1 <= la /\ la <= ms /\ ms < s.total /\ s.total - 1 <= la + Half
  BY <1>1, WindowFacts
<1>3. s.lastAcked = la % SeqCnt /\ s.maxSent = ms % SeqCnt /\ s.maxPacket = (s.total - 1) % SeqCnt
  BY <1>1 DEF WindowInv
<1>4. /\ t.maxPacket = s.maxPacket /\ t.total = s.total /\ t.undelivered = s.undelivered
      /\ t.drained = s.drained /\ t.deadChannel = s.deadChannel
  BY DEF Fixed
<1>5. WindowInv(t, pos, ms)
  <2>1. -1 <= pos /\ s.total - 1 <= pos + Half
    BY <1>2, SpaceFacts
  <2>2. QED
    BY <1>2, <1>3, <1>4, <2>1 DEF WindowInv
<1>6. ASSUME NEW q \in SeqNo PROVE SlotInv(t, pos, ms, q)
  <2>1. CASE ~Held(t, q)
    <3>1. ~t.buf[q].pktSent
      <4>1. CASE q \in S
        BY <4>1 DEF Freed
      <4>2. CASE q \notin S
        BY <1>1, <2>1, <4>2 DEF Freed, SlotInv, Held
      <4>3. QED
        BY <4>1, <4>2
    <3>2. QED
      BY <2>1, <3>1 DEF SlotInv
  <2>2. CASE Held(t, q)
    <3>1. Held(s, q) /\ t.buf[q] = s.buf[q] /\ q \notin S
      BY <2>2 DEF Freed
    <3> DEFINE k == s.buf[q].pkt.id
    <3>2. SlotInv(s, la, ms, q) /\ k \in Int
      BY <1>1, <3>1, BufFacts
    <3>3. la < k /\ q = k % SeqCnt
      BY <3>1, <3>2 DEF SlotInv
    <3> HIDE DEF k
    <3>4. ~(k <= pos)
      BY <3>1, <3>2, <3>3
    <3>5. pos < k
      BY <3>2, <3>4
    <3>6. QED
      BY <1>4, <2>2, <3>1, <3>2, <3>5 DEF SlotInv, k
  <2>3. QED
    BY <2>1, <2>2
<1>7. GapInv(t, R, pos, ms)
  <2>1. ASSUME ~t.drained, NEW i \in Int, pos < i, i < t.total, ~Held(t, i % SeqCnt)
        PROVE  i <= ms /\ i \in R
    <3>1. i % SeqCnt \in SeqNo /\ la < i /\ i < s.total
      BY <1>2, <1>4, <2>1, Residue
    <3>2. CASE ~Held(s, i % SeqCnt)
      BY <1>1, <1>4, <2>1, <3>1, <3>2 DEF GapInv
    <3>3. CASE Held(s, i % SeqCnt)
      <4>1. i % SeqCnt \in S
        BY <2>1, <3>1, <3>3 DEF Freed, Held
      <4>2. AckedSlots(la, pos, o, i % SeqCnt)
        BY <3>1, <4>1
      <4>3. s.buf[i % SeqCnt].pkt.id = o \/ s.buf[i % SeqCnt].pkt.id <= pos
        BY <3>1, <3>3, <4>2, AckedOnly
      <4>4. s.buf[i % SeqCnt].pkt.id = i
        <5>1. s.total - 1 - SeqCnt < i /\ i < la + 1 + SeqCnt
          BY <1>2, <3>1, SpaceFacts
        <5>2. QED
          BY <1>1, <3>3, <5>1, SlotOf
      <4>5. i = o
        BY <2>1, <4>3, <4>4
      <4>6. QED
        BY <1>2, <4>5
    <3>4. QED
      BY <3>2, <3>3
  <2>2. QED
    BY <2>1 DEF GapInv
<1>8. DeathInv(t, R)
  <2>1. \A q \in SeqNo : Held(t, q) => Held(s, q)
    BY DEF Freed
  <2>2. QED
    BY <1>1, <1>4, <2>1 DEF DeathInv
<1>9. QED
  BY <1>5, <1>6, <1>7, <1>8 DEF BufferInv

(***************************************************************************)
(* A packet in flight is sent again.                                       *)
(***************************************************************************)
LEMMA RetransmitStep ==
  ASSUME NEW s \in SenderType, NEW R, NEW la, NEW ms, BufferInv(s, R, la, ms), OutInv(s.out, la, ms),
         NEW i \in Int, la < i, i <= ms, s.drained \/ Held(s, i % SeqCnt),
         NEW t, t = Retransmit(s, i % SeqCnt)
  PROVE  /\ t \in SenderType /\ Frame(s, t) /\ SamePackets(s, t)
         /\ BufferInv(t, R, la, ms) /\ OutInv(t.out, la, ms)
<1> DEFINE q == i % SeqCnt
           v == [s EXCEPT !.timerList = @ \ {q}]
           seqs == <<q>>
<1>1. /\ WindowInv(s, la, ms) /\ (\A r \in SeqNo : SlotInv(s, la, ms, r))
      /\ TimerInv(s) /\ GapInv(s, R, la, ms) /\ DeathInv(s, R)
  BY DEF BufferInv
<1>2. /\ s.total \in Nat /\ la \in Int /\ ms \in Int
      /\ -1 <= la /\ la <= ms /\ ms < s.total /\ s.total - 1 <= la + Half
  BY <1>1, WindowFacts
<1>3. q \in SeqNo /\ seqs \in Seq(SeqNo) /\ Len(seqs) = 1 /\ seqs[1] = q
  BY Residue
<1>4. ToSet(seqs) = {q}
  BY <1>3 DEF ToSet
<1>5. t = SendSeqs(v, seqs)
  BY DEF Retransmit
<1> HIDE DEF seqs
<1>6. v \in SenderType
  BY DEF SenderType
<1>7. /\ v.buf = s.buf /\ v.timerList = s.timerList \ {q} /\ v.out = s.out /\ v.maxSent = s.maxSent
      /\ v.sendSeqLock = s.sendSeqLock /\ Frame(s, v)
  BY DEF SenderType, Frame, Fixed
<1> HIDE DEF v
<1>8. CASE s.drained
  <2>1. \A r \in SeqNo : ~Held(s, r) /\ ~Held(v, r)
    BY <1>1, <1>7, <1>8 DEF DeathInv, Held
  <2>2. t \in SenderType /\ Frame(v, t) /\ t.maxSent = v.maxSent
        /\ t.buf = v.buf /\ t.timerList = v.timerList /\ t.out = v.out
    BY <1>3, <1>5, <1>6, <2>1, SendSeqsEmpty
  <2>3. s.timerList = {}
    BY <1>1, <2>1 DEF TimerInv
  <2>4. Frame(s, t) /\ t.maxSent = s.maxSent /\ t.buf = s.buf /\ t.timerList = s.timerList /\ t.out = s.out
    BY <1>7, <2>2, <2>3 DEF Frame, Fixed
  <2>5. /\ t.maxPacket = s.maxPacket /\ t.total = s.total /\ t.undelivered = s.undelivered
        /\ t.drained = s.drained /\ t.deadChannel = s.deadChannel /\ t.lastAcked = s.lastAcked
    BY <2>4 DEF Frame, Fixed
  <2>6. BufferInv(t, R, la, ms)
    <3>1. WindowInv(t, la, ms)
      BY <1>1, <2>4, <2>5 DEF WindowInv
    <3>2. \A r \in SeqNo : SlotInv(t, la, ms, r)
      BY <1>1, <2>4, <2>5 DEF SlotInv, Held
    <3>3. TimerInv(t)
      BY <1>1, <2>4 DEF TimerInv, Held
    <3>4. GapInv(t, R, la, ms) /\ DeathInv(t, R)
      BY <1>1, <1>8, <2>4, <2>5 DEF GapInv, DeathInv, Held
    <3>5. QED
      BY <3>1, <3>2, <3>3, <3>4 DEF BufferInv
  <2>7. QED
    BY <2>2, <2>4, <2>6 DEF SamePackets
<1>9. CASE ~s.drained
  <2>1. s.sendSeqLock = "free" /\ Held(s, q)
    BY <1>1, <1>9 DEF DeathInv
  <2>2. s.buf[q].pkt.id = i
    <3>1. s.total - 1 - SeqCnt < i /\ i < la + 1 + SeqCnt
      BY <1>2, SpaceFacts
    <3>2. QED
      BY <1>1, <2>1, <3>1, SlotOf
  <2>3. s.buf[q].pktSent /\ q \in s.timerList
    BY <1>1, <1>2, <1>3, <2>1, <2>2 DEF SlotInv, TimerInv
  <2>4. \A j \in 1 .. Len(seqs) : Held(v, seqs[j])
    BY <1>3, <1>7, <2>1 DEF Held
  <2>5. v.sendSeqLock = "free"
    BY <1>7, <2>1
  <2>6. /\ t \in SenderType /\ Frame(v, t) /\ t.maxSent = v.maxSent /\ t.sendSeqLock = "free"
        /\ ((\A r \in ToSet(seqs) : v.buf[r].pktSent) => t.buf = v.buf)
        /\ t.timerList = v.timerList \cup ToSet(seqs) /\ Sends(v, t, seqs)
    BY <1>3, <1>5, <1>6, <2>4, <2>5, SendSeqsFull
  <2>7. t.buf = s.buf /\ t.timerList = s.timerList
    BY <1>4, <1>7, <2>3, <2>6
  <2>8. Frame(s, t) /\ t.maxSent = s.maxSent
    BY <1>7, <2>6 DEF Frame, Fixed
  <2>9. /\ t.maxPacket = s.maxPacket /\ t.total = s.total /\ t.undelivered = s.undelivered
        /\ t.drained = s.drained /\ t.deadChannel = s.deadChannel /\ t.lastAcked = s.lastAcked
    BY <2>8 DEF Frame, Fixed
  <2>10. BufferInv(t, R, la, ms)
    <3>1. WindowInv(t, la, ms)
      BY <1>1, <2>8, <2>9 DEF WindowInv
    <3>2. \A r \in SeqNo : SlotInv(t, la, ms, r)
      BY <1>1, <2>7, <2>9 DEF SlotInv, Held
    <3>3. TimerInv(t)
      BY <1>1, <2>7 DEF TimerInv, Held
    <3>4. GapInv(t, R, la, ms) /\ DeathInv(t, R)
      BY <1>1, <2>1, <2>6, <2>7, <2>9 DEF GapInv, DeathInv, Held
    <3>5. QED
      BY <3>1, <3>2, <3>3, <3>4 DEF BufferInv
  <2>11. OutInv(t.out, la, ms)
    <3>1. PICK new \in Seq(Message) :
             /\ Len(new) = Len(seqs) /\ t.out = v.out \o new
             /\ \A j \in 1 .. Len(seqs) : /\ new[j].type = "DAT" /\ new[j].seq = seqs[j]
                                          /\ new[j].pkt = v.buf[seqs[j]].pkt
      BY <2>6 DEF Sends
    <3>2. s.buf[q].pkt.chf => Closers # {}
      BY <1>1, <1>3, <2>1 DEF SlotInv
    <3>3. ASSUME NEW j \in DOMAIN new
          PROVE  /\ new[j].type = "DAT" /\ la < new[j].pkt.id /\ new[j].pkt.id <= ms + 0
                 /\ new[j].seq = new[j].pkt.id % SeqCnt /\ (new[j].pkt.chf => Closers # {})
      <4>1. j = 1
        BY <1>3, <3>1
      <4>2. new[j].type = "DAT" /\ new[j].seq = q /\ new[j].pkt = s.buf[q].pkt
        BY <1>3, <1>7, <3>1, <4>1
      <4>3. ms + 0 = ms
        BY <1>2
      <4> HIDE DEF q
      <4>4. QED
        BY <2>2, <3>2, <4>2, <4>3 DEF q
    <3>4. OutInv(new, la, ms + 0)
      BY <3>3 DEF OutInv
    <3>5. s.out \in Seq(Message) /\ ms + 0 = ms
      BY <1>2 DEF SenderType
    <3>6. OutInv(s.out \o new, la, ms + 0)
      BY <1>2, <3>4, <3>5, OutAppend
    <3>7. QED
      BY <1>7, <3>1, <3>5, <3>6
  <2>12. QED
    BY <2>6, <2>7, <2>8, <2>10, <2>11 DEF SamePackets
<1>10. QED
  BY <1>8, <1>9

(***************************************************************************)
(* What every part of ackRecv keeps.                                       *)
(***************************************************************************)
\* What holds in the middle of ackRecv.
Ready(s, R, la, ms) ==
  s \in SenderType /\ BufferInv(s, R, la, ms) /\ HeadInv(s, la) /\ OutInv(s.out, la, ms)
ReadyGrown(s, R, la, ms) == \E n \in Nat : Ready(s, R, la, ms + n)

\* The window in numbers.
LEMMA ReadyNumbers ==
  ASSUME NEW s, NEW R, NEW la, NEW ms, Ready(s, R, la, ms)
  PROVE  /\ s \in SenderType /\ s.total \in Nat /\ la \in Int /\ ms \in Int
         /\ -1 <= la /\ la <= ms /\ ms < s.total /\ s.total - 1 <= la + Half
         /\ s.lastAcked = la % SeqCnt /\ s.maxSent = ms % SeqCnt
         /\ InFlight(s) = ms - la /\ InFlight(s) \in Nat
<1>1. s \in SenderType /\ WindowInv(s, la, ms)
  BY DEF Ready, BufferInv
<1>2. /\ s.total \in Nat /\ la \in Int /\ ms \in Int
      /\ -1 <= la /\ la <= ms /\ ms < s.total /\ s.total - 1 <= la + Half
      /\ InFlight(s) = ms - la
  BY <1>1, WindowFacts
<1>3. s.lastAcked = la % SeqCnt /\ s.maxSent = ms % SeqCnt
  BY <1>1 DEF WindowInv
<1>4. QED
  BY <1>1, <1>2, <1>3

\* A change of cwnd, flags and counters keeps all of it,
LEMMA ReadySame ==
  ASSUME NEW s, NEW R, NEW la, NEW ms, Ready(s, R, la, ms),
         NEW t \in SenderType, SameBuffer(s, t), Fixed(s, t), t.lastAcked = s.lastAcked
  PROVE  Ready(t, R, la, ms) /\ SamePackets(s, t)
<1>1. s \in SenderType /\ BufferInv(s, R, la, ms) /\ HeadInv(s, la) /\ OutInv(s.out, la, ms)
  BY DEF Ready
<1>2. /\ BufferInv(t, R, la, ms) /\ HeadInv(t, la) /\ OutInv(t.out, la, ms)
      /\ \A q : t.buf[q] = s.buf[q]
  BY <1>1, SameBufferStep
<1>3. QED
  BY <1>2 DEF Ready, SamePackets

\* ... and so does any change that moves no packet, for the head.
LEMMA SameHead ==
  ASSUME NEW s, NEW t, NEW la \in Int, HeadInv(s, la), SamePackets(s, t), Fixed(s, t)
  PROVE  HeadInv(t, la)
<1>1. (la + 1) % SeqCnt \in SeqNo
  BY Residue
<1>2. t.total = s.total /\ t.drained = s.drained
  BY DEF Fixed
<1>3. QED
  BY <1>1, <1>2 DEF HeadInv, SamePackets, Held

\* sendNext in the middle of ackRecv.
LEMMA ReadySend ==
  ASSUME NEW s, NEW R, NEW la, NEW ms, Ready(s, R, la, ms), NEW cnt \in Nat,
         NEW t, t = SendNew(s, cnt)
  PROVE  t \in SenderType /\ ReadyGrown(t, R, la, ms) /\ Frame(s, t) /\ SamePackets(s, t)
<1>1. s \in SenderType /\ BufferInv(s, R, la, ms) /\ HeadInv(s, la) /\ OutInv(s.out, la, ms)
  BY DEF Ready
<1>2. t \in SenderType /\ Frame(s, t) /\ SamePackets(s, t) /\ BufferGrown(t, R, la, ms)
  BY <1>1, SendNewStep
<1>3. HeadInv(t, la)
  BY <1>1, <1>2, SameHead, ReadyNumbers DEF Frame
<1>4. PICK n \in Nat : BufferInv(t, R, la, ms + n) /\ OutInv(t.out, la, ms + n)
  BY <1>2 DEF BufferGrown
<1>5. Ready(t, R, la, ms + n)
  BY <1>2, <1>3, <1>4 DEF Ready
<1>6. QED
  BY <1>2, <1>5 DEF ReadyGrown

\* A retransmission in the middle of ackRecv.
LEMMA ReadyRetransmit ==
  ASSUME NEW s, NEW R, NEW la, NEW ms, Ready(s, R, la, ms),
         NEW i \in Int, la < i, i <= ms, s.drained \/ Held(s, i % SeqCnt),
         NEW t, t = Retransmit(s, i % SeqCnt)
  PROVE  Ready(t, R, la, ms) /\ Frame(s, t) /\ SamePackets(s, t)
<1>1. s \in SenderType /\ BufferInv(s, R, la, ms) /\ HeadInv(s, la) /\ OutInv(s.out, la, ms)
  BY DEF Ready
<1>2. /\ t \in SenderType /\ Frame(s, t) /\ SamePackets(s, t)
      /\ BufferInv(t, R, la, ms) /\ OutInv(t.out, la, ms)
  BY <1>1, RetransmitStep
<1>3. HeadInv(t, la)
  BY <1>1, <1>2, SameHead, ReadyNumbers DEF Frame
<1>4. QED
  BY <1>2, <1>3 DEF Ready

\* The frames of two steps make the frame of both.
LEMMA FrameTrans ==
  ASSUME NEW r, NEW s, NEW t
  PROVE  /\ Frame(r, s) /\ Frame(s, t) => Frame(r, t)
         /\ Fixed(r, s) /\ Fixed(s, t) => Fixed(r, t)
         /\ SamePackets(r, s) /\ SamePackets(s, t) => SamePackets(r, t)
         /\ Frame(r, s) => Fixed(r, s) /\ s.status = r.status /\ s.recover = r.recover
                           /\ s.lastAcked = r.lastAcked
  BY DEF Frame, Fixed, SamePackets

(***************************************************************************)
(* The position an acknowledgement names.                                  *)
(***************************************************************************)
\* Only packets that this acknowledgement names are forgotten.
AckedPackets(s, t, la, pos, o) ==
  /\ \A q \in SeqNo : Held(t, q) => Held(s, q) /\ t.buf[q].pkt = s.buf[q].pkt
  /\ \A i \in Int : la < i /\ i < s.total /\ Held(s, i % SeqCnt) /\ ~(i = o /\ pos <= la) =>
       Held(t, i % SeqCnt)

SackFreed(s, t, o) == \E S \in SUBSET SeqNo : S \subseteq {o % SeqCnt} /\ Freed(s, t, S)

\* A selective acknowledgement empties at most the slot it names.
LEMMA SackStep ==
  ASSUME NEW s \in SenderType, NEW R, NEW la, NEW ms, BufferInv(s, R, la, ms),
         NEW ack, NEW o \in Int, ack.orig = o % SeqCnt, NEW t, t = Sack(s, ack)
  PROVE  /\ t \in SenderType /\ Frame(s, t) /\ t.maxSent = s.maxSent
         /\ t.sendSeqLock = s.sendSeqLock /\ t.out = s.out /\ SackFreed(s, t, o) /\ TimerInv(t)
<1>1. TimerInv(s) /\ \A q \in SeqNo : ~Held(s, q) => ~s.buf[q].pktSent
  BY DEF BufferInv, SlotInv
<1>2. CASE ack.ackNo # ack.orig
  <2>1. t = Free(s, {ack.orig})
    BY <1>2 DEF Sack
  <2>2. {ack.orig} \in SUBSET SeqNo
    BY Residue
  <2>3. /\ t \in SenderType /\ Frame(s, t) /\ t.maxSent = s.maxSent
        /\ t.sendSeqLock = s.sendSeqLock /\ t.out = s.out /\ Freed(s, t, {ack.orig}) /\ TimerInv(t)
    BY <1>1, <2>1, <2>2, FreeSlots
  <2>4. SackFreed(s, t, o)
    BY <2>2, <2>3 DEF SackFreed
  <2>5. QED
    BY <2>3, <2>4
<1>3. CASE ack.ackNo = ack.orig
  <2>1. t = s
    BY <1>3 DEF Sack
  <2>2. Freed(s, s, {})
    BY DEF Freed
  <2>3. SackFreed(s, t, o)
    BY <2>1, <2>2 DEF SackFreed
  <2>4. Frame(s, s)
    BY DEF Frame, Fixed
  <2>5. QED
    BY <1>1, <2>1, <2>3, <2>4
<1>4. QED
  BY <1>2, <1>3

\* The slots S emptied by the acknowledgement are the ones it names.
LEMMA AckedKeeps ==
  ASSUME NEW s \in SenderType, NEW R, NEW la, NEW ms, BufferInv(s, R, la, ms),
         NEW pos \in Int, NEW o \in Int, la <= pos, pos <= ms, pos - Half < o, o <= pos + Half,
         NEW t, NEW S, Freed(s, t, S), \A q \in SeqNo : q \in S => AckedSlots(la, pos, o, q)
  PROVE  /\ AckedPackets(s, t, pos, pos, o)
         /\ HeadInv(s, pos) /\ o # pos + 1 /\ Fixed(s, t) => HeadInv(t, pos)
<1>1. WindowInv(s, la, ms) /\ (\A q \in SeqNo : SlotInv(s, la, ms, q))
  BY DEF BufferInv
<1>2. /\ s.total \in Nat /\ la \in Int /\ ms \in Int
      /\ -1 <= la /\ la <= ms /\ ms < s.total /\ s.total - 1 <= la + Half
  BY <1>1, WindowFacts
<1>3. ASSUME NEW i \in Int, pos < i, i < s.total, Held(s, i % SeqCnt), i # o
      PROVE  Held(t, i % SeqCnt)
  <2>1. i % SeqCnt \in SeqNo
    BY Residue
  <2>2. s.buf[i % SeqCnt].pkt.id = i
    <3>1. s.total - 1 - SeqCnt < i /\ i < la + 1 + SeqCnt
      BY <1>2, <1>3, SpaceFacts
    <3>2. QED
      BY <1>1, <1>3, <3>1, SlotOf
  <2>3. ~AckedSlots(la, pos, o, i % SeqCnt)
    BY <1>3, <2>1, <2>2, AckedOnly
  <2>4. i % SeqCnt \notin S
    BY <2>1, <2>3
  <2>5. QED
    BY <1>3, <2>1, <2>4 DEF Freed, Held
<1>4. AckedPackets(s, t, pos, pos, o)
  <2>1. \A q \in SeqNo : Held(t, q) => Held(s, q) /\ t.buf[q].pkt = s.buf[q].pkt
    BY DEF Freed
  <2>2. QED
    BY <1>3, <2>1 DEF AckedPackets
<1>5. ASSUME HeadInv(s, pos), o # pos + 1, Fixed(s, t) PROVE HeadInv(t, pos)
  <2>1. t.total = s.total /\ t.drained = s.drained
    BY <1>5 DEF Fixed
  <2>2. pos + 1 \in Int /\ pos < pos + 1
    OBVIOUS
  <2>3. QED
    BY <1>3, <1>5, <2>1, <2>2 DEF HeadInv
<1>6. QED
  BY <1>4, <1>5

\* Nothing is acknowledged but the packet o.
LEMMA SackReady ==
  ASSUME NEW s, NEW R, NEW la, NEW ms, Ready(s, R, la, ms), R \subseteq 0 .. ms, 0 .. la \subseteq R,
         NEW ack, NEW o \in Int, ack.orig = o % SeqCnt, la - Half < o, o <= la + Half, o \in R,
         o # la + 1, NEW t, t = Sack(s, ack)
  PROVE  Ready(t, R, la, ms) /\ Frame(s, t) /\ AckedPackets(s, t, la, la, o)
<1>1. s \in SenderType /\ BufferInv(s, R, la, ms) /\ HeadInv(s, la) /\ OutInv(s.out, la, ms)
  BY DEF Ready
<1>2. /\ t \in SenderType /\ Frame(s, t) /\ t.maxSent = s.maxSent
      /\ t.sendSeqLock = s.sendSeqLock /\ t.out = s.out /\ SackFreed(s, t, o) /\ TimerInv(t)
  BY <1>1, SackStep
<1>3. PICK S \in SUBSET SeqNo : S \subseteq {o % SeqCnt} /\ Freed(s, t, S)
  BY <1>2 DEF SackFreed
<1>4. la \in Int /\ ms \in Int /\ la <= la /\ la <= ms /\ s.lastAcked = la % SeqCnt
  BY ReadyNumbers
<1>5. \A q \in SeqNo : q \in S => AckedSlots(la, la, o, q)
  BY <1>3 DEF AckedSlots
<1>6. \A i \in Int : la < i /\ i <= la => i % SeqCnt \in S
  BY <1>4
<1>7. Fixed(s, t) /\ t.lastAcked = la % SeqCnt
  BY <1>2, <1>4 DEF Frame
<1>8. BufferInv(t, R, la, ms)
  BY <1>1, <1>2, <1>3, <1>4, <1>5, <1>6, <1>7, AckedBuffer
<1>9. AckedPackets(s, t, la, la, o) /\ HeadInv(t, la)
  BY <1>1, <1>3, <1>4, <1>5, <1>7, AckedKeeps
<1>10. QED
  BY <1>1, <1>2, <1>8, <1>9 DEF Ready

\* Recovery is untouched.
SameRecovery(s, t) == t.status = s.status /\ t.recover = s.recover

\* A new acknowledgement moves the window behind its position.
LEMMA AdvanceReady ==
  ASSUME NEW s, NEW R, NEW la, NEW ms, Ready(s, R, la, ms), s.out = <<>>, R \subseteq 0 .. ms,
         NEW ack, NEW pos \in Int, NEW o \in Int, ack.orig = o % SeqCnt, pos - Half < o, o <= pos + Half,
         o \in R, o # pos + 1, la < pos, pos <= ms, 0 .. pos \subseteq R, HeadInv(s, pos),
         NEW t, t = Advance(Sack(s, ack), pos - la)
  PROVE  /\ Ready(t, R, pos, ms) /\ Fixed(s, t) /\ SameRecovery(s, t)
         /\ AckedPackets(s, t, pos, pos, o)
<1> DEFINE v == Sack(s, ack)
           n == pos - la
           acked == {Plus(v.lastAcked, k) : k \in 1 .. n}
           chf == \E q \in acked : v.buf[q].pkt # Null /\ v.buf[q].pkt.chf
           b == v.shutDownSentRecv \/ (v.shutDownSent /\ chf)
           u == [v EXCEPT !.lastAcked = Plus(@, n), !.duplicateCount = 0, !.shutDownSentRecv = b]
<1>1. s \in SenderType /\ BufferInv(s, R, la, ms) /\ HeadInv(s, la) /\ OutInv(s.out, la, ms)
  BY DEF Ready
<1>2. /\ s.total \in Nat /\ la \in Int /\ ms \in Int
      /\ -1 <= la /\ la <= ms /\ ms < s.total /\ s.total - 1 <= la + Half
      /\ s.lastAcked = la % SeqCnt /\ s.maxSent = ms % SeqCnt
  BY ReadyNumbers
<1>3. /\ v \in SenderType /\ Frame(s, v) /\ v.maxSent = s.maxSent
      /\ v.sendSeqLock = s.sendSeqLock /\ v.out = s.out /\ SackFreed(s, v, o) /\ TimerInv(v)
  <2>1. v = Sack(s, ack)
    OBVIOUS
  <2> HIDE DEF v
  <2>2. QED
    BY <1>1, <2>1, SackStep, ZenonT(60)
<1>4. t = Free(u, acked)
  BY DEF Advance
<1> HIDE DEF v
<1>5. n \in Nat /\ n > 0 /\ \A k \in Int : k \in 1 .. n <=> la < la + k /\ la + k <= pos
  BY <1>2
<1>6. v.lastAcked = la % SeqCnt
  BY <1>2, <1>3 DEF Frame
<1> HIDE DEF n
<1>7. \A k \in Int : Plus(v.lastAcked, k) = (la + k) % SeqCnt
  BY <1>2, <1>6, PlusOfResidue
<1>8. acked \subseteq SeqNo /\ \A q : q \in acked <=> \E k \in 1 .. n : q = (la + k) % SeqCnt
  <2>1. \A k \in 1 .. n : k \in Int /\ la + k \in Int
    BY <1>2, <1>5
  <2>2. QED
    BY <1>7, <2>1, Residue
<1>9. Plus(v.lastAcked, n) = pos % SeqCnt /\ pos % SeqCnt \in SeqNo
  <2>1. n \in Int /\ la + n = pos
    BY <1>2 DEF n
  <2>2. QED
    BY <1>7, <2>1, Residue
<1> HIDE DEF acked
<1>10. u \in SenderType
  <2>1. b \in BOOLEAN
    OBVIOUS
  <2> HIDE DEF b
  <2>2. QED
    BY <1>3, <1>9, <2>1 DEF SenderType
<1> HIDE DEF b
<1>11. /\ u.buf = v.buf /\ u.timerList = v.timerList /\ u.out = v.out /\ u.maxSent = v.maxSent
       /\ u.sendSeqLock = v.sendSeqLock /\ Fixed(v, u) /\ u.lastAcked = pos % SeqCnt
       /\ u.status = v.status /\ u.recover = v.recover
  BY <1>3, <1>9 DEF SenderType, Fixed
<1> HIDE DEF u
<1>12. PICK S1 \in SUBSET SeqNo : S1 \subseteq {o % SeqCnt} /\ Freed(s, v, S1)
  BY <1>3 DEF SackFreed
<1>13. \A q \in SeqNo : ~Held(u, q) => ~u.buf[q].pktSent
  <2>1. \A q \in SeqNo : ~Held(s, q) => ~s.buf[q].pktSent
    BY <1>1 DEF BufferInv, SlotInv
  <2>2. QED
    BY <1>11, <1>12, <2>1 DEF Freed, Held
<1>14. TimerInv(u)
  BY <1>3, <1>11 DEF TimerInv, Held
<1>15. /\ t \in SenderType /\ Frame(u, t) /\ t.maxSent = u.maxSent
       /\ t.sendSeqLock = u.sendSeqLock /\ t.out = u.out /\ Freed(u, t, acked) /\ TimerInv(t)
  BY <1>4, <1>8, <1>10, <1>13, <1>14, FreeSlots
<1>16. /\ Fixed(s, t) /\ t.maxSent = s.maxSent /\ t.sendSeqLock = s.sendSeqLock /\ t.out = s.out
       /\ t.lastAcked = pos % SeqCnt /\ t.status = s.status /\ t.recover = s.recover
  BY <1>3, <1>11, <1>15 DEF Frame, Fixed
<1> DEFINE S == S1 \cup acked
<1>17. Freed(s, t, S)
  <2>1. ASSUME NEW q \in SeqNo
        PROVE  /\ q \in S => ~Held(t, q) /\ ~t.buf[q].pktSent
               /\ q \notin S => t.buf[q] = s.buf[q]
               /\ Held(t, q) => Held(s, q) /\ t.buf[q] = s.buf[q]
    <3>1. /\ q \in S1 => ~Held(v, q) /\ ~v.buf[q].pktSent
          /\ q \notin S1 => v.buf[q] = s.buf[q]
          /\ Held(v, q) => Held(s, q) /\ v.buf[q] = s.buf[q]
      BY <1>12 DEF Freed
    <3>2. /\ q \in acked => ~Held(t, q) /\ ~t.buf[q].pktSent
          /\ q \notin acked => t.buf[q] = u.buf[q]
          /\ Held(t, q) => Held(u, q) /\ t.buf[q] = u.buf[q]
      BY <1>15 DEF Freed
    <3>3. u.buf[q] = v.buf[q] /\ (Held(u, q) <=> Held(v, q))
      BY <1>11 DEF Held
    <3>4. q \in S <=> q \in S1 \/ q \in acked
      OBVIOUS
    <3>5. q \notin acked => (Held(t, q) <=> Held(u, q)) /\ t.buf[q].pktSent = u.buf[q].pktSent
      BY <3>2 DEF Held
    <3>6. CASE q \in acked
      BY <3>1, <3>2, <3>3, <3>4, <3>6
    <3>7. CASE q \notin acked
      BY <3>1, <3>2, <3>3, <3>4, <3>5, <3>7
    <3>8. QED
      BY <3>6, <3>7
  <2> HIDE DEF S
  <2>2. QED
    BY <2>1 DEF Freed
<1>18. \A q \in SeqNo : q \in S => AckedSlots(la, pos, o, q)
  <2>1. ASSUME NEW q \in acked PROVE AckedSlots(la, pos, o, q)
    <3>1. PICK k \in 1 .. n : q = (la + k) % SeqCnt
      BY <1>8
    <3>2. k \in Int /\ la + k \in Int /\ la < la + k /\ la + k <= pos
      BY <1>2, <1>5
    <3>3. QED
      BY <3>1, <3>2 DEF AckedSlots
  <2>2. \A q \in S1 : AckedSlots(la, pos, o, q)
    BY <1>12 DEF AckedSlots
  <2>3. QED
    BY <2>1, <2>2
<1>19. ASSUME NEW i \in Int, la < i, i <= pos PROVE i % SeqCnt \in S
  <2>1. i - la \in Int /\ la + (i - la) = i
    BY <1>2
  <2>2. i - la \in 1 .. n
    BY <1>2, <1>5, <1>19, <2>1
  <2>3. QED
    BY <1>8, <2>1, <2>2
<1> HIDE DEF S
<1>24. la <= pos
  BY <1>2
<1>20. BufferInv(t, R, pos, ms)
  BY <1>1, <1>2, <1>24, <1>15, <1>16, <1>17, <1>18, <1>19, AckedBuffer
<1>21. AckedPackets(s, t, pos, pos, o) /\ HeadInv(t, pos)
  BY <1>1, <1>2, <1>16, <1>17, <1>18, AckedKeeps
<1>22. OutInv(t.out, pos, ms)
  BY <1>16 DEF OutInv
<1>23. QED
  BY <1>15, <1>16, <1>20, <1>21, <1>22 DEF Ready, SameRecovery

\* The middle of ackRecv, in recovery.
ReadyRecovering(t, R, la, ms) == \E n \in Nat : Ready(t, R, la, ms + n) /\ RecoveryInv(t, la, ms + n)

\* More packets in flight never hurt recovery,
LEMMA RecoveringGrown ==
  ASSUME NEW s, NEW R, NEW la, NEW ms, Ready(s, R, la, ms), RecoveryInv(s, la, ms),
         NEW t, t.status = s.status, t.recover = s.recover, ReadyGrown(t, R, la, ms)
  PROVE  ReadyRecovering(t, R, la, ms)
<1>1. PICK n \in Nat : Ready(t, R, la, ms + n)
  BY DEF ReadyGrown
<1>2. la \in Int /\ ms \in Int
  BY ReadyNumbers
<1>3. s.recover \in Int
  BY ReadyNumbers, SpaceFacts DEF SenderType, SeqNo
<1>4. RecoveryInv(t, la, ms + n)
  BY <1>1, <1>2, <1>3 DEF RecoveryInv, InRecovery
<1>5. QED
  BY <1>1, <1>4 DEF ReadyRecovering

\* ... nor do as many as before.
LEMMA NotGrown ==
  ASSUME NEW t, NEW R, NEW la, NEW ms, Ready(t, R, la, ms)
  PROVE  ReadyGrown(t, R, la, ms) /\ (RecoveryInv(t, la, ms) => ReadyRecovering(t, R, la, ms))
<1>1. ms + 0 = ms
  BY ReadyNumbers
<1>2. QED
  BY <1>1 DEF ReadyGrown, ReadyRecovering

\* The congestion window may change,
LEMMA ReadyCwnd ==
  ASSUME NEW s, NEW R, NEW la, NEW ms, Ready(s, R, la, ms), NEW t \in SenderType,
         SameBuffer(s, t), Frame(s, t)
  PROVE  Ready(t, R, la, ms) /\ SamePackets(s, t)
  BY ReadySame, FrameTrans DEF Frame

\* ... also after packets were sent.
LEMMA GrownCwnd ==
  ASSUME NEW s, NEW R, NEW la, NEW ms, ReadyGrown(s, R, la, ms), NEW t \in SenderType,
         SameBuffer(s, t), Frame(s, t)
  PROVE  ReadyGrown(t, R, la, ms) /\ SamePackets(s, t)
<1>1. PICK n \in Nat : Ready(s, R, la, ms + n)
  BY DEF ReadyGrown
<1>2. Ready(t, R, la, ms + n) /\ SamePackets(s, t)
  BY <1>1, ReadyCwnd
<1>3. QED
  BY <1>2 DEF ReadyGrown

(***************************************************************************)
(* The parts of ackRecv.                                                   *)
(***************************************************************************)
LEMMA StuckReady ==
  ASSUME NEW s, NEW R, NEW la, NEW ms, Ready(s, R, la, ms), s.drained,
         NEW t, t = [s EXCEPT !.sendSeqLock = "stuck"]
  PROVE  Ready(t, R, la, ms) /\ Frame(s, t) /\ SamePackets(s, t)
<1>1. s \in SenderType /\ BufferInv(s, R, la, ms) /\ HeadInv(s, la) /\ OutInv(s.out, la, ms)
  BY DEF Ready
<1>2. /\ t \in SenderType /\ Frame(s, t) /\ t.buf = s.buf /\ t.timerList = s.timerList
      /\ t.out = s.out /\ t.maxSent = s.maxSent /\ t.maxPacket = s.maxPacket /\ t.total = s.total
      /\ t.undelivered = s.undelivered /\ t.drained = s.drained
      /\ t.deadChannel = s.deadChannel /\ t.lastAcked = s.lastAcked
  BY <1>1 DEF SenderType, Frame, Fixed
<1>3. WindowInv(t, la, ms)
  BY <1>1, <1>2 DEF BufferInv, WindowInv
<1>4. \A q \in SeqNo : SlotInv(t, la, ms, q)
  BY <1>1, <1>2 DEF BufferInv, SlotInv, Held
<1>5. TimerInv(t)
  BY <1>1, <1>2 DEF BufferInv, TimerInv, Held
<1>6. GapInv(t, R, la, ms) /\ DeathInv(t, R)
  BY <1>1, <1>2 DEF BufferInv, GapInv, DeathInv, Held
<1>7. HeadInv(t, la)
  BY <1>2 DEF HeadInv
<1>8. QED
  BY <1>1, <1>2, <1>3, <1>4, <1>5, <1>6, <1>7 DEF BufferInv, Ready, SamePackets

\* A new acknowledgement outside recovery, or past it.
LEMMA NewAckStep ==
  ASSUME NEW s, NEW ack, NEW n \in Nat, NEW R, NEW la, NEW ms,
         Ready(Advance(s, n), R, la, ms), NEW t, t = NewAck(s, n)
  PROVE  /\ t \in SenderType /\ Fixed(Advance(s, n), t) /\ SamePackets(Advance(s, n), t)
         /\ ReadyRecovering(t, R, la, ms)
<1> DEFINE v == Advance(s, n)
           a == [v EXCEPT !.recover = 0]
           g == GrowCwnd(a)
           h == GrowCwndSlowly(a)
           b == IF a.cwnd <= a.ssthresh * CwndUnit
                THEN [g EXCEPT !.status = "SLOW_START"]
                ELSE [h EXCEPT !.status = "CONG_AVOIDANCE"]
<1>1. t = SendNew(b, 2 * n) /\ 2 * n \in Nat
  BY DEF NewAck
<1> HIDE DEF v
<1>2. v \in SenderType
  BY ReadyNumbers DEF v
<1>3. a \in SenderType /\ SameBuffer(v, a) /\ Fixed(v, a) /\ a.lastAcked = v.lastAcked
  <2>1. 0 \in SeqNo
    BY SeqCntFacts DEF SeqNo
  <2>2. QED
    BY <1>2, <2>1 DEF SenderType, SameBuffer, Fixed
<1> HIDE DEF a
<1>4. /\ g \in SenderType /\ SameBuffer(a, g) /\ Frame(a, g)
      /\ h \in SenderType /\ SameBuffer(a, h) /\ Frame(a, h)
  <2>1. g \in SenderType /\ SameBuffer(a, g) /\ Frame(a, g)
    BY <1>3, GrowCwndFrame
  <2>2. h \in SenderType /\ SameBuffer(a, h) /\ Frame(a, h)
    BY <1>3, GrowCwndSlowlyFrame
  <2>3. QED
    BY <2>1, <2>2
<1> HIDE DEF g, h
<1>5. ASSUME NEW c \in SenderType, SameBuffer(a, c), Frame(a, c), NEW st \in {"SLOW_START", "CONG_AVOIDANCE"},
             NEW d, d = [c EXCEPT !.status = st]
      PROVE  /\ d \in SenderType /\ SameBuffer(v, d) /\ Fixed(v, d)
             /\ d.lastAcked = v.lastAcked /\ ~InRecovery(d)
  <2>1. d \in SenderType /\ SameBuffer(c, d) /\ Fixed(c, d) /\ d.lastAcked = c.lastAcked /\ d.status = st
    BY <1>5 DEF SenderType, SameBuffer, Fixed
  <2>2. QED
    BY <1>3, <1>5, <2>1 DEF SameBuffer, Fixed, Frame, InRecovery
<1>6. /\ b \in SenderType /\ SameBuffer(v, b) /\ Fixed(v, b)
      /\ b.lastAcked = v.lastAcked /\ ~InRecovery(b)
  <2>1. CASE a.cwnd <= a.ssthresh * CwndUnit
    <3>1. b = [g EXCEPT !.status = "SLOW_START"]
      BY <2>1
    <3> HIDE DEF b
    <3>2. QED
      BY <1>4, <1>5, <3>1
  <2>2. CASE ~(a.cwnd <= a.ssthresh * CwndUnit)
    <3>1. b = [h EXCEPT !.status = "CONG_AVOIDANCE"]
      BY <2>2
    <3> HIDE DEF b
    <3>2. QED
      BY <1>4, <1>5, <3>1
  <2>3. QED
    BY <2>1, <2>2
<1> HIDE DEF b
<1>7. Ready(b, R, la, ms) /\ SamePackets(v, b)
  BY <1>6, ReadySame DEF v
<1>8. t \in SenderType /\ ReadyGrown(t, R, la, ms) /\ Frame(b, t) /\ SamePackets(b, t)
  BY <1>1, <1>7, ReadySend
<1>9. RecoveryInv(b, la, ms)
  BY <1>6 DEF RecoveryInv
<1>10. ReadyRecovering(t, R, la, ms)
  BY <1>7, <1>8, <1>9, RecoveringGrown DEF Frame
<1>11. QED
  BY <1>6, <1>7, <1>8, <1>10, FrameTrans DEF v

\* A partial acknowledgement: recover stays among the packets in flight.
LEMMA PartialAckStep ==
  ASSUME NEW s, NEW n \in Nat, n > 0, NEW R, NEW la, NEW ms,
         Ready(Advance(s, n), R, la, ms), n < Advance(s, n).recover,
         Advance(s, n).recover <= ms - la + n, InRecovery(Advance(s, n)),
         NEW t, t = PartialAck(s, n)
  PROVE  /\ t \in SenderType /\ Fixed(Advance(s, n), t) /\ SamePackets(Advance(s, n), t)
         /\ ReadyRecovering(t, R, la, ms)
<1> DEFINE v == Advance(s, n)
           a == [v EXCEPT !.recover = v.recover - n]
           head == Plus(a.lastAcked, 1)
           m == [a EXCEPT !.status = "MULTI_RECOVERY", !.multiRecoverIndex = Plus(head, 1),
                          !.duplicateCount = 3]
           b == SendNew(a, 1)
<1>1. t = IF a.status = "FAST_RECOVERY" THEN Retransmit(m, head)
          ELSE SetCwnd(b, b.cwnd - (n - 1) * CwndUnit)
  <2>1. a = [Advance(s, n) EXCEPT !.recover = @ - n]
    OBVIOUS
  <2> HIDE DEF a
  <2>2. QED
    BY <2>1 DEF PartialAck
<1>2. Ready(v, R, la, ms) /\ n < v.recover /\ v.recover <= ms - la + n /\ InRecovery(v)
  OBVIOUS
<1>18. ReadyRecovering(t, R, la, ms) /\ t \in SenderType /\ Fixed(v, t) /\ SamePackets(v, t)
  <2> HIDE DEF v
  <2>1. /\ v \in SenderType /\ v.total \in Nat /\ la \in Int /\ ms \in Int
        /\ -1 <= la /\ la <= ms /\ ms < v.total /\ v.lastAcked = la % SeqCnt
    BY <1>2, ReadyNumbers
  <2>2. v.recover \in SeqNo /\ v.recover \in Int
    BY <2>1, SpaceFacts DEF SenderType, SeqNo
  <2>3. v.recover - n \in SeqNo /\ 1 <= v.recover - n /\ v.recover - n <= ms - la
    BY <1>2, <2>1, <2>2, SpaceFacts DEF SeqNo
  <2>4. /\ a \in SenderType /\ SameBuffer(v, a) /\ Fixed(v, a) /\ a.lastAcked = v.lastAcked
        /\ a.recover = v.recover - n /\ a.status = v.status
    BY <2>1, <2>3 DEF SenderType, SameBuffer, Fixed
  <2> HIDE DEF a
  <2>5. Ready(a, R, la, ms) /\ SamePackets(v, a)
    BY <1>2, <2>4, ReadySame
  <2>6. RecoveryInv(a, la, ms)
    BY <2>3, <2>4 DEF RecoveryInv
  <2>7. head = (la + 1) % SeqCnt /\ head \in SeqNo /\ Plus(head, 1) \in SeqNo
    <3>1. head = (la + 1) % SeqCnt /\ la + 1 \in Int
      BY <2>1, <2>4, PlusOfResidue
    <3>2. head \in SeqNo
      BY <3>1, Residue
    <3>3. head + 1 \in Int
      BY <3>2, SpaceFacts DEF SeqNo
    <3> HIDE DEF head
    <3>4. QED
      BY <3>1, <3>2, <3>3, Residue DEF Plus
  <2>8. CASE a.status = "FAST_RECOVERY"
    <3>1. t = Retransmit(m, head)
      BY <1>1, <2>8
    <3> HIDE DEF head
    <3>2. /\ m \in SenderType /\ SameBuffer(a, m) /\ Fixed(a, m) /\ m.lastAcked = a.lastAcked
          /\ m.recover = a.recover
      BY <2>4, <2>7 DEF SenderType, SameBuffer, Fixed
    <3> HIDE DEF m
    <3>3. Ready(m, R, la, ms) /\ SamePackets(a, m)
      BY <2>5, <3>2, ReadySame
    <3>4. la + 1 \in Int /\ la < la + 1 /\ la + 1 <= ms /\ la + 1 < m.total
      <4>1. m.total = v.total
        BY <2>4, <3>2 DEF Fixed
      <4>2. la + 1 <= ms
        BY <2>1, <2>2, <2>3
      <4>3. QED
        BY <2>1, <4>1, <4>2
    <3>5. m.drained \/ Held(m, (la + 1) % SeqCnt)
      BY <3>3, <3>4 DEF Ready, HeadInv
    <3>6. Ready(t, R, la, ms) /\ Frame(m, t) /\ SamePackets(m, t)
      BY <2>7, <3>1, <3>3, <3>4, <3>5, ReadyRetransmit
    <3>7. RecoveryInv(t, la, ms)
      BY <2>3, <2>4, <3>2, <3>6 DEF RecoveryInv, Frame
    <3>8. Fixed(v, t) /\ SamePackets(v, t)
      BY <2>4, <2>5, <3>2, <3>3, <3>6, FrameTrans
    <3>9. ReadyRecovering(t, R, la, ms)
      BY <3>6, <3>7, NotGrown
    <3>10. QED
      BY <3>6, <3>8, <3>9 DEF Ready
  <2>9. CASE a.status # "FAST_RECOVERY"
    <3>1. t = SetCwnd(b, b.cwnd - (n - 1) * CwndUnit)
      BY <1>1, <2>9
    <3>2. b \in SenderType /\ ReadyGrown(b, R, la, ms) /\ Frame(a, b) /\ SamePackets(a, b)
      BY <2>5, ReadySend
    <3> HIDE DEF b
    <3>3. b.cwnd - (n - 1) * CwndUnit \in Int
      <4>1. b.cwnd \in Int
        BY <3>2, SpaceFacts DEF SenderType
      <4>2. (n - 1) * CwndUnit \in Int
        BY SpaceFacts
      <4>3. QED
        BY <4>1, <4>2
    <3>4. t \in SenderType /\ SameBuffer(b, t) /\ Frame(b, t)
      BY <3>1, <3>2, <3>3, SetCwndFrame
    <3>5. ReadyGrown(t, R, la, ms) /\ SamePackets(b, t)
      BY <3>2, <3>4, GrownCwnd
    <3>6. Frame(a, t) /\ SamePackets(a, t)
      BY <3>2, <3>4, <3>5, FrameTrans
    <3>7. ReadyRecovering(t, R, la, ms)
      BY <2>5, <2>6, <3>5, <3>6, RecoveringGrown DEF Frame
    <3>8. QED
      BY <2>4, <2>5, <3>4, <3>6, <3>7, FrameTrans
  <2>10. QED
    BY <2>8, <2>9
<1>19. QED
  BY <1>18

\* The third duplicate starts fast recovery.
LEMMA TripleDuplicateStep ==
  ASSUME NEW s, NEW R, NEW la, NEW ms, Ready(s, R, la, ms), RecoveryInv(s, la, ms), la < ms,
         NEW t, t = TripleDuplicate(s)
  PROVE  t \in SenderType /\ Fixed(s, t) /\ SamePackets(s, t) /\ ReadyRecovering(t, R, la, ms)
<1> DEFINE a == Retransmit(s, Plus(s.lastAcked, 1))
           half == IF InFlight(a) \div 2 > 2 THEN InFlight(a) \div 2 ELSE 2
           b == [a EXCEPT !.recover = InFlight(a), !.recoverIndex = a.maxSent,
                          !.ssthresh = half, !.status = "FAST_RECOVERY"]
<1>1. t = IF s.status = "FAST_RECOVERY" THEN a ELSE SetCwnd(b, (half + 3) * CwndUnit)
  BY DEF TripleDuplicate
<1>2. /\ s \in SenderType /\ s.total \in Nat /\ la \in Int /\ ms \in Int
      /\ -1 <= la /\ la <= ms /\ ms < s.total /\ s.total - 1 <= la + Half
      /\ s.lastAcked = la % SeqCnt
  BY ReadyNumbers
<1>3. Plus(s.lastAcked, 1) = (la + 1) % SeqCnt
  BY <1>2, PlusOfResidue
<1>4. la + 1 \in Int /\ la < la + 1 /\ la + 1 <= ms /\ la + 1 < s.total
  BY <1>2
<1>5. s.drained \/ Held(s, (la + 1) % SeqCnt)
  BY <1>4 DEF Ready, HeadInv
<1>6. a = Retransmit(s, (la + 1) % SeqCnt)
  BY <1>3
<1> HIDE DEF a
<1>7. Ready(a, R, la, ms) /\ Frame(s, a) /\ SamePackets(s, a)
  BY <1>4, <1>5, <1>6, ReadyRetransmit
<1>8. CASE s.status = "FAST_RECOVERY"
  <2>1. RecoveryInv(a, la, ms)
    BY <1>7 DEF RecoveryInv, InRecovery, Frame
  <2>2. QED
    BY <1>1, <1>7, <1>8, <2>1, NotGrown, FrameTrans DEF Ready
<1>9. CASE s.status # "FAST_RECOVERY"
  <2>1. a \in SenderType /\ InFlight(a) = ms - la /\ InFlight(a) \in Nat
    BY <1>7, ReadyNumbers
  <2>2. half \in Nat
    <3>1. InFlight(a) \div 2 \in Nat
      BY <2>1
    <3>2. QED
      BY <3>1
  <2>3. InFlight(a) \in SeqNo
    <3>1. InFlight(a) <= SeqCnt - 1
      BY <1>2, <2>1, SpaceFacts
    <3>2. QED
      BY <2>1, <3>1, SeqCntFacts DEF SeqNo
  <2> HIDE DEF half
  <2>4. a.maxSent \in SeqNo
    BY <2>1 DEF SenderType
  <2>5. /\ b \in SenderType /\ SameBuffer(a, b) /\ Fixed(a, b) /\ b.lastAcked = a.lastAcked
        /\ b.recover = InFlight(a)
    BY <2>1, <2>2, <2>3, <2>4 DEF SenderType, SameBuffer, Fixed
  <2> HIDE DEF b
  <2>6. (half + 3) * CwndUnit \in Int
    BY <2>2, SpaceFacts
  <2>7. t = SetCwnd(b, (half + 3) * CwndUnit)
    BY <1>1, <1>9
  <2>8. t \in SenderType /\ SameBuffer(b, t) /\ Frame(b, t)
    BY <2>5, <2>6, <2>7, SetCwndFrame
  <2>9. Ready(b, R, la, ms) /\ SamePackets(a, b)
    BY <1>7, <2>5, ReadySame
  <2>10. Ready(t, R, la, ms) /\ SamePackets(b, t)
    BY <2>8, <2>9, ReadyCwnd
  <2>11. RecoveryInv(t, la, ms)
    <3>1. t.recover = ms - la
      BY <2>1, <2>5, <2>8 DEF Frame
    <3>2. QED
      BY <1>2, <3>1 DEF RecoveryInv
  <2>12. QED
    BY <1>7, <2>5, <2>8, <2>9, <2>10, <2>11, NotGrown, FrameTrans
<1>10. QED
  BY <1>8, <1>9

\* A duplicate after the first partial acknowledgement.
LEMMA MultiRecoverStep ==
  ASSUME NEW s, NEW R, NEW la, NEW ms, Ready(s, R, la, ms), RecoveryInv(s, la, ms), la < ms,
         NEW t, t = MultiRecover(s)
  PROVE  t \in SenderType /\ Fixed(s, t) /\ SamePackets(s, t) /\ ReadyRecovering(t, R, la, ms)
<1> DEFINE next == NextUnacked(s)
           k0 == CHOOSE k \in 0 .. SeqCnt - 1 : IndexStops(s, k) /\ \A j \in 0 .. k - 1 : ~IndexStops(s, j)
<1>1. /\ s \in SenderType /\ s.total \in Nat /\ la \in Int /\ ms \in Int
      /\ -1 <= la /\ la <= ms /\ ms < s.total /\ s.total - 1 <= la + Half
      /\ s.lastAcked = la % SeqCnt
  BY ReadyNumbers
<1>2. s.multiRecoverIndex \in SeqNo
  BY <1>1 DEF SenderType
<1>3. CASE \A k \in 0 .. SeqCnt - 1 : ~IndexStops(s, k)
  <2>1. s.drained
    <3>1. SUFFICES ASSUME ~s.drained PROVE FALSE
      OBVIOUS
    <3> DEFINE head == (la + 1) % SeqCnt
               k == Dist(head, s.multiRecoverIndex)
    <3>2. head \in SeqNo
      BY <1>1, Residue
    <3>3. la + 1 < s.total
      BY <1>1
    <3>4. Held(s, head)
      BY <3>1, <3>3 DEF Ready, HeadInv
    <3> HIDE DEF head
    <3>5. k \in SeqNo /\ Plus(s.multiRecoverIndex, k) = head
      BY <1>2, <3>2, DistSound
    <3>6. IndexStops(s, k)
      BY <3>4, <3>5 DEF IndexStops, Held
    <3>7. k \in 0 .. SeqCnt - 1
      BY <3>5 DEF SeqNo
    <3>8. QED
      BY <1>3, <3>6, <3>7
  <2>2. t = [s EXCEPT !.sendSeqLock = "stuck"]
    BY <1>3 DEF MultiRecover
  <2>3. Ready(t, R, la, ms) /\ Frame(s, t) /\ SamePackets(s, t)
    BY <2>1, <2>2, StuckReady
  <2>4. RecoveryInv(t, la, ms)
    BY <2>3 DEF RecoveryInv, InRecovery, Frame
  <2>5. QED
    BY <2>3, <2>4, NotGrown, FrameTrans DEF Ready
<1>4. CASE \E k \in 0 .. SeqCnt - 1 : IndexStops(s, k)
  <2> DEFINE T == {k \in 0 .. SeqCnt - 1 : IndexStops(s, k)}
             v == [s EXCEPT !.multiRecoverIndex = next]
             g == GrowCwnd(v)
  <2>1. \E n \in T : \A m \in T : n <= m
    <3>1. T # {} /\ T \subseteq Nat
      BY <1>4, SeqCntFacts
    <3>2. QED
      BY <3>1, LeastOf
  <2>2. \E k \in 0 .. SeqCnt - 1 : IndexStops(s, k) /\ \A j \in 0 .. k - 1 : ~IndexStops(s, j)
    <3>1. PICK n \in T : \A m \in T : n <= m
      BY <2>1
    <3>2. n \in 0 .. SeqCnt - 1 /\ IndexStops(s, n)
      BY <3>1
    <3>3. ASSUME NEW j \in 0 .. n - 1 PROVE ~IndexStops(s, j)
      <4>1. j \in 0 .. SeqCnt - 1 /\ ~(n <= j)
        BY <3>2, SeqCntFacts
      <4>2. j \notin T
        BY <3>1, <4>1
      <4>3. QED
        BY <4>1, <4>2
    <3>4. QED
      BY <3>2, <3>3
  <2>3. k0 \in 0 .. SeqCnt - 1 /\ IndexStops(s, k0)
    BY <2>2
  <2>4. next = Plus(s.multiRecoverIndex, k0)
    BY DEF NextUnacked
  <2> HIDE DEF k0
  <2>5. next \in SeqNo
    <3>1. s.multiRecoverIndex + k0 \in Int
      BY <1>2, <2>3, SeqCntFacts DEF SeqNo
    <3>2. QED
      BY <2>4, <3>1, Residue DEF Plus
  <2>6. s.buf[next].pkt # Null \/ next > s.recoverIndex
    BY <2>3, <2>4 DEF IndexStops
  <2>7. ~(next <= s.recoverIndex /\ s.buf[next].pkt = Null)
    <3>1. s.recoverIndex \in SeqNo
      BY <1>1 DEF SenderType
    <3>2. next > s.recoverIndex => ~(next <= s.recoverIndex)
      BY <2>5, <3>1, SeqCntFacts DEF SeqNo
    <3>3. QED
      BY <2>6, <3>2
  <2>8. t = SendNew(g, 1)
    BY <1>4, <2>7 DEF MultiRecover
  <2> HIDE DEF next
  <2>9. v \in SenderType /\ SameBuffer(s, v) /\ Frame(s, v)
    BY <1>1, <2>5 DEF SenderType, SameBuffer, Frame, Fixed
  <2> HIDE DEF v
  <2>10. g \in SenderType /\ SameBuffer(v, g) /\ Frame(v, g)
    BY <2>9, GrowCwndFrame
  <2> HIDE DEF g
  <2>11. Ready(v, R, la, ms) /\ SamePackets(s, v)
    BY <2>9, ReadyCwnd
  <2>12. Ready(g, R, la, ms) /\ SamePackets(v, g)
    BY <2>10, <2>11, ReadyCwnd
  <2>13. t \in SenderType /\ ReadyGrown(t, R, la, ms) /\ Frame(g, t) /\ SamePackets(g, t)
    BY <2>8, <2>12, ReadySend
  <2>14. Frame(s, t) /\ SamePackets(s, t)
    BY <2>9, <2>10, <2>11, <2>12, <2>13, FrameTrans
  <2>15. ReadyRecovering(t, R, la, ms)
    BY <2>13, <2>14, RecoveringGrown DEF Frame
  <2>16. QED
    BY <2>13, <2>14, <2>15, FrameTrans
<1>5. QED
  BY <1>3, <1>4

\* Any duplicate acknowledgement.
LEMMA DuplicateAckStep ==
  ASSUME NEW s, NEW R, NEW la, NEW ms, Ready(s, R, la, ms), RecoveryInv(s, la, ms), la < ms,
         NEW t, t = DuplicateAck(s)
  PROVE  t \in SenderType /\ Fixed(s, t) /\ SamePackets(s, t) /\ ReadyRecovering(t, R, la, ms)
<1> DEFINE d == [s EXCEPT !.duplicateCount = @ + 1]
           g == IF s.status = "FAST_RECOVERY" THEN GrowCwnd(d) ELSE d
<1>1. s \in SenderType
  BY ReadyNumbers
<1>2. d \in SenderType /\ SameBuffer(s, d) /\ Frame(s, d)
  BY <1>1, SMTT(60) DEF SenderType, SameBuffer, Frame, Fixed
<1>3. \/ s.status = "MULTI_RECOVERY" /\ t = MultiRecover(d)
      \/ s.status # "MULTI_RECOVERY" /\ d.duplicateCount = 3 /\ t = TripleDuplicate(d)
      \/ s.status # "MULTI_RECOVERY" /\ d.duplicateCount # 3 /\ t = SendNew(g, 1)
  BY DEF DuplicateAck
<1> HIDE DEF d
<1>4. Ready(d, R, la, ms) /\ SamePackets(s, d) /\ RecoveryInv(d, la, ms)
  <2>1. Ready(d, R, la, ms) /\ SamePackets(s, d)
    BY <1>2, ReadyCwnd
  <2>2. QED
    BY <1>2, <2>1 DEF RecoveryInv, InRecovery, Frame
<1>5. CASE t = MultiRecover(d)
  BY <1>2, <1>4, <1>5, MultiRecoverStep, FrameTrans
<1>6. CASE t = TripleDuplicate(d)
  BY <1>2, <1>4, <1>6, TripleDuplicateStep, FrameTrans
<1>7. CASE t = SendNew(g, 1)
  <2>1. g \in SenderType /\ SameBuffer(d, g) /\ Frame(d, g)
    <3>1. GrowCwnd(d) \in SenderType /\ SameBuffer(d, GrowCwnd(d)) /\ Frame(d, GrowCwnd(d))
      BY <1>2, GrowCwndFrame
    <3>2. SameBuffer(d, d) /\ Frame(d, d)
      BY DEF SameBuffer, Frame, Fixed
    <3>3. QED
      BY <1>2, <3>1, <3>2
  <2> HIDE DEF g
  <2>2. Ready(g, R, la, ms) /\ SamePackets(d, g)
    BY <1>4, <2>1, ReadyCwnd
  <2>3. t \in SenderType /\ ReadyGrown(t, R, la, ms) /\ Frame(g, t) /\ SamePackets(g, t)
    BY <1>7, <2>2, ReadySend
  <2>4. Frame(s, t) /\ SamePackets(s, t)
    BY <1>2, <1>4, <2>1, <2>2, <2>3, FrameTrans
  <2>5. ReadyRecovering(t, R, la, ms)
    BY <2>3, <2>4, RecoveringGrown DEF Frame
  <2>6. QED
    BY <2>3, <2>4, <2>5, FrameTrans
<1>8. QED
  BY <1>3, <1>5, <1>6, <1>7

(***************************************************************************)
(* One acknowledgement, for position pos and caused by packet o.           *)
(***************************************************************************)
\* What ackRecv keeps and moves.
Answered(s, t, R, la, ms, pos, o) ==
  /\ t \in SenderType /\ Fixed(s, t)
  /\ \E la2, ms2 \in Int :
       /\ la <= la2 /\ (la2 = la \/ la2 = pos) /\ ms <= ms2
       /\ SenderInv(t, R, la2, ms2) /\ OutInv(t.out, la2, ms2) /\ AckedPackets(s, t, la2, pos, o)

\* What the parts of ackRecv keep makes what ackRecv keeps.
LEMMA AnsweredBy ==
  ASSUME NEW s, NEW R, NEW la \in Int, NEW ms \in Int, NEW pos, NEW o, NEW la2 \in Int,
         la <= la2, la2 = la \/ la2 = pos,
         NEW a, Fixed(s, a), AckedPackets(s, a, la2, pos, o),
         NEW t \in SenderType, Fixed(a, t), SamePackets(a, t), ReadyRecovering(t, R, la2, ms)
  PROVE  Answered(s, t, R, la, ms, pos, o)
<1>1. PICK m \in Nat : Ready(t, R, la2, ms + m) /\ RecoveryInv(t, la2, ms + m)
  BY DEF ReadyRecovering
<1>2. SenderInv(t, R, la2, ms + m) /\ OutInv(t.out, la2, ms + m)
  BY <1>1 DEF SenderInv, Ready
<1>3. AckedPackets(s, t, la2, pos, o)
  <2>1. \A q \in SeqNo : t.buf[q].pkt = a.buf[q].pkt
    BY DEF SamePackets
  <2>2. \A i \in Int : i % SeqCnt \in SeqNo
    BY Residue
  <2>3. \A q \in SeqNo : Held(t, q) <=> Held(a, q)
    BY <2>1 DEF Held
  <2>4. QED
    BY <2>1, <2>2, <2>3 DEF AckedPackets
<1>4. Fixed(s, t)
  BY FrameTrans
<1>5. ms + m \in Int /\ ms <= ms + m
  OBVIOUS
<1>6. QED
  BY <1>2, <1>3, <1>4, <1>5 DEF Answered

\* ackRecv keeps what is said of the sender, for an acknowledgement of arrived packets.
LEMMA ProcessAckStep ==
  ASSUME NEW s0 \in SenderType, NEW R, NEW la, NEW ms, SenderInv(s0, R, la, ms), s0.out = <<>>,
         R \subseteq 0 .. ms, 0 .. la \subseteq R,
         NEW ack, NEW pos \in Int, NEW o \in Int, ack.ackNo = pos % SeqCnt, ack.orig = o % SeqCnt,
         pos <= ms, la - pos < Half, 0 .. pos \subseteq R,
         o \in R, pos - Half < o, o <= pos + Half, o # pos + 1, la <= pos => HeadInv(s0, pos),
         NEW t, t = ProcessAck(s0, ack)
  PROVE  Answered(s0, t, R, la, ms, pos, o)
<1> DEFINE s == [s0 EXCEPT !.senderWindow = SeqCnt \div 2]
           n == Dist(ack.ackNo, s.lastAcked)
           v == Sack(s, ack)
           a == Advance(v, n)
<1>1. s \in SenderType /\ SameBuffer(s0, s) /\ Frame(s0, s)
  <2>1. SeqCnt \div 2 \in Nat
    BY SpaceFacts
  <2>2. QED
    BY <2>1 DEF SenderType, SameBuffer, Frame, Fixed
<1>2. \/ (~s.bufStarted \/ n > SeqCnt \div 2) /\ t = s
      \/ /\ ~(n > SeqCnt \div 2) /\ n > 0 /\ t = PartialAck(v, n)
         /\ InRecovery(s) /\ n < s.recover
      \/ /\ ~(n > SeqCnt \div 2) /\ n > 0 /\ t = NewAck(v, n)
      \/ /\ ~(n > SeqCnt \div 2) /\ ~(n > 0) /\ s.lastAcked # s.maxSent /\ t = DuplicateAck(v)
      \/ /\ ~(n > SeqCnt \div 2) /\ ~(n > 0) /\ s.lastAcked = s.maxSent /\ t = v
  BY DEF ProcessAck, InRecovery
<1> HIDE DEF s
<1>3. BufferInv(s0, R, la, ms) /\ HeadInv(s0, la) /\ RecoveryInv(s0, la, ms) /\ OutInv(s0.out, la, ms)
  BY DEF SenderInv, OutInv
<1>4. Ready(s, R, la, ms) /\ SamePackets(s0, s) /\ RecoveryInv(s, la, ms) /\ s.out = <<>>
  <2>1. Ready(s0, R, la, ms)
    BY <1>3 DEF Ready
  <2>2. Ready(s, R, la, ms) /\ SamePackets(s0, s)
    BY <1>1, <2>1, ReadyCwnd
  <2>3. RecoveryInv(s, la, ms) /\ s.out = <<>>
    BY <1>1, <1>3 DEF RecoveryInv, InRecovery, Frame, SameBuffer
  <2>4. QED
    BY <2>2, <2>3
<1>5. /\ s.total \in Nat /\ la \in Int /\ ms \in Int
      /\ -1 <= la /\ la <= ms /\ ms < s.total /\ s.total - 1 <= la + Half
      /\ s.lastAcked = la % SeqCnt /\ s.maxSent = ms % SeqCnt
  BY <1>4, ReadyNumbers
<1>6. /\ la <= pos => n = pos - la
      /\ pos < la => n = pos - la + SeqCnt
  <2>1. n = Dist(pos % SeqCnt, la % SeqCnt)
    BY <1>5
  <2> HIDE DEF n
  <2>5. pos \in Int /\ pos <= ms /\ la - pos < Half
    OBVIOUS
  <2>6. s.total \in Int /\ la \in Int /\ ms \in Int /\ ms < s.total /\ s.total - 1 <= la + Half
    BY ONLY <1>5
  <2>2. la <= pos => pos < la + SeqCnt
    BY ONLY <2>5, <2>6, HalfFacts
  <2>3. pos < la => la <= pos + SeqCnt
    BY ONLY <2>5, <2>6, HalfFacts
  <2>4. QED
    BY <1>5, <2>1, <2>2, <2>3, DistNear
<1> HIDE DEF n
<1>7. Fixed(s0, s) /\ \A q \in SeqNo : s.buf[q].pkt = s0.buf[q].pkt /\ (Held(s, q) <=> Held(s0, q))
  BY <1>1, <1>4 DEF Frame, SamePackets, Held
<1>8. \A u, l : AckedPackets(s, u, l, pos, o) => AckedPackets(s0, u, l, pos, o)
  <2>1. \A i \in Int : i % SeqCnt \in SeqNo
    BY Residue
  <2>2. s.total = s0.total
    BY <1>7 DEF Fixed
  <2>3. QED
    BY <1>7, <2>1, <2>2 DEF AckedPackets
<1>9. ~(n > SeqCnt \div 2) => la <= pos
  <2>1. SeqCnt \div 2 = Half
    BY SpaceFacts
  <2>2. pos < la => pos - la + SeqCnt > Half
    BY <1>5, HalfFacts
  <2>3. QED
    BY <1>5, <1>6, <2>1, <2>2
<1>10. CASE t = s
  <2>1. AckedPackets(s, s, la, pos, o)
    BY DEF AckedPackets
  <2>2. ReadyRecovering(t, R, la, ms) /\ Fixed(s, t) /\ SamePackets(s, t) /\ t \in SenderType
    BY <1>1, <1>4, <1>10, NotGrown DEF Fixed, SamePackets
  <2>3. QED
    BY <1>5, <1>7, <1>8, <2>1, <2>2, AnsweredBy
<1>11. CASE ~(n > SeqCnt \div 2) /\ n > 0 /\ ((t = PartialAck(v, n) /\ InRecovery(s) /\ n < s.recover) \/ t = NewAck(v, n))
  <2>1. la < pos /\ n = pos - la /\ n \in Nat /\ la <= pos
    BY <1>5, <1>6, <1>9, <1>11
  <2>2. HeadInv(s, pos)
    BY <1>4, <1>7, <2>1, SameHead
  <2>3. a = Advance(Sack(s, ack), pos - la)
    BY <2>1
  <2> HIDE DEF a
  <2>4. /\ Ready(a, R, pos, ms) /\ Fixed(s, a) /\ SameRecovery(s, a)
        /\ AckedPackets(s, a, pos, pos, o)
    BY <1>4, <2>1, <2>2, <2>3, AdvanceReady
  <2>5. t \in SenderType /\ Fixed(a, t) /\ SamePackets(a, t) /\ ReadyRecovering(t, R, pos, ms)
    <3>1. a = Advance(v, n)
      BY DEF a
    <3> HIDE DEF v
    <3>2. CASE t = NewAck(v, n)
      BY <2>1, <2>4, <3>1, <3>2, NewAckStep
    <3>3. CASE t = PartialAck(v, n) /\ InRecovery(s) /\ n < s.recover
      <4>1. InRecovery(a) /\ n < a.recover
        BY <2>4, <3>3 DEF InRecovery, SameRecovery
      <4>2. a.recover <= ms - pos + n
        <5>1. s.recover <= ms - la
          BY <1>4, <3>3 DEF RecoveryInv
        <5>2. ms - pos + n = ms - la
          BY <1>5, <2>1
        <5>3. QED
          BY <2>4, <5>1, <5>2 DEF SameRecovery
      <4>3. n > 0
        BY <1>11
      <4>4. QED
        BY <2>1, <2>4, <3>1, <3>3, <4>1, <4>2, <4>3, PartialAckStep
    <3>4. QED
      BY <1>11, <3>2, <3>3 DEF v
  <2>6. Fixed(s0, a) /\ AckedPackets(s0, a, pos, pos, o)
    BY <1>7, <1>8, <2>4, FrameTrans
  <2>7. QED
    BY <1>5, <2>1, <2>5, <2>6, AnsweredBy
<1>12. CASE ~(n > SeqCnt \div 2) /\ ~(n > 0) /\ ((s.lastAcked # s.maxSent /\ t = DuplicateAck(v)) \/ t = v)
  <2>1. pos = la
    BY <1>5, <1>6, <1>9, <1>12
  <2>2. v = Sack(s, ack)
    OBVIOUS
  <2> HIDE DEF v
  <2>3. Ready(v, R, la, ms) /\ Frame(s, v) /\ AckedPackets(s, v, la, la, o)
    BY <1>4, <2>1, <2>2, SackReady
  <2>4. RecoveryInv(v, la, ms)
    BY <1>4, <2>3 DEF RecoveryInv, InRecovery, Frame
  <2>5. t \in SenderType /\ Fixed(v, t) /\ SamePackets(v, t) /\ ReadyRecovering(t, R, la, ms)
    <3>1. CASE t = v
      BY <2>3, <2>4, <3>1, NotGrown DEF Ready, Fixed, SamePackets
    <3>2. CASE s.lastAcked # s.maxSent /\ t = DuplicateAck(v)
      <4>1. la < ms
        BY <1>5, <3>2
      <4>2. QED
        BY <2>3, <2>4, <3>2, <4>1, DuplicateAckStep
    <3>3. QED
      BY <1>12, <3>1, <3>2
  <2>6. Fixed(s0, v) /\ AckedPackets(s0, v, la, pos, o)
    BY <1>7, <1>8, <2>1, <2>3, FrameTrans
  <2>7. QED
    BY <1>5, <2>1, <2>5, <2>6, AnsweredBy
<1>13. QED
  BY <1>2, <1>10, <1>11, <1>12

(***************************************************************************)
(* getUndeliveredPackets.                                                  *)
(***************************************************************************)
\* The packets in the slots.
HeldPackets(s) == {s.buf[q].pkt.id : q \in {x \in SeqNo : Held(s, x)}}

\* Everything went back to the scheduler.
Returned(s, t) ==
  /\ t.drained /\ t.undelivered = s.undelivered \cup HeldPackets(s)
  /\ t.maxPacket = s.maxPacket /\ t.total = s.total /\ t.deadChannel = s.deadChannel
  /\ t.up = s.up /\ t.started = s.started /\ t.shutDownSent = s.shutDownSent
  /\ t.out = s.out /\ t.status = s.status /\ t.recover = s.recover
  /\ \A q \in SeqNo : ~Held(t, q)

\* getUndeliveredPackets empties every slot and gives all packets back.
LEMMA GetUndeliveredStep ==
  ASSUME NEW s \in SenderType, NEW R, NEW la, NEW ms, BufferInv(s, R, la, ms), 0 .. la \subseteq R,
         ~s.drained, s.deadChannel, NEW t, t = GetUndelivered(s)
  PROVE  t \in SenderType /\ Returned(s, t) /\ BufferInv(t, R, la, ms)
<1> DEFINE held == {Plus(s.lastAcked, k) : k \in 1 .. Outstanding(s)}
           full == {q \in held : s.buf[q].pkt # Null}
           ids == {s.buf[q].pkt.id : q \in full}
           u == Free(s, held)
<1>1. /\ WindowInv(s, la, ms) /\ (\A q \in SeqNo : SlotInv(s, la, ms, q))
      /\ TimerInv(s) /\ GapInv(s, R, la, ms) /\ DeathInv(s, R)
  BY DEF BufferInv
<1>2. /\ s.total \in Nat /\ la \in Int /\ ms \in Int /\ Outstanding(s) = s.total - 1 - la
      /\ -1 <= la /\ la <= ms /\ ms < s.total /\ s.total - 1 <= la + Half
  BY <1>1, WindowFacts
<1>3. s.lastAcked = la % SeqCnt
  BY <1>1 DEF WindowInv
<1>4. \A k \in Int : Plus(s.lastAcked, k) = (la + k) % SeqCnt /\ (la + k) % SeqCnt \in SeqNo
  <2>1. SUFFICES ASSUME NEW k \in Int
                 PROVE  Plus(s.lastAcked, k) = (la + k) % SeqCnt /\ (la + k) % SeqCnt \in SeqNo
    OBVIOUS
  <2>2. la + k \in Int
    BY <1>2
  <2>3. QED
    BY <1>2, <1>3, <2>2, PlusOfResidue, Residue
<1>5. held \in SUBSET SeqNo
  BY <1>4
<1>6. ASSUME NEW q \in SeqNo, Held(s, q) PROVE q \in held
  <2> DEFINE k == s.buf[q].pkt.id - la
  <2>1. /\ s.buf[q].pkt.id \in Int /\ la < s.buf[q].pkt.id /\ s.buf[q].pkt.id < s.total
        /\ q = s.buf[q].pkt.id % SeqCnt
    BY <1>1, <1>6, BufFacts DEF SlotInv
  <2>2. k \in 1 .. Outstanding(s) /\ k \in Int /\ la + k = s.buf[q].pkt.id
    BY <1>2, <2>1
  <2> HIDE DEF k
  <2>3. q = Plus(s.lastAcked, k)
    BY <1>4, <2>1, <2>2
  <2>4. QED
    BY <2>2, <2>3
<1>7. ids = HeldPackets(s)
  BY <1>5, <1>6 DEF Held, HeldPackets
<1>8. ids \in SUBSET PacketId
  BY <1>5, BufFacts DEF Held
<1>9. \A q \in SeqNo : ~Held(s, q) => ~s.buf[q].pktSent
  BY <1>1 DEF SlotInv
<1>10. t = [u EXCEPT !.timerList = {}, !.undelivered = u.undelivered \cup ids, !.drained = TRUE]
  BY DEF GetUndelivered
<1> HIDE DEF held, full, ids, u
<1>11. /\ u \in SenderType /\ Frame(s, u) /\ u.maxSent = s.maxSent
       /\ u.sendSeqLock = s.sendSeqLock /\ u.out = s.out /\ Freed(s, u, held) /\ TimerInv(u)
  BY <1>1, <1>5, <1>9, FreeSlots DEF u
<1>12. u.undelivered \cup ids \in SUBSET PacketId
  BY <1>8, <1>11 DEF SenderType
<1>13. t \in SenderType
  BY <1>10, <1>11, <1>12, ZenonT(60) DEF SenderType
<1>14. /\ t.timerList = {} /\ t.undelivered = u.undelivered \cup ids /\ t.drained
       /\ t.maxPacket = u.maxPacket /\ t.total = u.total /\ t.deadChannel = u.deadChannel
       /\ t.up = u.up /\ t.started = u.started /\ t.shutDownSent = u.shutDownSent
       /\ t.out = u.out /\ t.status = u.status /\ t.recover = u.recover
       /\ t.lastAcked = u.lastAcked /\ t.maxSent = u.maxSent /\ t.buf = u.buf
  BY <1>10, <1>11 DEF SenderType
<1>15. \A q \in SeqNo : ~Held(t, q) /\ ~t.buf[q].pktSent
  <2>1. ASSUME NEW q \in SeqNo PROVE ~Held(u, q)
    BY <1>6, <1>11 DEF Freed
  <2>2. \A q \in SeqNo : ~Held(u, q) => ~u.buf[q].pktSent
    <3>1. ASSUME NEW q \in SeqNo, ~Held(u, q) PROVE ~u.buf[q].pktSent
      <4>1. CASE q \in held
        BY <1>11, <4>1 DEF Freed
      <4>2. CASE q \notin held
        BY <1>6, <1>9, <1>11, <4>2 DEF Freed
      <4>3. QED
        BY <4>1, <4>2
    <3>2. QED
      BY <3>1
  <2>3. QED
    BY <1>14, <2>1, <2>2 DEF Held
<1>16. Returned(s, t)
  <2>1. /\ u.maxPacket = s.maxPacket /\ u.total = s.total /\ u.undelivered = s.undelivered
        /\ u.deadChannel = s.deadChannel /\ u.up = s.up /\ u.started = s.started
        /\ u.shutDownSent = s.shutDownSent /\ u.status = s.status /\ u.recover = s.recover
    BY <1>11 DEF Frame, Fixed
  <2>2. t.undelivered = s.undelivered \cup HeldPackets(s)
    BY <1>7, <1>14, <2>1
  <2>3. QED
    BY <1>11, <1>14, <1>15, <2>1, <2>2 DEF Returned
<1>17. BufferInv(t, R, la, ms)
  <2>1. WindowInv(t, la, ms)
    <3>1. t.total = s.total /\ t.maxPacket = s.maxPacket
      BY <1>16 DEF Returned
    <3>2. t.lastAcked = s.lastAcked /\ t.maxSent = s.maxSent
      BY <1>11, <1>14 DEF Frame
    <3>3. QED
      BY <1>1, <3>1, <3>2 DEF WindowInv
  <2>2. \A q \in SeqNo : SlotInv(t, la, ms, q)
    BY <1>15 DEF SlotInv
  <2>3. TimerInv(t) /\ GapInv(t, R, la, ms)
    BY <1>14, <1>15 DEF TimerInv, GapInv
  <2>4. DeathInv(t, R)
    <3>1. ASSUME NEW i \in Int, 0 <= i, i < t.total PROVE i \in R \/ i \in t.undelivered
      <4>1. i < s.total
        BY <1>16, <3>1 DEF Returned
      <4>2. CASE i <= la
        BY <1>2, <3>1, <4>2
      <4>3. CASE la < i /\ ~Held(s, i % SeqCnt)
        BY <1>1, <4>1, <4>3 DEF GapInv
      <4>4. CASE la < i /\ Held(s, i % SeqCnt)
        <5>1. s.total - 1 - SeqCnt < i /\ i < la + 1 + SeqCnt
          BY <1>2, <4>1, <4>4, SpaceFacts
        <5>2. s.buf[i % SeqCnt].pkt.id = i /\ i % SeqCnt \in SeqNo
          BY <1>1, <4>4, <5>1, SlotOf
        <5>3. i \in HeldPackets(s)
          BY <4>4, <5>2 DEF HeldPackets
        <5>4. QED
          BY <1>16, <5>3 DEF Returned
      <4>5. QED
        BY <1>2, <4>2, <4>3, <4>4
    <3>2. t.drained /\ t.deadChannel
      BY <1>16 DEF Returned
    <3>3. QED
      BY <1>15, <3>1, <3>2 DEF DeathInv
  <2>5. QED
    BY <2>1, <2>2, <2>3, <2>4 DEF BufferInv
<1>18. QED
  BY <1>13, <1>16, <1>17

(***************************************************************************)
(* The order in which timers run out: every slot of Q once.                *)
(***************************************************************************)
\* The rank of a slot in the order of sending.
Rank(s, Q, q) == Cardinality({r \in Q : Dist(r, s.lastAcked) <= Dist(q, s.lastAcked)})

\* Every slot of Q has a rank of its own,
LEMMA RankFacts ==
  ASSUME NEW s \in SenderType, NEW Q \in SUBSET SeqNo
  PROVE  /\ IsFiniteSet(Q) /\ Cardinality(Q) \in Nat
         /\ \A q \in Q : Rank(s, Q, q) \in 1 .. Cardinality(Q)
         /\ \A q, x \in Q : Rank(s, Q, q) = Rank(s, Q, x) => q = x
<1> DEFINE D(q) == Dist(q, s.lastAcked)
           upto(q) == {r \in Q : D(r) <= D(q)}
<1>1. IsFiniteSet(Q) /\ Cardinality(Q) \in Nat
  <2>1. IsFiniteSet(SeqNo)
    BY SeqCntFacts, FS_Interval DEF SeqNo
  <2>2. QED
    BY <2>1, FS_Subset, FS_CardinalityType
<1>2. s.lastAcked \in SeqNo
  BY DEF SenderType
<1>3. \A q \in Q : D(q) \in Int
  BY <1>2, DistSound, SeqCntFacts DEF SeqNo
<1>4. \A q, x \in Q : D(q) = D(x) => q = x
  BY <1>2, DistSound
<1> HIDE DEF D
<1>5. ASSUME NEW q \in Q
      PROVE  /\ IsFiniteSet(upto(q)) /\ Cardinality(upto(q)) \in 1 .. Cardinality(Q)
  <2>1. upto(q) \in SUBSET Q /\ q \in upto(q)
    BY <1>3
  <2>2. IsFiniteSet(upto(q)) /\ Cardinality(upto(q)) <= Cardinality(Q)
    BY <1>1, <2>1, FS_Subset
  <2>3. Cardinality(upto(q)) \in Nat /\ Cardinality(upto(q)) # 0
    BY <2>1, <2>2, FS_CardinalityType, FS_EmptySet
  <2>4. QED
    BY <1>1, <2>2, <2>3
<1>6. ASSUME NEW q \in Q, NEW x \in Q, Cardinality(upto(q)) = Cardinality(upto(x)), D(q) <= D(x)
      PROVE  q = x
  <2>1. upto(q) \in SUBSET upto(x)
    BY <1>3, <1>6
  <2>2. upto(q) = upto(x)
    BY <1>5, <1>6, <2>1, FS_Subset
  <2>3. x \in upto(q)
    BY <1>3, <2>2
  <2>4. D(q) = D(x)
    BY <1>3, <1>6, <2>3
  <2>5. QED
    BY <1>4, <2>4
<1>7. ASSUME NEW q \in Q, NEW x \in Q, Cardinality(upto(q)) = Cardinality(upto(x)) PROVE q = x
  <2>1. D(q) <= D(x) \/ D(x) <= D(q)
    BY <1>3
  <2>2. QED
    BY <1>6, <1>7, <2>1
<1>8. \A q \in Q : Rank(s, Q, q) = Cardinality(upto(q))
  BY DEF Rank, D
<1> HIDE DEF upto
<1>9. QED
  BY <1>1, <1>5, <1>7, <1>8

\* ... so that InOrder lists each of them once.
LEMMA InOrderFacts ==
  ASSUME NEW s \in SenderType, NEW Q \in SUBSET SeqNo, NEW seqs, seqs = InOrder(s, Q)
  PROVE  seqs \in Seq(SeqNo) /\ ToSet(seqs) = Q /\ Len(seqs) = Cardinality(Q)
<1> DEFINE n == Cardinality(Q)
           rank == [q \in Q |-> Rank(s, Q, q)]
<1>1. /\ IsFiniteSet(Q) /\ n \in Nat
      /\ \A q \in Q : Rank(s, Q, q) \in 1 .. n
      /\ \A q, x \in Q : Rank(s, Q, q) = Rank(s, Q, x) => q = x
  BY RankFacts
<1>2. seqs = [k \in 1 .. n |-> CHOOSE q \in Q : k = Rank(s, Q, q)]
  BY DEF InOrder, Rank
<1> HIDE DEF n
<1>3. rank \in Injection(Q, 1 .. n)
  BY <1>1 DEF Injection, IsInjective
<1>4. IsFiniteSet(1 .. n) /\ Cardinality(1 .. n) = n
  <2>1. IsFiniteSet(1 .. n) /\ Cardinality(1 .. n) = IF 1 > n THEN 0 ELSE n - 1 + 1
    BY <1>1, FS_Interval
  <2>2. QED
    BY <1>1, <2>1
<1>5. rank \in Surjection(Q, 1 .. n)
  BY <1>3, <1>4, FS_Injection DEF n
<1>6. \A k \in 1 .. n : \E q \in Q : k = Rank(s, Q, q)
  BY <1>5 DEF Surjection
<1>7. \A k \in 1 .. n : seqs[k] \in Q /\ k = Rank(s, Q, seqs[k])
  <2>1. SUFFICES ASSUME NEW k \in 1 .. n PROVE seqs[k] \in Q /\ k = Rank(s, Q, seqs[k])
    OBVIOUS
  <2>2. seqs[k] = CHOOSE q \in Q : k = Rank(s, Q, q)
    BY <1>2
  <2>3. QED
    BY <1>6, <2>2
<1>8. \A q \in Q : Rank(s, Q, q) \in 1 .. n /\ seqs[Rank(s, Q, q)] = q
  BY <1>1, <1>7
<1>9. seqs \in Seq(SeqNo) /\ Len(seqs) = n /\ DOMAIN seqs = 1 .. n
  BY <1>1, <1>2, <1>7
<1>10. ToSet(seqs) = Q
  BY <1>7, <1>8, <1>9 DEF ToSet
<1>11. QED
  BY <1>9, <1>10 DEF n

(***************************************************************************)
(* timeoutEvent.                                                           *)
(***************************************************************************)
LEMMA ResendStep ==
  ASSUME NEW s \in SenderType, NEW R, NEW la, NEW ms, BufferInv(s, R, la, ms), OutInv(s.out, la, ms),
         ~s.drained, NEW Q \in SUBSET SeqNo, Q \subseteq s.timerList,
         NEW t, t = ResendExpired(s, Q)
  PROVE  /\ t \in SenderType /\ Frame(s, t) /\ SamePackets(s, t)
         /\ BufferInv(t, R, la, ms) /\ OutInv(t.out, la, ms)
<1>0. ASSUME Q = {} PROVE t = s
  BY <1>0 DEF ResendExpired
<1>00. CASE Q = {}
  <2>1. t = s
    BY <1>0, <1>00
  <2>2. Frame(s, s) /\ SamePackets(s, s)
    BY DEF Frame, Fixed, SamePackets
  <2>3. QED
    BY <2>1, <2>2
<1>01. CASE Q # {}
  <2> DEFINE seqs == InOrder(s, Q)
             v == [s EXCEPT !.timerList = s.timerList \ Q]
             u == SendSeqs(v, seqs)
             half == IF s.cwnd \div (2 * CwndUnit) < 2 THEN 2 ELSE s.cwnd \div (2 * CwndUnit)
             buf == [q \in SeqNo |->
                        IF q \in Q THEN [u.buf[q] EXCEPT !.retryCnt = (u.buf[q].retryCnt + 1) % 16]
                        ELSE u.buf[q]]
  <2>1. /\ WindowInv(s, la, ms) /\ (\A r \in SeqNo : SlotInv(s, la, ms, r))
        /\ TimerInv(s) /\ GapInv(s, R, la, ms) /\ DeathInv(s, R)
    BY DEF BufferInv
  <2>2. ms \in Int /\ la \in Int
    BY <2>1, WindowFacts
  <2>3. s.sendSeqLock = "free" /\ \A q \in Q : Held(s, q) /\ s.buf[q].pktSent
    BY <2>1 DEF DeathInv, TimerInv
  <2>4. seqs \in Seq(SeqNo) /\ ToSet(seqs) = Q
    BY InOrderFacts
  <2>5. \A j \in 1 .. Len(seqs) : seqs[j] \in Q
    BY <2>4 DEF ToSet
  <2>6. v \in SenderType
    BY DEF SenderType
  <2>7. /\ v.buf = s.buf /\ v.timerList = s.timerList \ Q /\ v.out = s.out /\ v.maxSent = s.maxSent
        /\ v.sendSeqLock = s.sendSeqLock /\ Frame(s, v)
    BY DEF SenderType, Frame, Fixed
  <2>8. t = [u EXCEPT !.buf = buf, !.ssthresh = half, !.cwnd = CwndUnit]
    BY <1>01 DEF ResendExpired
  <2>9. half \in Nat
    <3>1. s.cwnd \in Nat
      <4>1. s.cwnd \in CwndUnit .. CwndUnit * Half /\ CwndUnit * Half \in Int
        BY SpaceFacts DEF SenderType
      <4>2. QED
        BY <4>1, SpaceFacts
    <3>2. 2 * CwndUnit \in Nat /\ 2 * CwndUnit > 0
      BY SpaceFacts
    <3>3. s.cwnd \div (2 * CwndUnit) \in Nat
      BY <3>1, <3>2, DivInt
    <3>4. QED
      BY <3>3
  <2>10. CwndUnit \in CwndUnit .. CwndUnit * Half
    <3>1. CwndUnit <= CwndUnit * Half /\ CwndUnit * Half \in Int
      BY SpaceFacts
    <3>2. QED
      BY <3>1, SpaceFacts
  <2>11. u = SendSeqs(v, seqs)
    OBVIOUS
  <2> HIDE DEF seqs, v, u, half
  <2>12. \A j \in 1 .. Len(seqs) : Held(v, seqs[j])
    BY <2>3, <2>5, <2>7 DEF Held
  <2>13. v.sendSeqLock = "free"
    BY <2>3, <2>7
  <2>14. /\ u \in SenderType /\ Frame(v, u) /\ u.maxSent = v.maxSent /\ u.sendSeqLock = "free"
         /\ ((\A r \in ToSet(seqs) : v.buf[r].pktSent) => u.buf = v.buf)
         /\ u.timerList = v.timerList \cup ToSet(seqs) /\ Sends(v, u, seqs)
    BY <2>4, <2>6, <2>11, <2>12, <2>13, SendSeqsFull
  <2>15. u.buf = s.buf /\ u.timerList = s.timerList
    BY <2>3, <2>4, <2>7, <2>14
  <2>16. Frame(s, u) /\ u.maxSent = s.maxSent
    BY <2>7, <2>14 DEF Frame, Fixed
  <2>17. \A q \in SeqNo : /\ buf[q] \in SlotType /\ buf[q].pkt = s.buf[q].pkt
                          /\ buf[q].pktSent = s.buf[q].pktSent
    <3>1. SUFFICES ASSUME NEW q \in SeqNo
                   PROVE /\ buf[q] \in SlotType /\ buf[q].pkt = s.buf[q].pkt
                         /\ buf[q].pktSent = s.buf[q].pktSent
      OBVIOUS
    <3>2. s.buf[q] \in SlotType
      BY BufFacts
    <3> DEFINE c == (s.buf[q].retryCnt + 1) % 16
    <3>3. s.buf[q].retryCnt \in Int
      BY <3>2 DEF SlotType
    <3>4. c \in 0 .. 15
      BY <3>3
    <3>5. buf[q] = IF q \in Q THEN [s.buf[q] EXCEPT !.retryCnt = c] ELSE s.buf[q]
      BY <2>15
    <3> HIDE DEF c, buf
    <3>6. /\ [s.buf[q] EXCEPT !.retryCnt = c] \in SlotType
          /\ [s.buf[q] EXCEPT !.retryCnt = c].pkt = s.buf[q].pkt
          /\ [s.buf[q] EXCEPT !.retryCnt = c].pktSent = s.buf[q].pktSent
      BY <3>2, <3>4, SlotFacts
    <3>7. CASE q \in Q
      BY <3>5, <3>6, <3>7
    <3>8. CASE q \notin Q
      BY <3>2, <3>5, <3>8
    <3>9. QED
      BY <3>7, <3>8
  <2>18. buf \in [SeqNo -> SlotType]
    BY <2>17
  <2> HIDE DEF buf
  <2>19. t \in SenderType
    BY <2>8, <2>9, <2>10, <2>14, <2>18, ZenonT(60) DEF SenderType
  <2>20. /\ t.buf = buf /\ t.timerList = u.timerList /\ t.out = u.out /\ t.maxSent = u.maxSent
         /\ t.sendSeqLock = u.sendSeqLock /\ Frame(u, t)
    BY <2>8, <2>14 DEF SenderType, Frame, Fixed
  <2>21. Frame(s, t)
    BY <2>16, <2>20, FrameTrans
  <2>22. /\ t.maxPacket = s.maxPacket /\ t.total = s.total /\ t.undelivered = s.undelivered
         /\ t.drained = s.drained /\ t.deadChannel = s.deadChannel /\ t.lastAcked = s.lastAcked
         /\ t.maxSent = s.maxSent /\ t.timerList = s.timerList /\ t.sendSeqLock = "free"
    BY <2>14, <2>15, <2>16, <2>20, <2>21 DEF Frame, Fixed
  <2>23. \A q \in SeqNo : /\ t.buf[q].pkt = s.buf[q].pkt /\ t.buf[q].pktSent = s.buf[q].pktSent
                          /\ (Held(t, q) <=> Held(s, q))
    BY <2>17, <2>20 DEF Held
  <2>24. BufferInv(t, R, la, ms)
    <3>1. WindowInv(t, la, ms)
      BY <2>1, <2>22 DEF WindowInv
    <3>2. \A r \in SeqNo : SlotInv(t, la, ms, r)
      BY <2>1, <2>22, <2>23 DEF SlotInv
    <3>3. TimerInv(t)
      BY <2>1, <2>22, <2>23 DEF TimerInv
    <3>4. GapInv(t, R, la, ms)
      BY <2>1, <2>22, <2>23, Residue DEF GapInv
    <3>5. DeathInv(t, R)
      BY <2>1, <2>22, <2>23 DEF DeathInv
    <3>6. QED
      BY <3>1, <3>2, <3>3, <3>4, <3>5 DEF BufferInv
  <2>25. OutInv(t.out, la, ms)
    <3>1. PICK new \in Seq(Message) :
             /\ Len(new) = Len(seqs) /\ u.out = v.out \o new
             /\ \A j \in 1 .. Len(seqs) : /\ new[j].type = "DAT" /\ new[j].seq = seqs[j]
                                          /\ new[j].pkt = v.buf[seqs[j]].pkt
      BY <2>14 DEF Sends
    <3>3. ASSUME NEW j \in DOMAIN new
          PROVE  /\ new[j].type = "DAT" /\ la < new[j].pkt.id /\ new[j].pkt.id <= ms + 0
                 /\ new[j].seq = new[j].pkt.id % SeqCnt /\ (new[j].pkt.chf => Closers # {})
      <4> DEFINE q == seqs[j]
      <4>1. j \in 1 .. Len(seqs) /\ q \in Q
        BY <2>5, <3>1
      <4>2. new[j].type = "DAT" /\ new[j].seq = q /\ new[j].pkt = s.buf[q].pkt
        BY <2>7, <3>1, <4>1
      <4>3. ms + 0 = ms
        BY <2>2
      <4>4. SlotInv(s, la, ms, q) /\ Held(s, q) /\ s.buf[q].pktSent
        BY <2>1, <2>3, <4>1
      <4> HIDE DEF q
      <4>5. QED
        BY <4>2, <4>3, <4>4 DEF SlotInv
    <3>4. OutInv(new, la, ms + 0)
      BY <3>3 DEF OutInv
    <3>5. s.out \in Seq(Message) /\ ms + 0 = ms
      BY <2>2 DEF SenderType
    <3>6. OutInv(s.out \o new, la, ms + 0)
      BY <2>2, <3>4, <3>5, OutAppend
    <3>7. QED
      BY <2>7, <2>20, <3>1, <3>5, <3>6
  <2>26. QED
    BY <2>19, <2>21, <2>23, <2>24, <2>25 DEF SamePackets
<1>2. QED
  BY <1>00, <1>01

-----------------------------------------------------------------------------
(***************************************************************************)
(* What is on the way between a sender and its receiver, and what each end *)
(* and the path do to it: the two queues and the path as sets with an      *)
(* order, the receiver, and the invariant Dir of one direction with the    *)
(* steps that keep it.                                                     *)
(***************************************************************************)
(***************************************************************************)
(* What is in a queue, and in which order.                                 *)
(***************************************************************************)
LEMMA InTyped ==
  ASSUME NEW S, NEW q \in Seq(S), NEW m, In(q, m)
  PROVE  m \in S
  BY DEF In

\* What is ahead of something is there.
LEMMA AheadIn ==
  ASSUME NEW q, NEW m, NEW x, Ahead(q, m, x)
  PROVE  In(q, m) /\ In(q, x)
  BY DEF In, Ahead

\* Nothing is in an empty queue.
LEMMA EmptyIn ==
  ASSUME NEW q, q = <<>>, NEW m, NEW x
  PROVE  ~In(q, m) /\ ~Ahead(q, m, x)
  BY DEF In, Ahead

\* Taking the first element.
LEMMA TailIn ==
  ASSUME NEW S, NEW q \in Seq(S), q # <<>>
  PROVE  /\ Tail(q) \in Seq(S) /\ Head(q) \in S /\ In(q, Head(q))
         /\ \A m : In(Tail(q), m) => In(q, m) /\ Ahead(q, Head(q), m)
         /\ \A m, x : Ahead(Tail(q), m, x) => Ahead(q, m, x)
<1>1. /\ Tail(q) \in Seq(S) /\ Head(q) \in S /\ Head(q) = q[1] /\ 1 \in DOMAIN q
      /\ \A i \in DOMAIN Tail(q) : i \in Int /\ 1 <= i /\ i + 1 \in DOMAIN q /\ Tail(q)[i] = q[i + 1]
  OBVIOUS
<1>2. In(q, Head(q))
  BY <1>1 DEF In
<1>3. ASSUME NEW m, In(Tail(q), m) PROVE In(q, m) /\ Ahead(q, Head(q), m)
  <2>1. PICK i \in DOMAIN Tail(q) : Tail(q)[i] = m
    BY <1>3 DEF In
  <2>2. i + 1 \in DOMAIN q /\ q[i + 1] = m /\ 1 < i + 1
    BY <1>1, <2>1
  <2>3. QED
    BY <1>1, <2>2 DEF In, Ahead
<1>4. ASSUME NEW m, NEW x, Ahead(Tail(q), m, x) PROVE Ahead(q, m, x)
  <2>1. PICK i, j \in DOMAIN Tail(q) : i < j /\ Tail(q)[i] = m /\ Tail(q)[j] = x
    BY <1>4 DEF Ahead
  <2>2. i + 1 \in DOMAIN q /\ j + 1 \in DOMAIN q /\ i + 1 < j + 1 /\ q[i + 1] = m /\ q[j + 1] = x
    BY <1>1, <2>1
  <2>3. QED
    BY <2>2 DEF Ahead
<1>5. QED
  BY <1>1, <1>2, <1>3, <1>4

\* Putting one queue behind another.
LEMMA ConcatIn ==
  ASSUME NEW S, NEW q \in Seq(S), NEW o \in Seq(S)
  PROVE  /\ q \o o \in Seq(S)
         /\ \A m : In(q \o o, m) => In(q, m) \/ In(o, m)
         /\ \A m, x : Ahead(q \o o, m, x) => Ahead(q, m, x) \/ (In(q, m) /\ In(o, x)) \/ Ahead(o, m, x)
<1> DEFINE c == q \o o
<1>1. /\ c \in Seq(S)
      /\ \A j \in DOMAIN c : \/ j \in DOMAIN q /\ c[j] = q[j]
                             \/ j - Len(q) \in DOMAIN o /\ c[j] = o[j - Len(q)]
  BY ConcatFacts
<1>2. /\ Len(q) \in Nat /\ (\A i \in DOMAIN q : i \in Int /\ 1 <= i /\ i <= Len(q))
      /\ \A i \in DOMAIN o : i \in Int /\ 1 <= i
      /\ \A i \in DOMAIN c : i \in Int
  OBVIOUS
<1> HIDE DEF c
<1>3. ASSUME NEW m, In(c, m) PROVE In(q, m) \/ In(o, m)
  BY <1>1, <1>3 DEF In
<1>4. ASSUME NEW m, NEW x, Ahead(c, m, x)
      PROVE  Ahead(q, m, x) \/ (In(q, m) /\ In(o, x)) \/ Ahead(o, m, x)
  <2>1. PICK i, j \in DOMAIN c : i < j /\ c[i] = m /\ c[j] = x
    BY <1>4 DEF Ahead
  <2>2. CASE i \in DOMAIN q /\ c[i] = q[i] /\ j \in DOMAIN q /\ c[j] = q[j]
    BY <2>1, <2>2 DEF Ahead
  <2>3. CASE i \in DOMAIN q /\ c[i] = q[i] /\ j - Len(q) \in DOMAIN o /\ c[j] = o[j - Len(q)]
    BY <2>1, <2>3 DEF In
  <2>4. CASE i - Len(q) \in DOMAIN o /\ c[i] = o[i - Len(q)] /\ j \in DOMAIN q /\ c[j] = q[j]
    BY <1>2, <2>1, <2>4
  <2>5. CASE i - Len(q) \in DOMAIN o /\ c[i] = o[i - Len(q)]
             /\ j - Len(q) \in DOMAIN o /\ c[j] = o[j - Len(q)]
    <3>1. i - Len(q) < j - Len(q)
      BY <1>2, <2>1
    <3>2. QED
      BY <2>1, <2>5, <3>1 DEF Ahead
  <2>6. QED
    BY <1>1, <2>1, <2>2, <2>3, <2>4, <2>5
<1>5. QED
  BY <1>1, <1>3, <1>4 DEF c

\* Putting an element behind a queue.
LEMMA AppendIn ==
  ASSUME NEW S, NEW q \in Seq(S), NEW y \in S
  PROVE  /\ Append(q, y) \in Seq(S)
         /\ \A m : In(Append(q, y), m) => In(q, m) \/ m = y
         /\ \A m, x : Ahead(Append(q, y), m, x) => Ahead(q, m, x) \/ (In(q, m) /\ x = y)
<1>1. <<y>> \in Seq(S) /\ Append(q, y) = q \o <<y>>
  OBVIOUS
<1>2. \A m : In(<<y>>, m) => m = y
  BY DEF In
<1>3. \A m, x : ~Ahead(<<y>>, m, x)
  BY DEF Ahead
<1>4. /\ q \o <<y>> \in Seq(S)
      /\ \A m : In(q \o <<y>>, m) => In(q, m) \/ In(<<y>>, m)
      /\ \A m, x : Ahead(q \o <<y>>, m, x) => Ahead(q, m, x) \/ (In(q, m) /\ In(<<y>>, x)) \/ Ahead(<<y>>, m, x)
  BY <1>1, ConcatIn
<1>5. QED
  BY <1>1, <1>2, <1>3, <1>4

\* Nothing new, and nothing in another order.
Thinner(r, q) ==
  /\ \A m : In(r, m) => In(q, m)
  /\ \A m, x : Ahead(r, m, x) => Ahead(q, m, x) \/ (m = x /\ In(q, m))

\* A queue is as thin as itself.
LEMMA ThinnerSame == ASSUME NEW q PROVE Thinner(q, q)
  BY DEF Thinner

\* Taking the first element makes it thinner,
LEMMA ThinnerTail ==
  ASSUME NEW S, NEW q \in Seq(S), q # <<>>
  PROVE  Thinner(Tail(q), q) /\ Tail(q) \in Seq(S)
  BY TailIn DEF Thinner

\* The places of the elements of a concatenation.
LEMMA ConcatAt ==
  ASSUME NEW S, NEW a \in Seq(S), NEW b \in Seq(S)
  PROVE  /\ a \o b \in Seq(S) /\ DOMAIN (a \o b) = 1 .. Len(a) + Len(b)
         /\ \A j \in Int : 1 <= j /\ j <= Len(a) => (a \o b)[j] = a[j]
         /\ \A j \in Int : Len(a) < j /\ j <= Len(a) + Len(b) => (a \o b)[j] = b[j - Len(a)]
<1> DEFINE r == a \o b
<1>1. /\ r \in Seq(S) /\ Len(r) = Len(a) + Len(b)
      /\ \A j \in 1 .. Len(a) + Len(b) : r[j] = IF j <= Len(a) THEN a[j] ELSE b[j - Len(a)]
  BY ConcatProperties
<1>2. Len(a) \in Nat /\ Len(b) \in Nat
  BY LenProperties
<1> HIDE DEF r
<1>3. DOMAIN r = 1 .. Len(a) + Len(b)
  BY <1>1, LenProperties
<1>4. ASSUME NEW j \in Int, 1 <= j, j <= Len(a) PROVE r[j] = a[j]
  <2>1. j \in 1 .. Len(a) + Len(b)
    BY <1>2, <1>4
  <2>2. QED
    BY <1>1, <1>4, <2>1
<1>5. ASSUME NEW j \in Int, Len(a) < j, j <= Len(a) + Len(b) PROVE r[j] = b[j - Len(a)]
  <2>1. j \in 1 .. Len(a) + Len(b) /\ ~(j <= Len(a))
    BY <1>2, <1>5
  <2>2. QED
    BY <1>1, <2>1
<1>6. QED
  BY <1>1, <1>3, <1>4, <1>5 DEF r

\* ... and so does losing any other;
LEMMA ThinnerRemove ==
  ASSUME NEW S, NEW q \in Seq(S), NEW i \in DOMAIN q
  PROVE  Thinner(RemoveAt(q, i), q) /\ RemoveAt(q, i) \in Seq(S)
<1> DEFINE r == RemoveAt(q, i)
<1>1. /\ r \in Seq(S)
      /\ \A j \in DOMAIN r : /\ j \in Int
                             /\ j < i => j \in DOMAIN q /\ r[j] = q[j]
                             /\ j >= i => j + 1 \in DOMAIN q /\ r[j] = q[j + 1]
  <2> DEFINE a == SubSeq(q, 1, i - 1)
             b == SubSeq(q, i + 1, Len(q))
  <2>1. a \in Seq(S) /\ Len(a) = i - 1 /\ \A j \in 1 .. i - 1 : a[j] = q[j]
    OBVIOUS
  <2>2. b \in Seq(S) /\ Len(b) = Len(q) - i /\ \A j \in 1 .. Len(q) - i : b[j] = q[i + j]
    OBVIOUS
  <2> DEFINE n == Len(q)
  <2>3. i \in Int /\ 1 <= i /\ i <= n /\ n \in Int /\ DOMAIN q = 1 .. n /\ r = a \o b
    BY DEF RemoveAt
  <2>0. i - 1 \in Int /\ n - i \in Int /\ (i - 1) + (n - i) = n - 1 /\ Len(a) = i - 1 /\ Len(b) = n - i
    BY <2>1, <2>2, <2>3
  <2>9. \A j \in 1 .. n - i : b[j] = q[i + j]
    BY <2>2
  <2> HIDE DEF a, b, r, n
  <2>4. /\ r \in Seq(S) /\ DOMAIN r = 1 .. n - 1
        /\ \A j \in Int : 1 <= j /\ j <= i - 1 => r[j] = a[j]
        /\ \A j \in Int : i - 1 < j /\ j <= n - 1 => r[j] = b[j - (i - 1)]
    <3>1. /\ r \in Seq(S) /\ DOMAIN r = 1 .. (i - 1) + (n - i)
          /\ \A j \in Int : 1 <= j /\ j <= i - 1 => r[j] = a[j]
          /\ \A j \in Int : i - 1 < j /\ j <= (i - 1) + (n - i) => r[j] = b[j - (i - 1)]
      <4>1. /\ r \in Seq(S) /\ DOMAIN r = 1 .. Len(a) + Len(b)
            /\ \A j \in Int : 1 <= j /\ j <= Len(a) => r[j] = a[j]
            /\ \A j \in Int : Len(a) < j /\ j <= Len(a) + Len(b) => r[j] = b[j - Len(a)]
        BY <2>1, <2>2, <2>3, ConcatAt, SMTT(60)
      <4>2. Len(a) = i - 1 /\ Len(b) = n - i
        BY <2>0
      <4>3. QED
        BY ONLY <4>1, <4>2
    <3>2. QED
      BY <2>0, <3>1
  <2>5. ASSUME NEW j \in DOMAIN r, j < i PROVE j \in DOMAIN q /\ r[j] = q[j]
    <3>1. j \in 1 .. i - 1 /\ j \in 1 .. n /\ j \in Int
      BY ONLY <2>3, <2>4, <2>5
    <3>2. r[j] = a[j] /\ a[j] = q[j]
      BY <2>1, <2>4, <3>1
    <3>3. QED
      BY <2>3, <3>1, <3>2
  <2>6. ASSUME NEW j \in DOMAIN r, j >= i PROVE j + 1 \in DOMAIN q /\ r[j] = q[j + 1]
    <3> DEFINE k == j - (i - 1)
    <3>1. k \in 1 .. n - i /\ i + k = j + 1 /\ j + 1 \in 1 .. n /\ i - 1 < j /\ j <= n - 1 /\ j \in Int
      BY ONLY <2>3, <2>4, <2>6
    <3>2. r[j] = b[k]
      BY <2>4, <3>1
    <3> HIDE DEF k
    <3>3. b[k] = q[j + 1]
      BY <2>9, <3>1
    <3>4. QED
      BY <2>3, <3>1, <3>2, <3>3
  <2>7. \A j \in DOMAIN r : j \in Int
    BY <2>4
  <2>8. QED
    BY <2>4, <2>5, <2>6, <2>7
<1>2. i \in Int
  OBVIOUS
<1> HIDE DEF r
<1>3. ASSUME NEW m, In(r, m) PROVE In(q, m)
  BY <1>1, <1>2, <1>3 DEF In
<1>4. ASSUME NEW m, NEW x, Ahead(r, m, x) PROVE Ahead(q, m, x)
  <2>1. PICK j, k \in DOMAIN r : j < k /\ r[j] = m /\ r[k] = x
    BY <1>4 DEF Ahead
  <2>2. CASE k < i
    BY <1>1, <1>2, <2>1, <2>2 DEF Ahead
  <2>3. CASE j < i /\ k >= i
    <3>1. j < k + 1
      BY <1>1, <2>1
    <3>2. QED
      BY <1>1, <1>2, <2>1, <2>3, <3>1 DEF Ahead
  <2>4. CASE j >= i
    <3>1. j + 1 < k + 1 /\ k >= i
      BY <1>1, <1>2, <2>1, <2>4
    <3>2. QED
      BY <1>1, <1>2, <2>1, <2>4, <3>1 DEF Ahead
  <2>5. QED
    BY <1>1, <1>2, <2>1, <2>2, <2>3, <2>4
<1>5. QED
  BY <1>1, <1>3, <1>4 DEF Thinner, r

\* ... a duplicate next to the original adds nothing.
LEMMA ThinnerInsert ==
  ASSUME NEW S, NEW q \in Seq(S), NEW i \in DOMAIN q
  PROVE  Thinner(InsertAt(q, i, q[i]), q) /\ InsertAt(q, i, q[i]) \in Seq(S)
<1> DEFINE r == InsertAt(q, i, q[i])
<1>1. /\ r \in Seq(S)
      /\ \A j \in DOMAIN r : /\ j \in Int
                             /\ j <= i => j \in DOMAIN q /\ r[j] = q[j]
                             /\ j > i => j - 1 \in DOMAIN q /\ r[j] = q[j - 1]
  <2> DEFINE a == SubSeq(q, 1, i - 1)
             b == SubSeq(q, i, Len(q))
             c == a \o <<q[i]>>
  <2>1. a \in Seq(S) /\ Len(a) = i - 1 /\ \A j \in 1 .. i - 1 : a[j] = q[j]
    OBVIOUS
  <2>2. /\ b \in Seq(S) /\ Len(b) = Len(q) - i + 1
        /\ \A j \in 1 .. Len(q) - i + 1 : b[j] = q[i + j - 1]
    OBVIOUS
  <2> DEFINE n == Len(q)
  <2>3. i \in Int /\ 1 <= i /\ i <= n /\ n \in Int /\ DOMAIN q = 1 .. n /\ q[i] \in S /\ r = c \o b
    BY DEF InsertAt
  <2>0. i - 1 \in Int /\ n - i + 1 \in Int /\ i + (n - i + 1) = n + 1 /\ Len(a) = i - 1 /\ (i - 1) + 1 = i
    <3>1. Len(a) = i - 1
      BY <2>1
    <3> HIDE DEF n, a
    <3>2. QED
      BY ONLY <2>3, <3>1
  <2>11. Len(b) = n - i + 1
    BY <2>2
  <2>9. \A j \in 1 .. n - i + 1 : b[j] = q[i + j - 1]
    BY <2>2
  <2>10. <<q[i]>> \in Seq(S) /\ Len(<<q[i]>>) = 1 /\ <<q[i]>>[1] = q[i]
    BY <2>3
  <2> HIDE DEF a, b, r, n
  <2>4. c \in Seq(S) /\ Len(c) = i /\ \A j \in 1 .. i : c[j] = q[j]
    <3>1. /\ c \in Seq(S) /\ DOMAIN c = 1 .. (i - 1) + 1
          /\ \A j \in Int : 1 <= j /\ j <= i - 1 => c[j] = a[j]
          /\ \A j \in Int : i - 1 < j /\ j <= (i - 1) + 1 => c[j] = <<q[i]>>[j - (i - 1)]
      <4> DEFINE d == <<q[i]>>
      <4>1. /\ c \in Seq(S) /\ DOMAIN c = 1 .. Len(a) + Len(d)
            /\ \A j \in Int : 1 <= j /\ j <= Len(a) => c[j] = a[j]
            /\ \A j \in Int : Len(a) < j /\ j <= Len(a) + Len(d) => c[j] = d[j - Len(a)]
        BY <2>1, <2>10, ConcatAt
      <4>2. Len(a) = i - 1 /\ Len(d) = 1
        BY <2>0, <2>10
      <4> HIDE DEF c, d
      <4>3. QED
        BY ONLY <4>1, <4>2 DEF d
    <3> HIDE DEF c
    <3>2. Len(c) = i
      BY <2>0, <2>3, <3>1
    <3>3. ASSUME NEW j \in 1 .. i - 1 PROVE c[j] = q[j]
      BY <2>1, <2>3, <3>1
    <3>4. c[i] = q[i]
      <4>1. i - 1 < i /\ i <= (i - 1) + 1 /\ i - (i - 1) = 1
        BY <2>3
      <4>2. QED
        BY <2>3, <2>10, <3>1, <4>1
    <3>5. \A j \in 1 .. i : j \in 1 .. i - 1 \/ j = i
      BY <2>3
    <3>6. QED
      BY <3>1, <3>2, <3>3, <3>4, <3>5
  <2> HIDE DEF c
  <2>5. /\ r \in Seq(S) /\ DOMAIN r = 1 .. n + 1
        /\ \A j \in Int : 1 <= j /\ j <= i => r[j] = c[j]
        /\ \A j \in Int : i < j /\ j <= n + 1 => r[j] = b[j - i]
    <3>1. /\ r \in Seq(S) /\ DOMAIN r = 1 .. i + (n - i + 1)
          /\ \A j \in Int : 1 <= j /\ j <= i => r[j] = c[j]
          /\ \A j \in Int : i < j /\ j <= i + (n - i + 1) => r[j] = b[j - i]
      <4>1. /\ r \in Seq(S) /\ DOMAIN r = 1 .. Len(c) + Len(b)
            /\ \A j \in Int : 1 <= j /\ j <= Len(c) => r[j] = c[j]
            /\ \A j \in Int : Len(c) < j /\ j <= Len(c) + Len(b) => r[j] = b[j - Len(c)]
        BY <2>2, <2>3, <2>4, ConcatAt, SMTT(60)
      <4>2. Len(c) = i /\ Len(b) = n - i + 1
        BY <2>4, <2>11
      <4>3. QED
        BY ONLY <4>1, <4>2
    <3>2. QED
      BY <2>0, <3>1
  <2>6. ASSUME NEW j \in DOMAIN r, j <= i PROVE j \in DOMAIN q /\ r[j] = q[j]
    <3>1. j \in 1 .. i /\ j \in 1 .. n /\ j \in Int
      BY ONLY <2>3, <2>5, <2>6
    <3>2. r[j] = c[j] /\ c[j] = q[j]
      BY <2>4, <2>5, <3>1
    <3>3. QED
      BY <2>3, <3>1, <3>2
  <2>12. DOMAIN r = 1 .. n + 1
    BY <2>5
  <2>7. ASSUME NEW j \in DOMAIN r, j > i PROVE j - 1 \in DOMAIN q /\ r[j] = q[j - 1]
    <3> DEFINE k == j - i
    <3>1. k \in 1 .. n - i + 1 /\ i + k - 1 = j - 1 /\ j - 1 \in 1 .. n /\ i < j /\ j <= n + 1 /\ j \in Int
      BY ONLY <2>3, <2>12, <2>7
    <3>2. r[j] = b[k]
      BY <2>5, <3>1
    <3> HIDE DEF k
    <3>3. b[k] = q[j - 1]
      BY <2>9, <3>1
    <3>4. QED
      BY <2>3, <3>1, <3>2, <3>3
  <2>8. \A j \in DOMAIN r : j \in Int
    BY <2>5
  <2>13. QED
    BY <2>5, <2>6, <2>7, <2>8
<1>2. i \in Int
  OBVIOUS
<1> HIDE DEF r
<1>3. ASSUME NEW m, In(r, m) PROVE In(q, m)
  BY <1>1, <1>2, <1>3 DEF In
<1>4. ASSUME NEW m, NEW x, Ahead(r, m, x) PROVE Ahead(q, m, x) \/ (m = x /\ In(q, m))
  <2>1. PICK j, k \in DOMAIN r : j < k /\ r[j] = m /\ r[k] = x
    BY <1>4 DEF Ahead
  <2>2. CASE k <= i
    <3>1. j <= i
      BY <1>1, <1>2, <2>1, <2>2
    <3>2. QED
      BY <1>1, <1>2, <2>1, <2>2, <3>1 DEF Ahead
  <2>3. CASE j <= i /\ k > i /\ j < k - 1
    BY <1>1, <1>2, <2>1, <2>3 DEF Ahead
  <2>4. CASE j <= i /\ k > i /\ ~(j < k - 1)
    <3>1. j = k - 1
      BY <1>1, <1>2, <2>1, <2>4
    <3>2. m = x
      BY <1>1, <1>2, <2>1, <2>4, <3>1
    <3>3. QED
      BY <1>3, <2>1, <3>2 DEF In
  <2>5. CASE j > i
    <3>1. j - 1 < k - 1 /\ k > i
      BY <1>1, <1>2, <2>1, <2>5
    <3>2. QED
      BY <1>1, <1>2, <2>1, <2>5, <3>1 DEF Ahead
  <2>6. QED
    BY <1>1, <1>2, <2>1, <2>2, <2>3, <2>4, <2>5
<1>5. QED
  BY <1>1, <1>3, <1>4 DEF Thinner, r

Reordered(S, r, q) == r \in Seq(S) /\ \A m : In(r, m) => In(q, m)

\* Swapping neighbours adds nothing either, but changes the order.
LEMMA SwapIn ==
  ASSUME NEW S, NEW q \in Seq(S), NEW i \in DOMAIN q, i < Len(q),
         NEW r, r = [q EXCEPT ![i] = q[i + 1], ![i + 1] = q[i]]
  PROVE  Reordered(S, r, q)
<1>1. i + 1 \in DOMAIN q /\ q[i] \in S /\ q[i + 1] \in S /\ DOMAIN r = DOMAIN q
  OBVIOUS
<1>2. r \in Seq(S)
  BY <1>1
<1>3. ASSUME NEW j \in DOMAIN r PROVE \E k \in DOMAIN q : r[j] = q[k]
  BY <1>1
<1>4. QED
  BY <1>2, <1>3 DEF In, Reordered

(***************************************************************************)
(* The data packets on their way.                                          *)
(***************************************************************************)
LEMMA DataTyped ==
  ASSUME NEW dq \in Seq(DataType), NEW l \in Seq(Message), NEW m, DataIn(dq, l, m)
  PROVE  m \in DataType /\ m.type = "DAT" /\ m.pkt \in Pkt /\ m.pkt.id \in Int /\ m.seq \in SeqNo
<1>1. m \in Message /\ m.type = "DAT"
  BY InTyped DEF DataIn, Message
<1>2. QED
  BY <1>1, MessageFacts

\* Data packets that are ahead of each other are on their way.
LEMMA DataAheadIn ==
  ASSUME NEW dq, NEW l, NEW m, NEW x, DataAhead(dq, l, m, x)
  PROVE  DataIn(dq, l, m) /\ DataIn(dq, l, x)
  BY AheadIn DEF DataAhead, DataIn

\* No data that was not under way before, and none in another order.
LessData(dq2, l2, dq, l) ==
  /\ \A m : DataIn(dq2, l2, m) => DataIn(dq, l, m)
  /\ \A m, x : DataAhead(dq2, l2, m, x) => DataAhead(dq, l, m, x) \/ (m = x /\ DataIn(dq, l, m))

\* Fewer packets on their way are as good,
LEMMA DataLess ==
  ASSUME NEW dq \in Seq(DataType), NEW l \in Seq(Message), NEW R, NEW ms \in Int, DataInv(dq, l, R, ms),
         NEW dq2, NEW l2, LessData(dq2, l2, dq, l)
  PROVE  DataInv(dq2, l2, R, ms)
<1>1. ASSUME NEW m, NEW x, DataAhead(dq2, l2, m, x) PROVE m.pkt.id < x.pkt.id + Half
  <2>1. CASE DataAhead(dq, l, m, x)
    BY <2>1 DEF DataInv
  <2>2. CASE m = x /\ DataIn(dq, l, m)
    <3>1. m.pkt.id \in Int
      BY <2>2, DataTyped
    <3>2. QED
      BY <2>2, <3>1, HalfFacts
  <2>3. QED
    BY <1>1, <2>1, <2>2 DEF LessData
<1>2. QED
  BY <1>1 DEF DataInv, LessData

\* ... and thinner queues have fewer.
LEMMA LessThinner ==
  ASSUME NEW dq, NEW l, NEW dq2, NEW l2, Thinner(dq2, dq), Thinner(l2, l)
  PROVE  LessData(dq2, l2, dq, l)
  BY DEF LessData, DataIn, DataAhead, Thinner

\* recv moves the packet in front of the path to the end of the queue.
LEMMA LessReceived ==
  ASSUME NEW dq \in Seq(DataType), NEW l \in Seq(Message), l # <<>>, Head(l) \in DataType
  PROVE  /\ Append(dq, Head(l)) \in Seq(DataType) /\ Tail(l) \in Seq(Message)
         /\ LessData(Append(dq, Head(l)), Tail(l), dq, l)
<1> DEFINE h == Head(l)
           d == Append(dq, h)
           k == Tail(l)
<1>1. /\ d \in Seq(DataType)
      /\ \A m : In(d, m) => In(dq, m) \/ m = h
      /\ \A m, x : Ahead(d, m, x) => Ahead(dq, m, x) \/ (In(dq, m) /\ x = h)
  BY AppendIn
<1>2. /\ k \in Seq(Message) /\ In(l, h)
      /\ \A m : In(k, m) => In(l, m) /\ Ahead(l, h, m)
      /\ \A m, x : Ahead(k, m, x) => Ahead(l, m, x)
  BY TailIn
<1> HIDE DEF h, d, k
<1>3. ASSUME NEW m, DataIn(d, k, m) PROVE DataIn(dq, l, m)
  BY <1>1, <1>2, <1>3 DEF DataIn
<1>4. ASSUME NEW m, NEW x, DataAhead(d, k, m, x) PROVE DataAhead(dq, l, m, x)
  BY <1>1, <1>2, <1>4 DEF DataAhead
<1>5. QED
  BY <1>1, <1>2, <1>3, <1>4 DEF LessData, d, k, h

\* Acknowledgements do not count as data.
LEMMA LessAcks ==
  ASSUME NEW dq, NEW l \in Seq(Message), NEW o \in Seq(Message), \A m : In(o, m) => m.type # "DAT"
  PROVE  LessData(dq, l \o o, dq, l)
<1> DEFINE k == l \o o
<1>1. /\ \A m : In(k, m) => In(l, m) \/ In(o, m)
      /\ \A m, x : Ahead(k, m, x) => Ahead(l, m, x) \/ (In(l, m) /\ In(o, x)) \/ Ahead(o, m, x)
  BY ConcatIn
<1>2. \A m, x : Ahead(o, m, x) => In(o, m)
  BY AheadIn
<1> HIDE DEF k
<1>3. ASSUME NEW m, DataIn(dq, k, m) PROVE DataIn(dq, l, m)
  BY <1>1, <1>3 DEF DataIn
<1>4. ASSUME NEW m, NEW x, DataAhead(dq, k, m, x) PROVE DataAhead(dq, l, m, x)
  BY <1>1, <1>2, <1>4 DEF DataAhead
<1>5. QED
  BY <1>3, <1>4 DEF LessData, k

\* The data packets among the datagrams o were sent in the window (la, ms].
DataOut(o, la, ms) ==
  \A m : In(o, m) /\ m.type = "DAT" =>
    /\ la < m.pkt.id /\ m.pkt.id <= ms /\ m.seq = m.pkt.id % SeqCnt /\ (m.pkt.chf => Closers # {})

\* Packets from the window that join the others on the path.
LEMMA DataGrow ==
  ASSUME NEW dq \in Seq(DataType), NEW l \in Seq(Message), NEW R, NEW ms \in Int, DataInv(dq, l, R, ms),
         NEW o \in Seq(Message), NEW la \in Int, NEW ms2 \in Int, -1 <= la, ms <= ms2, ms2 <= la + Half,
         R \subseteq 0 .. ms, DataOut(o, la, ms2)
  PROVE  DataInv(dq, l \o o, R, ms2)
<1> DEFINE k == l \o o
<1>1. /\ k \in Seq(Message)
      /\ \A m : In(k, m) => In(l, m) \/ In(o, m)
      /\ \A m, x : Ahead(k, m, x) => Ahead(l, m, x) \/ (In(l, m) /\ In(o, x)) \/ Ahead(o, m, x)
  BY ConcatIn
<1>2. \A m, x : Ahead(o, m, x) => In(o, m) /\ In(o, x)
  BY AheadIn
<1> HIDE DEF k
<1>3. ASSUME NEW m, In(o, m), m.type = "DAT"
      PROVE  /\ m.pkt.id \in Int /\ la < m.pkt.id /\ m.pkt.id <= ms2 /\ m.seq = m.pkt.id % SeqCnt
             /\ m.pkt.chf => Closers # {}
  <2>1. m \in Message
    BY <1>3, InTyped
  <2>2. QED
    BY <1>3, <2>1, MessageFacts DEF DataOut
<1>4. ASSUME NEW m, DataIn(dq, k, m)
      PROVE  DataIn(dq, l, m) \/ (In(o, m) /\ m.type = "DAT")
  BY <1>1, <1>4 DEF DataIn
<1>5. ASSUME NEW m, DataIn(dq, l, m)
      PROVE  /\ m.pkt.id \in Int /\ 0 <= m.pkt.id /\ m.pkt.id <= ms2 /\ m.pkt.id <= la + Half
             /\ m.seq = m.pkt.id % SeqCnt
             /\ m.pkt.chf => Closers # {}
             /\ \A r \in R : r < m.pkt.id + Half
  <2>1. m.pkt.id \in Int
    BY <1>5, DataTyped
  <2>2. /\ 0 <= m.pkt.id /\ m.pkt.id <= ms /\ m.seq = m.pkt.id % SeqCnt
        /\ m.pkt.chf => Closers # {}
        /\ \A r \in R : r < m.pkt.id + Half
    BY <1>5 DEF DataInv
  <2>3. m.pkt.id <= ms2 /\ m.pkt.id <= la + Half
    BY <2>1, <2>2, HalfFacts
  <2>4. QED
    BY <2>1, <2>2, <2>3
<1>6. ASSUME NEW m, In(o, m), m.type = "DAT", NEW r \in R PROVE r < m.pkt.id + Half
  <2>1. m.pkt.id \in Int /\ la < m.pkt.id
    BY <1>3, <1>6
  <2>2. r \in Int /\ r <= ms
    OBVIOUS
  <2>3. QED
    BY <2>1, <2>2, HalfFacts
<1>7. ASSUME NEW m, DataIn(dq, k, m)
      PROVE  /\ 0 <= m.pkt.id /\ m.pkt.id <= ms2 /\ m.seq = m.pkt.id % SeqCnt
             /\ m.pkt.chf => Closers # {}
             /\ \A r \in R : r < m.pkt.id + Half
  <2>1. CASE DataIn(dq, l, m)
    BY <1>5, <2>1
  <2>2. CASE In(o, m) /\ m.type = "DAT"
    <3>1. m.pkt.id \in Int /\ la < m.pkt.id
      BY <1>3, <2>2
    <3>2. 0 <= m.pkt.id
      BY <3>1
    <3>3. QED
      BY <1>3, <1>6, <2>2, <3>2
  <2>3. QED
    BY <1>4, <1>7, <2>1, <2>2
<1>8. ASSUME NEW m, NEW x, DataAhead(dq, k, m, x) PROVE m.pkt.id < x.pkt.id + Half
  <2>1. CASE DataAhead(dq, l, m, x)
    BY <2>1 DEF DataInv
  <2>2. CASE DataIn(dq, k, m) /\ In(o, x) /\ x.type = "DAT"
    <3>1. x.pkt.id \in Int /\ la < x.pkt.id
      BY <1>3, <2>2
    <3>2. m.pkt.id \in Int /\ m.pkt.id <= la + Half
      <4>1. CASE DataIn(dq, l, m)
        BY <1>5, <4>1
      <4>2. CASE In(o, m) /\ m.type = "DAT"
        <5>1. m.pkt.id \in Int /\ m.pkt.id <= ms2
          BY <1>3, <4>2
        <5>2. QED
          BY <5>1, HalfFacts
      <4>3. QED
        BY <1>4, <2>2, <4>1, <4>2
    <3>3. QED
      BY <3>1, <3>2, HalfFacts
  <2>3. DataAhead(dq, l, m, x) \/ (DataIn(dq, k, m) /\ In(o, x) /\ x.type = "DAT")
    <3>1. DataIn(dq, k, m)
      BY <1>8, DataAheadIn
    <3>2. QED
      BY <1>1, <1>2, <1>8, <3>1 DEF DataAhead
  <2>4. QED
    BY <2>1, <2>2, <2>3
<1>9. QED
  BY <1>7, <1>8 DEF DataInv, k

\* Without wrapping the order of the packets does not matter.
LEMMA DataSwapped ==
  ASSUME NEW dq \in Seq(DataType), NEW l \in Seq(Message), NEW R, NEW ms \in Int, DataInv(dq, l, R, ms),
         ms < Half, NEW l2, \A m : In(l2, m) => In(l, m)
  PROVE  DataInv(dq, l2, R, ms)
<1>1. ASSUME NEW m, DataIn(dq, l2, m) PROVE DataIn(dq, l, m)
  BY <1>1 DEF DataIn
<1>2. ASSUME NEW m, NEW x, DataAhead(dq, l2, m, x) PROVE m.pkt.id < x.pkt.id + Half
  <2>1. DataIn(dq, l, m) /\ DataIn(dq, l, x)
    BY <1>1, <1>2, DataAheadIn
  <2>2. m.pkt.id \in Int /\ x.pkt.id \in Int
    BY <2>1, DataTyped
  <2>3. m.pkt.id <= ms /\ 0 <= x.pkt.id
    BY <2>1 DEF DataInv
  <2>4. QED
    BY <2>2, <2>3, HalfFacts
<1>3. QED
  BY <1>1, <1>2 DEF DataInv

\* pktRecv takes the packet in front and may pass it up.
LEMMA DataTaken ==
  ASSUME NEW dq \in Seq(DataType), NEW l \in Seq(Message), NEW R, NEW ms \in Int, DataInv(dq, l, R, ms),
         dq # <<>>, NEW R2, \A r \in R2 : r \in R \/ r = Head(dq).pkt.id
  PROVE  DataInv(Tail(dq), l, R2, ms)
<1> DEFINE h == Head(dq)
           d == Tail(dq)
<1>1. /\ d \in Seq(DataType) /\ h \in DataType /\ In(dq, h)
      /\ \A m : In(d, m) => In(dq, m) /\ Ahead(dq, h, m)
      /\ \A m, x : Ahead(d, m, x) => Ahead(dq, m, x)
  BY TailIn
<1>0. \A r \in R2 : r \in R \/ r = h.pkt.id
  OBVIOUS
<1> HIDE DEF h, d
<1>2. h.type = "DAT"
  BY <1>1 DEF DataType
<1>3. ASSUME NEW m, DataIn(d, l, m) PROVE DataIn(dq, l, m) /\ DataAhead(dq, l, h, m)
  BY <1>1, <1>2, <1>3 DEF DataIn, DataAhead
<1>4. ASSUME NEW m, NEW x, DataAhead(d, l, m, x) PROVE DataAhead(dq, l, m, x)
  BY <1>1, <1>4 DEF DataAhead
<1>5. ASSUME NEW m, DataIn(d, l, m), NEW r \in R2 PROVE r < m.pkt.id + Half
  <2>1. h.pkt.id < m.pkt.id + Half /\ \A x \in R : x < m.pkt.id + Half
    BY <1>3, <1>5 DEF DataInv
  <2>2. QED
    BY <1>0, <2>1
<1>6. QED
  BY <1>3, <1>4, <1>5 DEF DataInv, d

(***************************************************************************)
(* The acknowledgements on their way.                                      *)
(***************************************************************************)
LEMMA AckTyped ==
  ASSUME NEW b \in Seq(AckType), NEW a \in Seq(AckType), NEW l \in Seq(Message), NEW m, AckIn(b, a, l, m)
  PROVE  m \in AckType /\ m.type = "ACK" /\ m.ackNo \in SeqNo /\ m.orig \in SeqNo
<1>1. m \in Message /\ m.type = "ACK"
  BY InTyped DEF AckIn, Message
<1>2. QED
  BY <1>1, MessageFacts

\* Acknowledgements that are ahead of each other are on their way.
LEMMA AckAheadIn ==
  ASSUME NEW b, NEW a, NEW l, NEW m, NEW x, AckAhead(b, a, l, m, x)
  PROVE  AckIn(b, a, l, m) /\ AckIn(b, a, l, x)
  BY AheadIn DEF AckAhead, AckIn

\* The least position an acknowledgement may name.
LEMMA BaseInt == \A la \in Int : Base(la) \in Int
  BY DEF Base

\* An acknowledgement names a position and the packet that caused it.
LEMMA AckNames ==
  ASSUME NEW low \in Int, NEW m, m.ackNo \in SeqNo, m.orig \in SeqNo
  PROVE  /\ AckPos(low, m) \in Int /\ low <= AckPos(low, m) /\ AckPos(low, m) < low + SeqCnt
         /\ m.ackNo = AckPos(low, m) % SeqCnt
         /\ CausedBy(low, m) \in Int /\ m.orig = CausedBy(low, m) % SeqCnt
         /\ AckPos(low, m) - Half < CausedBy(low, m) /\ CausedBy(low, m) <= AckPos(low, m) + Half
<1> DEFINE i == AckPos(low, m)
<1>1. i \in Int /\ low <= i /\ i < low + SeqCnt /\ m.ackNo = i % SeqCnt
  BY AckPosFacts
<1> HIDE DEF i
<1>2. /\ OrigPos(i, m) \in Int /\ m.orig = OrigPos(i, m) % SeqCnt
      /\ i - Half < OrigPos(i, m) /\ OrigPos(i, m) <= i + Half
  BY <1>1, OrigPosFacts
<1>3. QED
  BY <1>1, <1>2 DEF i, CausedBy

\* No acknowledgement that was not under way before, and none in another order.
LessAck(b2, a2, l2, b, a, l) ==
  /\ \A m : AckIn(b2, a2, l2, m) => AckIn(b, a, l, m)
  /\ "reorder" \notin FaultKinds =>
       \A m, x : AckAhead(b2, a2, l2, m, x) => AckAhead(b, a, l, m, x) \/ (m = x /\ AckIn(b, a, l, m))

\* Fewer acknowledgements on their way are as good,
LEMMA AckLess ==
  ASSUME NEW b \in Seq(AckType), NEW a \in Seq(AckType), NEW l \in Seq(Message),
         NEW s, NEW R, NEW la \in Int, NEW e, AckInv(b, a, l, s, R, la, e),
         NEW b2, NEW a2, NEW l2, LessAck(b2, a2, l2, b, a, l)
  PROVE  AckInv(b2, a2, l2, s, R, la, e)
<1> DEFINE low == Base(la)
<1>0. low \in Int
  BY BaseInt
<1> HIDE DEF low
<1>1. ASSUME "reorder" \notin FaultKinds, NEW m, NEW x, AckAhead(b2, a2, l2, m, x)
      PROVE  AckPos(low, m) <= AckPos(low, x)
  <2>1. CASE AckAhead(b, a, l, m, x)
    BY <1>1, <2>1 DEF AckInv, low
  <2>2. CASE m = x /\ AckIn(b, a, l, m)
    <3>1. AckPos(low, m) \in Int
      BY <1>0, <2>2, AckTyped, AckNames
    <3>2. QED
      BY <2>2, <3>1
  <2>3. QED
    BY <1>1, <2>1, <2>2 DEF LessAck
<1>2. \A m : AckIn(b2, a2, l2, m) => AckIn(b, a, l, m)
  BY DEF LessAck
<1>3. /\ \A m : AckIn(b, a, l, m) =>
           /\ AckPos(low, m) < e
           /\ CausedBy(low, m) \in R
           /\ la <= AckPos(low, m) /\ AckPos(low, m) + 1 < s.total /\ ~s.drained =>
                Held(s, (AckPos(low, m) + 1) % SeqCnt)
      /\ \A m, x : AckIn(b, a, l, m) /\ AckIn(b, a, l, x) /\ CausedBy(low, x) = AckPos(low, m) + 1 =>
           AckPos(low, m) < AckPos(low, x)
  BY DEF AckInv, low
<1>4. QED
  BY <1>1, <1>2, <1>3 DEF AckInv, low

\* ... and thinner queues have fewer.
LEMMA LessAckThinner ==
  ASSUME NEW b, NEW a, NEW l, NEW b2, NEW l2, Thinner(b2, b), Thinner(l2, l)
  PROVE  LessAck(b2, a, l2, b, a, l)
  BY DEF LessAck, AckIn, AckAhead, Thinner

\* recv moves the acknowledgement in front of the path to the end of the queue.
LEMMA LessAckReceived ==
  ASSUME NEW b, NEW a \in Seq(AckType), NEW l \in Seq(Message), l # <<>>, Head(l) \in AckType
  PROVE  /\ Append(a, Head(l)) \in Seq(AckType) /\ Tail(l) \in Seq(Message)
         /\ LessAck(b, Append(a, Head(l)), Tail(l), b, a, l)
<1> DEFINE h == Head(l)
           d == Append(a, h)
           k == Tail(l)
<1>1. /\ d \in Seq(AckType)
      /\ \A m : In(d, m) => In(a, m) \/ m = h
      /\ \A m, x : Ahead(d, m, x) => Ahead(a, m, x) \/ (In(a, m) /\ x = h)
  BY AppendIn
<1>2. /\ k \in Seq(Message) /\ In(l, h)
      /\ \A m : In(k, m) => In(l, m) /\ Ahead(l, h, m)
      /\ \A m, x : Ahead(k, m, x) => Ahead(l, m, x)
  BY TailIn
<1> HIDE DEF h, d, k
<1>3. ASSUME NEW m, AckIn(b, d, k, m) PROVE AckIn(b, a, l, m)
  BY <1>1, <1>2, <1>3 DEF AckIn
<1>4. ASSUME NEW m, NEW x, AckAhead(b, d, k, m, x) PROVE AckAhead(b, a, l, m, x)
  BY <1>1, <1>2, <1>4 DEF AckAhead
<1>5. QED
  BY <1>1, <1>2, <1>3, <1>4 DEF LessAck, d, k, h

\* The thread takes what is queued.
LEMMA LessAckTaken ==
  ASSUME NEW b, b = <<>>, NEW a, NEW l, NEW a2, a2 = <<>>
  PROVE  LessAck(a, a2, l, b, a, l)
<1>1. \A m, x : ~In(b, m) /\ ~Ahead(b, m, x) /\ ~In(a2, m) /\ ~Ahead(a2, m, x)
  BY EmptyIn
<1>2. QED
  BY <1>1 DEF LessAck, AckIn, AckAhead

\* Data packets do not count as acknowledgements.
LEMMA LessData2 ==
  ASSUME NEW b, NEW a, NEW l \in Seq(Message), NEW o \in Seq(Message), \A m : In(o, m) => m.type # "ACK"
  PROVE  LessAck(b, a, l \o o, b, a, l)
<1> DEFINE k == l \o o
<1>1. /\ \A m : In(k, m) => In(l, m) \/ In(o, m)
      /\ \A m, x : Ahead(k, m, x) => Ahead(l, m, x) \/ (In(l, m) /\ In(o, x)) \/ Ahead(o, m, x)
  BY ConcatIn
<1>2. \A m, x : Ahead(o, m, x) => In(o, m)
  BY AheadIn
<1> HIDE DEF k
<1>3. ASSUME NEW m, AckIn(b, a, k, m) PROVE AckIn(b, a, l, m)
  BY <1>1, <1>3 DEF AckIn
<1>4. ASSUME NEW m, NEW x, AckAhead(b, a, k, m, x) PROVE AckAhead(b, a, l, m, x)
  BY <1>1, <1>2, <1>4 DEF AckAhead
<1>5. QED
  BY <1>3, <1>4 DEF LessAck, k

\* Where datagrams may be reordered anyway, a swap changes nothing.
LEMMA LessAckSwapped ==
  ASSUME "reorder" \in FaultKinds, NEW b, NEW a, NEW l, NEW l2, \A m : In(l2, m) => In(l, m)
  PROVE  LessAck(b, a, l2, b, a, l)
  BY DEF LessAck, AckIn

(***************************************************************************)
(* A handler other than that of an acknowledgement: the packets of the     *)
(* sender stay, one may be added, or they all go back to the scheduler.    *)
(***************************************************************************)
\* The packets of the sender stay, but for those that arrived; one may be
\* added.
Submits(s, t) ==
  /\ t.total = s.total \/ t.total = s.total + 1
  /\ t.drained = s.drained /\ t.undelivered = s.undelivered
  /\ AddsPacket(s, t)

\* All packets go back to the scheduler.
Returns(s, t) ==
  /\ ~s.drained /\ t.drained /\ t.total = s.total
  /\ t.undelivered = s.undelivered \cup HeldPackets(s)
  /\ \A q \in SeqNo : ~Held(t, q)

\* A step of the sender.
Moved(s, t, R, la, ms) ==
  t \in SenderType /\ (Submits(s, t) \/ Returns(s, t)) /\ \E n \in Nat : SenderInv(t, R, la, ms + n)

\* The other handlers keep what is said of the acknowledgements.
LEMMA AckMoved ==
  ASSUME NEW b \in Seq(AckType), NEW a \in Seq(AckType), NEW l \in Seq(Message),
         NEW s \in SenderType, NEW R, NEW la \in Int, NEW ms \in Int, NEW e, AckInv(b, a, l, s, R, la, e),
         SenderInv(s, R, la, ms), R \subseteq 0 .. ms, NEW t, Moved(s, t, R, la, ms)
  PROVE  AckInv(b, a, l, t, R, la, e)
<1> DEFINE low == Base(la)
<1>0. low \in Int
  BY BaseInt
<1> HIDE DEF low
<1>1. /\ \A m : AckIn(b, a, l, m) =>
           /\ AckPos(low, m) < e
           /\ CausedBy(low, m) \in R
           /\ la <= AckPos(low, m) /\ AckPos(low, m) + 1 < s.total /\ ~s.drained =>
                Held(s, (AckPos(low, m) + 1) % SeqCnt)
      /\ \A m, x : AckIn(b, a, l, m) /\ AckIn(b, a, l, x) /\ CausedBy(low, x) = AckPos(low, m) + 1 =>
           AckPos(low, m) < AckPos(low, x)
      /\ "reorder" \notin FaultKinds =>
           \A m, x : AckAhead(b, a, l, m, x) => AckPos(low, m) <= AckPos(low, x)
  BY DEF AckInv, low
<1>2. PICK n \in Nat : SenderInv(t, R, la, ms + n)
  BY DEF Moved
<1>3. /\ s.total \in Nat /\ ms < s.total
  BY WindowFacts DEF SenderInv, BufferInv
<1>4. ASSUME NEW i \in Int, la < i, i < t.total, ~t.drained,
             i < s.total /\ ~s.drained => Held(s, i % SeqCnt)
      PROVE  Held(t, i % SeqCnt)
  <2>1. Submits(s, t) /\ ~s.drained /\ AddsPacket(s, t) /\ (t.total = s.total \/ t.total = s.total + 1)
    BY <1>4 DEF Moved, Returns, Submits
  <2>2. i % SeqCnt \in SeqNo
    BY Residue
  <2>3. CASE i < s.total
    BY <1>4, <2>1, <2>2, <2>3, BufFacts DEF AddsPacket, Held
  <2>4. CASE ~(i < s.total)
    <3>1. i = s.total /\ i \notin R
      BY <1>3, <1>4, <2>1, <2>4
    <3>2. GapInv(t, R, la, ms + n)
      BY <1>2 DEF SenderInv, BufferInv
    <3>3. QED
      BY <1>4, <3>1, <3>2 DEF GapInv
  <2>5. QED
    BY <2>3, <2>4
<1>5. ASSUME NEW m, AckIn(b, a, l, m), la <= AckPos(low, m), AckPos(low, m) + 1 < t.total, ~t.drained
      PROVE  Held(t, (AckPos(low, m) + 1) % SeqCnt)
  <2> DEFINE i == AckPos(low, m) + 1
  <2>1. AckPos(low, m) \in Int
    BY <1>0, <1>5, AckTyped, AckNames
  <2>2. i \in Int /\ la < i /\ i < t.total
    BY <1>5, <2>1
  <2>3. i < s.total /\ ~s.drained => Held(s, i % SeqCnt)
    BY <1>1, <1>5
  <2> HIDE DEF i
  <2>4. Held(t, i % SeqCnt)
    BY <1>4, <1>5, <2>2, <2>3
  <2>5. QED
    BY <2>4 DEF i
<1>6. QED
  BY <1>1, <1>5 DEF AckInv, low

(***************************************************************************)
(* Processing the acknowledgement in front.                                *)
(***************************************************************************)
LEMMA AckAnswered ==
  ASSUME NEW b \in Seq(AckType), b # <<>>, NEW a \in Seq(AckType), NEW l \in Seq(Message),
         NEW s \in SenderType, NEW R, NEW la \in Int, NEW e, AckInv(b, a, l, s, R, la, e),
         NEW t \in SenderType, t.total = s.total, t.drained = s.drained,
         NEW la2 \in Int, la <= la2, la2 = la \/ la2 = AckPos(Base(la), Head(b)),
         AckedPackets(s, t, la2, AckPos(Base(la), Head(b)), CausedBy(Base(la), Head(b)))
  PROVE  AckInv(Tail(b), a, l, t, R, la2, e)
<1> DEFINE low == Base(la)
           low2 == Base(la2)
           h == Head(b)
           pos == AckPos(low, h)
           o == CausedBy(low, h)
           d == Tail(b)
<1>0. low \in Int /\ low2 \in Int
  BY BaseInt
<1>1. /\ d \in Seq(AckType) /\ h \in AckType /\ In(b, h)
      /\ \A m : In(d, m) => In(b, m) /\ Ahead(b, h, m)
      /\ \A m, x : Ahead(d, m, x) => Ahead(b, m, x)
  BY TailIn
<1>2. /\ \A m : AckIn(b, a, l, m) =>
           /\ AckPos(low, m) < e
           /\ CausedBy(low, m) \in R
           /\ la <= AckPos(low, m) /\ AckPos(low, m) + 1 < s.total /\ ~s.drained =>
                Held(s, (AckPos(low, m) + 1) % SeqCnt)
      /\ \A m, x : AckIn(b, a, l, m) /\ AckIn(b, a, l, x) /\ CausedBy(low, x) = AckPos(low, m) + 1 =>
           AckPos(low, m) < AckPos(low, x)
      /\ "reorder" \notin FaultKinds =>
           \A m, x : AckAhead(b, a, l, m, x) => AckPos(low, m) <= AckPos(low, x)
  BY DEF AckInv
<1>3. /\ "reorder" \in FaultKinds => low = -1 /\ low2 = -1
      /\ "reorder" \notin FaultKinds => low = la /\ low2 = la2
  BY DEF Base
<1>4. AckedPackets(s, t, la2, pos, o) /\ (la2 = la \/ la2 = pos)
  OBVIOUS
<1> HIDE DEF low, low2, h, d
<1>5. AckIn(b, a, l, h) /\ h.type = "ACK"
  BY <1>1 DEF AckIn, AckType
<1>6. pos \in Int /\ o \in Int
  BY <1>0, <1>5, AckTyped, AckNames
<1> HIDE DEF pos, o
<1>7. ASSUME NEW m, AckIn(d, a, l, m) PROVE AckIn(b, a, l, m) /\ AckAhead(b, a, l, h, m)
  BY <1>1, <1>5, <1>7 DEF AckIn, AckAhead
<1>8. ASSUME NEW m, NEW x, AckAhead(d, a, l, m, x) PROVE AckAhead(b, a, l, m, x)
  BY <1>1, <1>8 DEF AckAhead
\* The positions named do not depend on what has been acknowledged since.
<1>9. ASSUME NEW m, AckIn(d, a, l, m)
      PROVE  /\ AckPos(low2, m) = AckPos(low, m) /\ CausedBy(low2, m) = CausedBy(low, m)
             /\ AckPos(low, m) \in Int
  <2>1. m.ackNo \in SeqNo /\ m.orig \in SeqNo /\ AckIn(b, a, l, m)
    BY <1>7, <1>9, AckTyped
  <2>2. /\ AckPos(low, m) \in Int /\ low <= AckPos(low, m) /\ AckPos(low, m) < low + SeqCnt
        /\ m.ackNo = AckPos(low, m) % SeqCnt
    BY <1>0, <2>1, AckNames
  <2>3. AckPos(low2, m) = AckPos(low, m)
    <3>1. CASE "reorder" \in FaultKinds
      BY <1>3, <3>1
    <3>2. CASE "reorder" \notin FaultKinds
      <4>1. pos <= AckPos(low, m)
        BY <1>2, <1>7, <1>9, <3>2 DEF pos
      <4>2. low2 <= AckPos(low, m)
        BY <1>3, <1>4, <2>2, <3>2, <4>1
      <4>3. AckPos(low, m) < low2 + SeqCnt
        BY <1>0, <1>3, <2>2, <3>2, HalfFacts
      <4>4. QED
        BY <1>0, <2>1, <2>2, <4>2, <4>3, AckPosFacts
    <3>3. QED
      BY <3>1, <3>2
  <2>4. QED
    BY <2>2, <2>3 DEF CausedBy
<1>10. ASSUME NEW m, AckIn(d, a, l, m), la2 <= AckPos(low, m), AckPos(low, m) + 1 < t.total, ~t.drained
       PROVE  Held(t, (AckPos(low, m) + 1) % SeqCnt)
  <2> DEFINE i == AckPos(low, m) + 1
  <2>1. AckPos(low, m) \in Int /\ AckIn(b, a, l, m)
    BY <1>7, <1>9, <1>10
  <2>2. la <= AckPos(low, m)
    BY <1>10, <2>1
  <2>3. Held(s, i % SeqCnt)
    BY <1>2, <1>10, <2>1, <2>2
  <2>4. i \in Int /\ la2 < i /\ i < s.total
    BY <1>10, <2>1
  <2>5. ~(i = o /\ pos <= la2)
    <3>1. SUFFICES ASSUME i = o, pos <= la2 PROVE FALSE
      OBVIOUS
    <3>2. AckPos(low, m) < pos
      BY <1>2, <1>5, <2>1, <3>1 DEF o, pos
    <3>3. QED
      BY <1>6, <1>10, <2>1, <3>1, <3>2
  <2> HIDE DEF i
  <2>6. Held(t, i % SeqCnt)
    BY <1>4, <2>3, <2>4, <2>5 DEF AckedPackets
  <2>7. QED
    BY <2>6 DEF i
<1>11. ASSUME NEW m, AckIn(d, a, l, m)
       PROVE  /\ AckPos(low2, m) < e
              /\ CausedBy(low2, m) \in R
              /\ la2 <= AckPos(low2, m) /\ AckPos(low2, m) + 1 < t.total /\ ~t.drained =>
                   Held(t, (AckPos(low2, m) + 1) % SeqCnt)
  <2>1. AckPos(low2, m) = AckPos(low, m) /\ CausedBy(low2, m) = CausedBy(low, m) /\ AckIn(b, a, l, m)
    BY <1>7, <1>9, <1>11
  <2>2. AckPos(low, m) < e /\ CausedBy(low, m) \in R
    BY <1>2, <2>1
  <2>3. QED
    BY <1>10, <1>11, <2>1, <2>2
<1>12. ASSUME NEW m, NEW x, AckIn(d, a, l, m), AckIn(d, a, l, x), CausedBy(low2, x) = AckPos(low2, m) + 1
       PROVE  AckPos(low2, m) < AckPos(low2, x)
  BY <1>2, <1>7, <1>9, <1>12
<1>13. ASSUME "reorder" \notin FaultKinds, NEW m, NEW x, AckAhead(d, a, l, m, x)
       PROVE  AckPos(low2, m) <= AckPos(low2, x)
  <2>1. AckIn(d, a, l, m) /\ AckIn(d, a, l, x)
    BY <1>13, AckAheadIn
  <2>2. QED
    BY <1>2, <1>8, <1>9, <1>13, <2>1
<1>14. QED
  BY <1>11, <1>12, <1>13 DEF AckInv, low2, d

(***************************************************************************)
(* The receiver.                                                           *)
(***************************************************************************)
\* A packet the other end sent, as it reaches the receiver.
Arrives(id, R, ms) == id \in Int /\ 0 <= id /\ id <= ms /\ \A r \in R : r < id + Half

\* Whether the packet is in the receive window, and whether it is known.
LEMMA ArrivalFacts ==
  ASSUME NEW r \in ReceiverType, NEW R, NEW la \in Int, NEW ms \in Int, NEW e,
         ReceiverInv(r, R, la, ms, e), -1 <= la, ms <= la + Half, NEW id, Arrives(id, R, ms),
         NEW seq, seq = id % SeqCnt
  PROVE  /\ e \in Nat /\ seq \in SeqNo /\ e - 1 - Half < id /\ id <= e - 1 + Half
         /\ InWindow(r, seq) <=> e <= id
         /\ e <= id => Dist(seq, r.expectedSeq) = id - e /\ (seq \in r.buf <=> id \in R)
         /\ id < e => id \in R
<1>1. /\ e \in Nat /\ la < e
      /\ R \subseteq 0 .. ms /\ 0 .. e - 1 \subseteq R /\ e \notin R
      /\ r.expectedSeq = e % SeqCnt
      /\ \A q \in SeqNo : q \in r.buf <=> e + Dist(q, r.expectedSeq) \in R
  BY DEF ReceiverInv
<1>2. id \in Int /\ 0 <= id /\ id <= ms /\ \A x \in R : x < id + Half
  BY DEF Arrives
<1>3. seq \in SeqNo
  BY <1>2, Residue
<1>4. e - 1 - Half < id
  <2>1. CASE e = 0
    BY <1>2, <2>1, HalfFacts
  <2>2. CASE e # 0
    <3>1. e - 1 \in R
      BY <1>1, <2>2
    <3>2. e - 1 < id + Half
      BY <1>2, <3>1
    <3>3. QED
      BY <1>1, <1>2, <3>2, HalfFacts
  <2>3. QED
    BY <2>1, <2>2
<1>5. id <= e - 1 + Half
  BY <1>1, <1>2, HalfFacts
<1>6. /\ e <= id => Dist(seq, r.expectedSeq) = id - e
      /\ id < e => Dist(seq, r.expectedSeq) = id - e + SeqCnt
  <2>1. id < e + SeqCnt /\ e <= id + SeqCnt
    BY <1>1, <1>2, <1>4, <1>5, HalfFacts
  <2>2. QED
    BY <1>1, <1>2, <2>1, DistNear
<1>7. InWindow(r, seq) <=> e <= id
  <2>1. SeqCnt \div 2 = Half
    BY HalfFacts
  <2>2. CASE e <= id
    <3>1. id - e < Half
      BY <1>1, <1>2, <1>5, HalfFacts
    <3>2. QED
      BY <1>6, <2>1, <2>2, <3>1 DEF InWindow
  <2>3. CASE ~(e <= id)
    <3>1. id < e /\ ~(id - e + SeqCnt < Half)
      BY <1>1, <1>2, <1>4, <2>3, HalfFacts
    <3>2. QED
      BY <1>6, <2>1, <2>3, <3>1 DEF InWindow
  <2>4. QED
    BY <2>2, <2>3
<1>8. e <= id => (seq \in r.buf <=> id \in R)
  <2>1. ASSUME e <= id PROVE seq \in r.buf <=> id \in R
    <3>1. e + (id - e) = id
      BY <1>1, <1>2
    <3>2. QED
      BY <1>1, <1>3, <1>6, <2>1, <3>1
  <2>2. QED
    BY <2>1
<1>9. id < e => id \in R
  BY <1>1, <1>2
<1>10. QED
  BY <1>1, <1>3, <1>4, <1>5, <1>6, <1>7, <1>8, <1>9

\* The bits of the buffer are the packets from position e on.
LEMMA BitsAt ==
  ASSUME NEW e \in Nat, NEW k \in Int, 0 <= k, k < SeqCnt
  PROVE  /\ Plus(e % SeqCnt, k) = (e + k) % SeqCnt /\ Plus(e % SeqCnt, k) \in SeqNo
         /\ Dist(Plus(e % SeqCnt, k), e % SeqCnt) = k
<1>1. Plus(e % SeqCnt, k) = (e + k) % SeqCnt
  BY PlusOfResidue
<1> DEFINE i == e + k
<1>2. i \in Int /\ e <= i /\ i < e + SeqCnt /\ i - e = k
  BY HalfFacts
<1> HIDE DEF i
<1>3. Dist(i % SeqCnt, e % SeqCnt) = k /\ i % SeqCnt \in SeqNo
  BY <1>2, DistNear, Residue
<1>4. QED
  BY <1>1, <1>3 DEF i

\* storing a new packet, and the run of packets that then is complete.
LEMMA StoreStep ==
  ASSUME NEW r \in ReceiverType, NEW R, NEW la \in Int, NEW ms \in Int, NEW e,
         ReceiverInv(r, R, la, ms, e), -1 <= la, ms <= la + Half, NEW id, Arrives(id, R, ms), e <= id,
         NEW seq, seq = id % SeqCnt, NEW t, t = Store(r, seq)
  PROVE  /\ t \in ReceiverType
         /\ \E e2 \in Nat : e <= e2 /\ (id = e => e < e2) /\ ReceiverInv(t, R \cup {id}, la, ms, e2)
<1> DEFINE R2 == R \cup {id}
           x == r.expectedSeq
           bits == r.buf \cup {seq}
           Run(k) == /\ Plus(x, k) \notin bits
                     /\ \A j \in 0 .. k - 1 : Plus(x, j) \in bits
           run == CHOOSE k \in 0 .. SeqCnt : Run(k)
           T == {k \in Nat : e + k \notin R2}
<1>1. /\ e \in Nat /\ la < e
      /\ R \subseteq 0 .. ms /\ 0 .. e - 1 \subseteq R /\ e \notin R
      /\ x = e % SeqCnt
      /\ \A q \in SeqNo : q \in r.buf <=> e + Dist(q, x) \in R
  BY DEF ReceiverInv
<1>2. id \in Int /\ 0 <= id /\ id <= ms
  BY DEF Arrives
<1>3. /\ seq \in SeqNo /\ id <= e - 1 + Half /\ Dist(seq, x) = id - e
  BY ArrivalFacts
<1>4. R2 \subseteq 0 .. ms
  BY <1>1, <1>2
<1>5. ms < e + Half
  BY <1>1, HalfFacts
<1>6. ASSUME NEW q \in SeqNo
      PROVE  /\ Dist(q, x) \in SeqNo /\ Plus(x, Dist(q, x)) = q
             /\ q \in bits <=> e + Dist(q, x) \in R2
  <2>1. x \in SeqNo
    BY <1>1, Residue
  <2>2. Dist(q, x) \in SeqNo /\ Plus(x, Dist(q, x)) = q
    BY <2>1, DistSound
  <2>3. q = seq <=> e + Dist(q, x) = id
    <3>1. q = seq => e + Dist(q, x) = id
      BY <1>1, <1>2, <1>3
    <3>2. ASSUME e + Dist(q, x) = id PROVE q = seq
      <4>1. Dist(q, x) = id - e
        BY <1>1, <1>2, <2>2, <3>2, SeqCntFacts DEF SeqNo
      <4>2. Plus(x, Dist(seq, x)) = seq
        BY <1>3, <2>1, DistSound
      <4>3. QED
        BY <1>3, <2>2, <4>1, <4>2
    <3>3. QED
      BY <3>1, <3>2
  <2>4. QED
    BY <1>1, <2>2, <2>3
<1>7. t = [r EXCEPT !.buf = bits \ {Plus(x, j) : j \in 0 .. run - 1}, !.expectedSeq = Plus(x, run)]
  BY DEF Store
<1> HIDE DEF R2, x, bits
<1>8. ASSUME NEW k \in Int, 0 <= k, k < SeqCnt
      PROVE  /\ Plus(x, k) \in SeqNo /\ Dist(Plus(x, k), x) = k
             /\ Plus(x, k) \in bits <=> e + k \in R2
  <2>1. Plus(x, k) \in SeqNo /\ Dist(Plus(x, k), x) = k
    BY <1>1, <1>8, BitsAt
  <2>2. QED
    BY <1>6, <2>1
<1>9. Half \in T
  BY <1>1, <1>4, <1>5, HalfFacts
<1>10. PICK n \in T : \A m \in T : n <= m
  <2>1. T \subseteq Nat /\ T # {}
    BY <1>9
  <2> HIDE DEF T
  <2>2. QED
    BY <2>1, LeastOf
<1>11. /\ n \in Nat /\ n <= Half /\ e + n \notin R2
       /\ \A j \in Nat : j < n => e + j \in R2
  BY <1>9, <1>10
<1>12. n < SeqCnt /\ n \in 0 .. SeqCnt
  BY <1>11, HalfFacts
<1>13. Run(n)
  <2>1. Plus(x, n) \notin bits
    BY <1>8, <1>11, <1>12
  <2>2. ASSUME NEW j \in 0 .. n - 1 PROVE Plus(x, j) \in bits
    <3>1. j \in Int /\ 0 <= j /\ j < SeqCnt /\ j \in Nat /\ j < n
      BY <1>11, <1>12, SeqCntFacts
    <3>2. QED
      BY <1>8, <1>11, <3>1
  <2>3. QED
    BY <2>1, <2>2
<1>14. ASSUME NEW k \in 0 .. SeqCnt, Run(k) PROVE k = n
  <2>1. k \in Int /\ 0 <= k
    BY SeqCntFacts
  <2>2. ~(k < n)
    <3>1. SUFFICES ASSUME k < n PROVE FALSE
      OBVIOUS
    <3>2. k \in Nat /\ k < SeqCnt /\ e + k \in R2
      BY <1>11, <1>12, <2>1, <3>1, SeqCntFacts
    <3>3. Plus(x, k) \in bits
      BY <1>8, <2>1, <3>2
    <3>4. QED
      BY <1>14, <3>3
  <2>3. ~(n < k)
    <3>1. SUFFICES ASSUME n < k PROVE FALSE
      OBVIOUS
    <3>2. n \in 0 .. k - 1
      BY <1>11, <2>1, <3>1
    <3>3. Plus(x, n) \in bits
      BY <1>14, <3>2
    <3>4. QED
      BY <1>13, <3>3
  <2>4. QED
    BY <1>11, <2>1, <2>2, <2>3
<1> HIDE DEF Run, T
<1>15. run = n
  BY <1>12, <1>13, <1>14
<1> HIDE DEF run
<1> DEFINE gone == {Plus(x, j) : j \in 0 .. n - 1}
           e2 == e + n
<1>16. t = [r EXCEPT !.buf = bits \ gone, !.expectedSeq = Plus(x, n)]
  BY <1>7, <1>15
<1>17. Plus(x, n) = e2 % SeqCnt /\ Plus(x, n) \in SeqNo
  BY <1>1, <1>11, <1>12, BitsAt
<1>18. bits \subseteq SeqNo
  BY <1>3 DEF bits, ReceiverType
<1> HIDE DEF gone
<1>19. t \in ReceiverType /\ t.buf = bits \ gone /\ t.expectedSeq = e2 % SeqCnt
  BY <1>16, <1>17, <1>18 DEF ReceiverType
<1>20. e2 \in Nat /\ e <= e2 /\ (id = e => e < e2)
  <2>1. ASSUME id = e PROVE n # 0
    <3>1. e \in R2 /\ e + 0 = e
      BY <1>1, <2>1 DEF R2
    <3>2. QED
      BY <1>11, <3>1
  <2>2. QED
    BY <1>1, <1>11, <2>1
<1>21. 0 .. e2 - 1 \subseteq R2
  <2>1. ASSUME NEW i \in 0 .. e2 - 1 PROVE i \in R2
    <3>1. CASE i < e
      <4>1. i \in 0 .. e - 1
        BY <1>1, <3>1
      <4>2. QED
        BY <1>1, <4>1 DEF R2
    <3>2. CASE e <= i
      <4>1. i - e \in Nat /\ i - e < n /\ e + (i - e) = i
        BY <1>1, <1>11, <3>2
      <4>2. QED
        BY <1>11, <4>1
    <3>3. QED
      BY <1>1, <3>1, <3>2
  <2>2. QED
    BY <2>1
<1>22. ASSUME NEW q \in SeqNo PROVE q \in t.buf <=> e2 + Dist(q, t.expectedSeq) \in R2
  <2> DEFINE d == Dist(q, x)
             i == e + d
  <2>1. /\ d \in Int /\ 0 <= d /\ d < SeqCnt /\ Plus(x, d) = q
        /\ q \in bits <=> i \in R2
    BY <1>6, SeqCntFacts DEF SeqNo
  <2>2. q = i % SeqCnt
    BY <1>1, <2>1, BitsAt
  <2>3. i \in Int /\ e2 \in Int
    BY <1>1, <1>20, <2>1
  <2>4. q \in gone <=> d < n
    <3>1. ASSUME NEW j \in 0 .. n - 1, q = Plus(x, j) PROVE d < n
      <4>1. j \in Int /\ 0 <= j /\ j < SeqCnt /\ j < n
        BY <1>11, <1>12, SeqCntFacts
      <4>2. d = j
        BY <1>8, <3>1, <4>1
      <4>3. QED
        BY <4>1, <4>2
    <3>2. d < n => d \in 0 .. n - 1
      BY <1>11, <2>1
    <3>3. QED
      BY <2>1, <3>1, <3>2 DEF gone
  <2> HIDE DEF d
  <2>5. CASE d < n
    <3>1. i < e2 /\ e2 <= i + SeqCnt /\ e2 + (i - e2 + SeqCnt) = e + d + SeqCnt
      BY SeqCntFacts, <1>1, <1>11, <1>12, <2>1, <2>5
    <3>2. e + d + SeqCnt \notin R2
      BY <1>1, <1>4, <1>5, <2>1, HalfFacts
    <3> HIDE DEF i, e2
    <3>3. Dist(q, t.expectedSeq) = i - e2 + SeqCnt
      BY <1>19, <2>2, <2>3, <3>1, DistNear
    <3>4. e2 + Dist(q, t.expectedSeq) \notin R2
      BY <3>1, <3>2, <3>3
    <3>5. QED
      BY <1>19, <2>4, <2>5, <3>4
  <2>6. CASE ~(d < n)
    <3>1. e2 <= i /\ i < e2 + SeqCnt /\ e2 + (i - e2) = i
      BY SeqCntFacts, <1>1, <1>11, <1>12, <2>1, <2>6
    <3> HIDE DEF i, e2
    <3>2. Dist(q, t.expectedSeq) = i - e2
      BY <1>19, <2>2, <2>3, <3>1, DistNear
    <3>3. QED
      BY <1>19, <2>1, <2>4, <2>6, <3>1, <3>2
  <2>7. QED
    BY <2>5, <2>6
<1>23. ReceiverInv(t, R2, la, ms, e2)
  BY <1>1, <1>4, <1>11, <1>19, <1>20, <1>21, <1>22 DEF ReceiverInv
<1>24. QED
  BY <1>19, <1>20, <1>23 DEF R2

\* The receiver answers the packet id with an acknowledgement of position e2 - 1.
LEMMA AckSent ==
  ASSUME NEW b \in Seq(AckType), NEW a \in Seq(AckType), NEW l \in Seq(Message),
         NEW s \in SenderType, NEW R, NEW la \in Int, NEW ms \in Int, NEW e \in Nat, NEW e2 \in Nat,
         AckInv(b, a, l, s, R, la, e), SenderInv(s, R, la, ms), la < e, e <= e2,
         "reorder" \in FaultKinds => ms < Half,
         NEW id \in Int, NEW R2, R2 = R \cup {id}, id = e => e < e2, e2 \notin R2,
         0 .. e2 - 1 \subseteq R2, R2 \subseteq 0 .. ms, e2 - 1 - Half < id, id <= e2 - 1 + Half,
         NEW o \in Seq(Message), NEW ack, ack.ackNo = (e2 - 1) % SeqCnt, ack.orig = id % SeqCnt,
         \A m : In(o, m) /\ m.type = "ACK" => m = ack
  PROVE  AckInv(b, a, l \o o, s, R2, la, e2)
<1> DEFINE low == Base(la)
           k == l \o o
           top == e2 - 1
<1>0. low \in Int /\ top \in Int
  BY BaseInt
<1>1. /\ k \in Seq(Message)
      /\ \A m : In(k, m) => In(l, m) \/ In(o, m)
      /\ \A m, x : Ahead(k, m, x) => Ahead(l, m, x) \/ (In(l, m) /\ In(o, x)) \/ Ahead(o, m, x)
  BY ConcatIn
<1>2. \A m, x : Ahead(o, m, x) => In(o, m) /\ In(o, x)
  BY AheadIn
<1>3. /\ \A m : AckIn(b, a, l, m) =>
           /\ AckPos(low, m) < e
           /\ CausedBy(low, m) \in R
           /\ la <= AckPos(low, m) /\ AckPos(low, m) + 1 < s.total /\ ~s.drained =>
                Held(s, (AckPos(low, m) + 1) % SeqCnt)
      /\ \A m, x : AckIn(b, a, l, m) /\ AckIn(b, a, l, x) /\ CausedBy(low, x) = AckPos(low, m) + 1 =>
           AckPos(low, m) < AckPos(low, x)
      /\ "reorder" \notin FaultKinds =>
           \A m, x : AckAhead(b, a, l, m, x) => AckPos(low, m) <= AckPos(low, x)
  BY DEF AckInv
<1>4. /\ s.total \in Nat /\ -1 <= la /\ la <= ms /\ ms < s.total /\ s.total - 1 <= la + Half
      /\ GapInv(s, R, la, ms)
  BY WindowFacts DEF SenderInv, BufferInv
<1>5. top <= ms
  <2>1. CASE e2 = 0
    BY <1>4, <2>1
  <2>2. CASE e2 # 0
    <3>1. top \in 0 .. e2 - 1
      BY <2>2
    <3>2. QED
      BY <3>1
  <2>3. QED
    BY <2>1, <2>2
<1>6. low <= top /\ top < low + SeqCnt
  <2>1. CASE "reorder" \in FaultKinds
    BY <1>0, <1>4, <1>5, <2>1, HalfFacts DEF Base
  <2>2. CASE "reorder" \notin FaultKinds
    BY <1>0, <1>4, <1>5, <2>2, HalfFacts DEF Base
  <2>3. QED
    BY <2>1, <2>2
<1>7. ack.ackNo \in SeqNo /\ ack.orig \in SeqNo /\ ack.ackNo = top % SeqCnt
  BY <1>0, Residue
<1>20. e2 = top + 1
  OBVIOUS
<1> HIDE DEF low, k
<1>8. AckPos(low, ack) = top
  BY <1>0, <1>6, <1>7, AckPosFacts
<1>9. CausedBy(low, ack) = id
  BY <1>0, <1>7, <1>8, OrigPosFacts DEF CausedBy
<1> HIDE DEF top
<1>10. ASSUME NEW m, AckIn(b, a, k, m) PROVE AckIn(b, a, l, m) \/ m = ack
  BY <1>1, <1>10 DEF AckIn
<1>11. ASSUME NEW m, AckIn(b, a, l, m) PROVE AckPos(low, m) \in Int /\ CausedBy(low, m) \in Int
  BY <1>0, <1>11, AckTyped, AckNames
<1>12. ASSUME la <= top, e2 < s.total, ~s.drained PROVE Held(s, e2 % SeqCnt)
  <2>1. la < e2 /\ e2 \in Int /\ e2 \notin R
    OBVIOUS
  <2>2. QED
    BY <1>4, <1>12, <2>1 DEF GapInv
<1>13. ASSUME NEW m, AckIn(b, a, k, m)
       PROVE  /\ AckPos(low, m) < e2
              /\ CausedBy(low, m) \in R2
              /\ la <= AckPos(low, m) /\ AckPos(low, m) + 1 < s.total /\ ~s.drained =>
                   Held(s, (AckPos(low, m) + 1) % SeqCnt)
  <2>1. CASE AckIn(b, a, l, m)
    <3>1. AckPos(low, m) < e /\ CausedBy(low, m) \in R
      BY <1>3, <2>1
    <3>2. AckPos(low, m) < e2
      BY <1>11, <2>1, <3>1
    <3>3. QED
      BY <1>3, <2>1, <3>1, <3>2
  <2>2. CASE m = ack
    BY <1>8, <1>9, <1>12, <1>20, <2>2, <1>0
  <2>3. QED
    BY <1>10, <1>13, <2>1, <2>2
<1>14. ASSUME NEW m, NEW x, AckIn(b, a, k, m), AckIn(b, a, k, x), CausedBy(low, x) = AckPos(low, m) + 1
       PROVE  AckPos(low, m) < AckPos(low, x)
  <2>1. CASE AckIn(b, a, l, m) /\ AckIn(b, a, l, x)
    BY <1>3, <1>14, <2>1
  <2>2. CASE m = ack
    <3>1. CausedBy(low, x) = e2
      BY <1>8, <1>14, <1>20, <2>2
    <3>2. CausedBy(low, x) \in R2
      BY <1>13, <1>14
    <3>3. QED
      BY <3>1, <3>2
  <2>3. CASE AckIn(b, a, l, m) /\ x = ack
    <3>1. AckPos(low, m) < e /\ AckPos(low, m) \in Int
      BY <1>3, <1>11, <2>3
    <3>2. id = AckPos(low, m) + 1
      BY <1>9, <1>14, <2>3
    <3>3. AckPos(low, m) < top
      BY <1>0, <1>20, <3>1, <3>2
    <3>4. QED
      BY <1>8, <2>3, <3>3
  <2>4. QED
    BY <1>10, <1>14, <2>1, <2>2, <2>3
<1>15. ASSUME "reorder" \notin FaultKinds, NEW m, NEW x, AckAhead(b, a, k, m, x)
       PROVE  AckPos(low, m) <= AckPos(low, x)
  <2>1. CASE AckAhead(b, a, l, m, x)
    BY <1>3, <1>15, <2>1
  <2>2. CASE AckIn(b, a, k, m) /\ x = ack
    <3>1. AckPos(low, m) < e2
      BY <1>13, <2>2
    <3>2. AckPos(low, m) \in Int
      BY <1>0, <1>8, <1>10, <1>11, <2>2
    <3>3. AckPos(low, m) <= top
      BY <1>0, <1>20, <3>1, <3>2
    <3>4. QED
      BY <1>8, <2>2, <3>3
  <2>3. AckAhead(b, a, l, m, x) \/ (AckIn(b, a, k, m) /\ x = ack)
    <3>1. AckIn(b, a, k, m) /\ m.type = "ACK" /\ x.type = "ACK"
      BY <1>15, AckAheadIn DEF AckIn
    <3>2. QED
      BY <1>1, <1>2, <1>15, <3>1 DEF AckAhead
  <2>4. QED
    BY <2>1, <2>2, <2>3
<1>16. QED
  BY <1>13, <1>14, <1>15 DEF AckInv, low, k

(***************************************************************************)
(* Steps that touch neither the packets nor the window.                    *)
(***************************************************************************)
\* No packet, counter or flag of the window changes.
Like(s, t) ==
  /\ t.lastAcked = s.lastAcked /\ t.maxSent = s.maxSent /\ t.maxPacket = s.maxPacket
  /\ t.total = s.total /\ t.timerList = s.timerList /\ t.drained = s.drained
  /\ t.undelivered = s.undelivered /\ t.sendSeqLock = s.sendSeqLock
  /\ t.status = s.status /\ t.recover = s.recover
  /\ s.deadChannel => t.deadChannel
  /\ \A q \in SeqNo : t.buf[q].pkt = s.buf[q].pkt /\ t.buf[q].pktSent = s.buf[q].pktSent

\* The same slots are held,
LEMMA LikeHeld ==
  ASSUME NEW s, NEW t, Like(s, t)
  PROVE  /\ \A q \in SeqNo : Held(t, q) <=> Held(s, q)
         /\ HeldPackets(t) = HeldPackets(s)
<1>1. \A q \in SeqNo : t.buf[q].pkt = s.buf[q].pkt
  BY DEF Like
<1>2. \A q \in SeqNo : Held(t, q) <=> Held(s, q)
  BY <1>1 DEF Held
<1>3. QED
  BY <1>1, <1>2 DEF HeldPackets

\* ... so that everything said of the sender stays true.
LEMMA LikeInv ==
  ASSUME NEW s \in SenderType, NEW t \in SenderType, Like(s, t),
         NEW R, NEW la, NEW ms, SenderInv(s, R, la, ms)
  PROVE  SenderInv(t, R, la, ms)
<1>1. /\ WindowInv(s, la, ms) /\ (\A q \in SeqNo : SlotInv(s, la, ms, q))
      /\ TimerInv(s) /\ GapInv(s, R, la, ms) /\ DeathInv(s, R)
      /\ HeadInv(s, la) /\ RecoveryInv(s, la, ms)
  BY DEF SenderInv, BufferInv
<1>2. \A q \in SeqNo : Held(t, q) <=> Held(s, q)
  BY LikeHeld
<1>3. WindowInv(t, la, ms)
  BY <1>1 DEF WindowInv, Like
<1>4. \A q \in SeqNo : SlotInv(t, la, ms, q)
  BY <1>1, <1>2 DEF SlotInv, Like
<1>5. TimerInv(t)
  BY <1>1, <1>2 DEF TimerInv, Like
<1>6. GapInv(t, R, la, ms)
  BY <1>1, <1>2, Residue DEF GapInv, Like
<1>7. DeathInv(t, R)
  BY <1>1, <1>2 DEF DeathInv, Like
<1>8. HeadInv(t, la)
  <2>1. la + 1 \in Int
    BY <1>1 DEF WindowInv
  <2>2. QED
    BY <1>1, <1>2, <2>1, Residue DEF HeadInv, Like
<1>9. RecoveryInv(t, la, ms)
  BY <1>1 DEF RecoveryInv, InRecovery, Like
<1>10. QED
  BY <1>3, <1>4, <1>5, <1>6, <1>7, <1>8, <1>9 DEF SenderInv, BufferInv

\* Two such steps are one.
LEMMA LikeTrans ==
  ASSUME NEW r, NEW s, NEW t, Like(r, s), Like(s, t)
  PROVE  Like(r, t)
  BY DEF Like

\* For the packets it is as if nothing happened,
LEMMA LikeSubmits ==
  ASSUME NEW s, NEW t, Like(s, t)
  PROVE  Submits(s, t)
  BY LikeHeld DEF Like, Submits, AddsPacket

\* ... also right before another handler
LEMMA LikeBefore ==
  ASSUME NEW r, NEW s, NEW t, Like(r, s), Submits(s, t) \/ Returns(s, t)
  PROVE  Submits(r, t) \/ Returns(r, t)
<1>1. \A q \in SeqNo : s.buf[q].pkt = r.buf[q].pkt /\ (Held(s, q) <=> Held(r, q))
  BY LikeHeld DEF Like
<1>2. s.total = r.total /\ s.drained = r.drained /\ s.undelivered = r.undelivered
      /\ HeldPackets(s) = HeldPackets(r)
  BY LikeHeld DEF Like
<1>3. Submits(s, t) => Submits(r, t)
  BY <1>1, <1>2 DEF Submits, AddsPacket
<1>4. Returns(s, t) => Returns(r, t)
  BY <1>1, <1>2 DEF Returns
<1>5. QED
  BY <1>3, <1>4

\* ... or right after it.
LEMMA LikeAfter ==
  ASSUME NEW r, NEW s, NEW t, Like(s, t), Submits(r, s) \/ Returns(r, s)
  PROVE  Submits(r, t) \/ Returns(r, t)
<1>1. \A q \in SeqNo : t.buf[q].pkt = s.buf[q].pkt /\ (Held(t, q) <=> Held(s, q))
  BY LikeHeld DEF Like
<1>2. t.total = s.total /\ t.drained = s.drained /\ t.undelivered = s.undelivered
  BY DEF Like
<1>3. Submits(r, s) => Submits(r, t)
  BY <1>1, <1>2 DEF Submits, AddsPacket
<1>4. Returns(r, s) => Returns(r, t)
  BY <1>1, <1>2 DEF Returns
<1>5. QED
  BY <1>3, <1>4

\* Handing over the datagrams is such a step.
LEMMA ClearOut ==
  ASSUME NEW s \in SenderType, NEW t, t = [s EXCEPT !.out = <<>>]
  PROVE  /\ t \in SenderType /\ t.out = <<>> /\ Like(s, t)
         /\ t.up = s.up /\ t.started = s.started /\ t.shutDownSent = s.shutDownSent
<1>1. <<>> \in Seq(Message)
  OBVIOUS
<1>2. t \in SenderType
  BY <1>1 DEF SenderType
<1>3. t.buf = s.buf
  BY DEF SenderType
<1>4. /\ t.lastAcked = s.lastAcked /\ t.maxSent = s.maxSent /\ t.maxPacket = s.maxPacket
      /\ t.total = s.total /\ t.timerList = s.timerList /\ t.drained = s.drained
      /\ t.undelivered = s.undelivered /\ t.sendSeqLock = s.sendSeqLock
      /\ t.status = s.status /\ t.recover = s.recover /\ t.deadChannel = s.deadChannel
  BY DEF SenderType
<1>5. t.out = <<>> /\ t.up = s.up /\ t.started = s.started /\ t.shutDownSent = s.shutDownSent
  BY DEF SenderType
<1>6. QED
  BY <1>2, <1>3, <1>4, <1>5 DEF Like

(***************************************************************************)
(* One direction: its sender s, its receiver rc, the data packets on the   *)
(* way to it in lk and dq, the acknowledgements on the way back in bk, a   *)
(* and b, and the packets R received so far.                               *)
(***************************************************************************)
\* Everything about one direction: sender s, receiver rc, and what is under way
\* between them.
Dir(p, s, sh, R, rc, dq, lk, b, a, bk) ==
  \E la, ms, e \in Int :
    /\ SenderInv(s, R, la, ms) /\ CountInv(p, s, sh) /\ ReceiverInv(rc, R, la, ms, e)
    /\ DataInv(dq, lk, R, ms) /\ AckInv(b, a, bk, s, R, la, e)

\* The positions of the window and of the receiver.
LEMMA DirNumbers ==
  ASSUME NEW s \in SenderType, NEW R, NEW rc, NEW la, NEW ms, NEW e,
         SenderInv(s, R, la, ms), ReceiverInv(rc, R, la, ms, e)
  PROVE  /\ s.total \in Nat /\ la \in Int /\ ms \in Int /\ e \in Nat
         /\ -1 <= la /\ la <= ms /\ ms < s.total /\ s.total - 1 <= la + Half /\ ms <= la + Half
         /\ la < e /\ R \subseteq 0 .. ms /\ 0 .. e - 1 \subseteq R /\ 0 .. la \subseteq R /\ e \notin R
<1>1. /\ s.total \in Nat /\ la \in Int /\ ms \in Int
      /\ -1 <= la /\ la <= ms /\ ms < s.total /\ s.total - 1 <= la + Half
  BY WindowFacts DEF SenderInv, BufferInv
<1>2. e \in Nat /\ la < e /\ R \subseteq 0 .. ms /\ 0 .. e - 1 \subseteq R /\ e \notin R
  BY DEF ReceiverInv
<1>3. ms <= la + Half
  BY <1>1, HalfFacts
<1>4. 0 .. la \subseteq R
  BY <1>1, <1>2
<1>5. QED
  BY <1>1, <1>2, <1>3, <1>4

\* Where datagrams may be reordered, less than half of the space is used.
LEMMA FewNumbers ==
  ASSUME FewPackets, NEW p \in Node, NEW s \in SenderType, NEW sh, CountInv(p, s, sh)
  PROVE  s.total < Half
<1>1. MaxPackets[p] \in Nat /\ s.total \in Nat
  BY PacketIdFacts DEF SenderType
<1>2. CASE Closers = {}
  <2>1. MaxPackets[p] + 1 < Half /\ s.total <= MaxPackets[p] + 1 + 0
    BY <1>2 DEF FewPackets, CountInv
  <2>2. QED
    BY <1>1, <2>1, HalfFacts
<1>3. CASE Closers # {}
  <2>1. MaxPackets[p] + 3 < Half
    BY <1>3 DEF FewPackets
  <2>2. s.total <= MaxPackets[p] + 1 + 2
    BY <1>1 DEF CountInv
  <2>3. QED
    BY <1>1, <2>1, <2>2, HalfFacts
<1>4. QED
  BY <1>2, <1>3

\* Datagrams may move on, vanish or be duplicated,
LEMMA DirLess ==
  ASSUME NEW p, NEW s, NEW sh, NEW R, NEW rc, NEW dq \in Seq(DataType), NEW lk \in Seq(Message),
         NEW b \in Seq(AckType), NEW a \in Seq(AckType), NEW bk \in Seq(Message),
         Dir(p, s, sh, R, rc, dq, lk, b, a, bk),
         NEW dq2, NEW lk2, LessData(dq2, lk2, dq, lk), NEW b2, NEW a2, NEW bk2, LessAck(b2, a2, bk2, b, a, bk)
  PROVE  Dir(p, s, sh, R, rc, dq2, lk2, b2, a2, bk2)
<1>1. PICK la, ms, e \in Int :
         /\ SenderInv(s, R, la, ms) /\ CountInv(p, s, sh) /\ ReceiverInv(rc, R, la, ms, e)
         /\ DataInv(dq, lk, R, ms) /\ AckInv(b, a, bk, s, R, la, e)
  BY DEF Dir
<1>2. DataInv(dq2, lk2, R, ms)
  BY <1>1, DataLess
<1>3. AckInv(b2, a2, bk2, s, R, la, e)
  BY <1>1, AckLess
<1>4. QED
  BY <1>1, <1>2, <1>3 DEF Dir

\* ... or be reordered,
LEMMA DirSwapped ==
  ASSUME FewPackets, NEW p \in Node, NEW s \in SenderType, NEW sh, NEW R, NEW rc, NEW dq \in Seq(DataType),
         NEW lk \in Seq(Message), NEW b, NEW a, NEW bk,
         Dir(p, s, sh, R, rc, dq, lk, b, a, bk), NEW lk2, \A m : In(lk2, m) => In(lk, m)
  PROVE  Dir(p, s, sh, R, rc, dq, lk2, b, a, bk)
<1>1. PICK la, ms, e \in Int :
         /\ SenderInv(s, R, la, ms) /\ CountInv(p, s, sh) /\ ReceiverInv(rc, R, la, ms, e)
         /\ DataInv(dq, lk, R, ms) /\ AckInv(b, a, bk, s, R, la, e)
  BY DEF Dir
<1>2. ms < Half
  <2>1. ms < s.total /\ s.total \in Nat
    BY <1>1, DirNumbers
  <2>2. s.total < Half
    BY <1>1, FewNumbers
  <2>3. QED
    BY <2>1, <2>2, HalfFacts
<1>3. DataInv(dq, lk2, R, ms)
  BY <1>1, <1>2, DataSwapped
<1>4. QED
  BY <1>1, <1>3 DEF Dir

\* The sender takes a step and sends the datagrams o.
MovedOut(s, t, o, R, la, ms) ==
  /\ Submits(s, t) \/ Returns(s, t)
  /\ \E n \in Nat : SenderInv(t, R, la, ms + n) /\ DataOut(o, la, ms + n)

\* ... or sent by a handler of the sender.
LEMMA DirMoved ==
  ASSUME NEW p, NEW s \in SenderType, NEW sh, NEW R, NEW rc, NEW dq \in Seq(DataType), NEW lk \in Seq(Message),
         NEW b \in Seq(AckType), NEW a \in Seq(AckType), NEW bk \in Seq(Message),
         Dir(p, s, sh, R, rc, dq, lk, b, a, bk),
         NEW t \in SenderType, NEW sh2, CountInv(p, t, sh2), NEW o \in Seq(Message),
         \A la, ms \in Int : SenderInv(s, R, la, ms) /\ R \subseteq 0 .. ms /\ 0 .. la \subseteq R =>
            MovedOut(s, t, o, R, la, ms)
  PROVE  Dir(p, t, sh2, R, rc, dq, lk \o o, b, a, bk)
<1>1. PICK la, ms, e \in Int :
         /\ SenderInv(s, R, la, ms) /\ CountInv(p, s, sh) /\ ReceiverInv(rc, R, la, ms, e)
         /\ DataInv(dq, lk, R, ms) /\ AckInv(b, a, bk, s, R, la, e)
  BY DEF Dir
<1>2. /\ -1 <= la /\ la < e /\ e \in Nat
      /\ R \subseteq 0 .. ms /\ 0 .. e - 1 \subseteq R /\ 0 .. la \subseteq R /\ e \notin R
  BY <1>1, DirNumbers, ZenonT(60)
<1>3. MovedOut(s, t, o, R, la, ms)
  BY <1>1, <1>2
<1>4. PICK n \in Nat : SenderInv(t, R, la, ms + n) /\ DataOut(o, la, ms + n)
  BY <1>3 DEF MovedOut
<1> DEFINE ms2 == ms + n
<1>5. ms2 \in Int /\ ms <= ms2
  OBVIOUS
<1>6. SenderInv(t, R, la, ms2) /\ DataOut(o, la, ms2)
  BY <1>4
<1>7. Moved(s, t, R, la, ms)
  BY <1>3, <1>4 DEF Moved, MovedOut
<1> HIDE DEF ms2
<1>8. ms2 <= la + Half
  <2>1. /\ t.total \in Nat /\ ms2 < t.total /\ t.total - 1 <= la + Half
    BY <1>6, WindowFacts DEF SenderInv, BufferInv
  <2>2. QED
    BY <1>5, <2>1, HalfFacts
<1>9. R \subseteq 0 .. ms2
  BY <1>2, <1>5
<1>10. ReceiverInv(rc, R, la, ms2, e)
  BY <1>1, <1>9 DEF ReceiverInv
<1>11. DataInv(dq, lk \o o, R, ms2)
  BY <1>1, <1>2, <1>5, <1>6, <1>8, DataGrow
<1>12. AckInv(b, a, bk, t, R, la, e)
  BY <1>1, <1>2, <1>7, AckMoved
<1>13. QED
  BY <1>5, <1>6, <1>10, <1>11, <1>12 DEF Dir

(***************************************************************************)
(* Processing an acknowledgement keeps its direction.                      *)
(***************************************************************************)
LEMMA AckInFront ==
  ASSUME Orderly, NEW p \in Node, NEW s \in SenderType, NEW sh, CountInv(p, s, sh), NEW R, NEW rc,
         NEW la, NEW ms, NEW e, SenderInv(s, R, la, ms), ReceiverInv(rc, R, la, ms, e),
         NEW b \in Seq(AckType), b # <<>>, NEW a \in Seq(AckType), NEW bk \in Seq(Message),
         AckInv(b, a, bk, s, R, la, e),
         NEW pos, pos = AckPos(Base(la), Head(b)), NEW o, o = CausedBy(Base(la), Head(b))
  PROVE  /\ pos \in Int /\ o \in Int /\ Head(b).ackNo = pos % SeqCnt /\ Head(b).orig = o % SeqCnt
         /\ pos <= ms /\ la - pos < Half /\ 0 .. pos \subseteq R
         /\ o \in R /\ pos - Half < o /\ o <= pos + Half /\ o # pos + 1
         /\ la <= pos => HeadInv(s, pos)
<1> DEFINE m == Head(b)
           low == Base(la)
<1>1. /\ s.total \in Nat /\ la \in Int /\ ms \in Int /\ e \in Nat
      /\ -1 <= la /\ la <= ms /\ ms < s.total
      /\ la < e /\ R \subseteq 0 .. ms /\ 0 .. e - 1 \subseteq R
  BY DirNumbers
<1>2. In(b, m) /\ m \in AckType
  BY TailIn
<1>3. AckIn(b, a, bk, m)
  BY <1>2 DEF AckIn, AckType
<1>4. low \in Int /\ m.ackNo \in SeqNo /\ m.orig \in SeqNo
  BY <1>1, <1>2, BaseInt DEF AckType
<1>5. pos = AckPos(low, m) /\ o = CausedBy(low, m)
  OBVIOUS
<1> HIDE DEF m, low
<1>6. /\ pos \in Int /\ low <= pos
      /\ m.ackNo = pos % SeqCnt
      /\ o \in Int /\ m.orig = o % SeqCnt
      /\ pos - Half < o /\ o <= pos + Half
  BY <1>4, <1>5, AckNames
<1>7. pos < e /\ o \in R /\ (la <= pos /\ pos + 1 < s.total /\ ~s.drained => Held(s, (pos + 1) % SeqCnt))
  BY <1>3, <1>5 DEF AckInv, low
<1>8. o # pos + 1
  <2>1. CausedBy(low, m) = AckPos(low, m) + 1 => AckPos(low, m) < AckPos(low, m)
    BY <1>3 DEF AckInv, low
  <2>2. QED
    BY <2>1, <1>5, <1>6
<1>9. 0 .. pos \subseteq R
  <2>1. 0 .. pos \subseteq 0 .. e - 1
    BY <1>1, <1>6, <1>7
  <2>2. QED
    BY <1>1, <2>1
<1>10. pos <= ms
  <2>1. CASE pos < 0
    BY <1>1, <1>6, <2>1
  <2>2. CASE pos >= 0
    <3>1. pos \in 0 .. ms
      BY <1>1, <1>6, <1>9, <2>2
    <3>2. QED
      BY <3>1
  <2>3. QED
    BY <1>6, <2>1, <2>2
<1>11. la - pos < Half
  <2>4. s.total \in Int /\ la \in Int /\ la < s.total /\ pos \in Int /\ low <= pos
    BY <1>1, <1>6
  <2>1. CASE "reorder" \in FaultKinds
    <3>1. s.total < Half
      BY <2>1, FewNumbers DEF Orderly
    <3>2. low = -1
      BY <2>1 DEF low, Base
    <3>3. QED
      BY ONLY <2>4, <3>1, <3>2, HalfFacts
  <2>2. CASE "reorder" \notin FaultKinds
    <3>1. low = la
      BY <2>2 DEF low, Base
    <3>2. QED
      BY <1>1, <1>6, <3>1, HalfFacts
  <2>3. QED
    BY <2>1, <2>2
<1>12. la <= pos => HeadInv(s, pos)
  BY <1>7 DEF HeadInv
<1>13. QED
  BY <1>6, <1>7, <1>8, <1>9, <1>10, <1>11, <1>12 DEF m

\* The sender forgets packets and takes none.
Forgets(s, t) ==
  /\ t.total = s.total /\ t.drained = s.drained /\ t.undelivered = s.undelivered
  /\ \A q \in SeqNo : Held(t, q) => Held(s, q) /\ t.buf[q].pkt = s.buf[q].pkt

\* ackRecv keeps the direction it belongs to.
LEMMA DirAnswered ==
  ASSUME Orderly, NEW p \in Node, NEW s \in SenderType, s.out = <<>>, NEW sh, NEW R, NEW rc,
         NEW dq \in Seq(DataType), NEW lk \in Seq(Message),
         NEW b \in Seq(AckType), b # <<>>, NEW a \in Seq(AckType), NEW bk \in Seq(Message),
         Dir(p, s, sh, R, rc, dq, lk, b, a, bk),
         NEW t, t = ProcessAck(s, Head(b))
  PROVE  /\ t \in SenderType /\ Fixed(s, t) /\ Forgets(s, t)
         /\ \A m : In(t.out, m) => m.type = "DAT"
         /\ Dir(p, t, sh, R, rc, dq, lk \o t.out, Tail(b), a, bk)
<1>1. PICK la, ms, e \in Int :
         /\ SenderInv(s, R, la, ms) /\ CountInv(p, s, sh) /\ ReceiverInv(rc, R, la, ms, e)
         /\ DataInv(dq, lk, R, ms) /\ AckInv(b, a, bk, s, R, la, e)
  BY DEF Dir
<1> DEFINE pos == AckPos(Base(la), Head(b))
           o == CausedBy(Base(la), Head(b))
<1>2. /\ s.total \in Nat /\ e \in Nat /\ -1 <= la /\ la <= ms /\ ms < s.total /\ la < e
      /\ R \subseteq 0 .. ms /\ 0 .. e - 1 \subseteq R /\ 0 .. la \subseteq R /\ e \notin R
  BY <1>1, DirNumbers
<1>3. pos = AckPos(Base(la), Head(b)) /\ o = CausedBy(Base(la), Head(b))
  OBVIOUS
<1> HIDE DEF pos, o
<1>4. /\ pos \in Int /\ o \in Int /\ Head(b).ackNo = pos % SeqCnt /\ Head(b).orig = o % SeqCnt
      /\ pos <= ms /\ la - pos < Half /\ 0 .. pos \subseteq R
      /\ o \in R /\ pos - Half < o /\ o <= pos + Half /\ o # pos + 1
      /\ la <= pos => HeadInv(s, pos)
  BY <1>1, <1>3, AckInFront
<1>5. Answered(s, t, R, la, ms, pos, o)
  BY <1>1, <1>2, <1>4, ProcessAckStep
<1>6. t \in SenderType /\ Fixed(s, t)
  BY <1>5 DEF Answered
<1>7. PICK la2, ms2 \in Int :
         /\ la <= la2 /\ (la2 = la \/ la2 = pos) /\ ms <= ms2
         /\ SenderInv(t, R, la2, ms2) /\ OutInv(t.out, la2, ms2) /\ AckedPackets(s, t, la2, pos, o)
  BY <1>5 DEF Answered
<1>8. t.total = s.total /\ t.drained = s.drained /\ t.undelivered = s.undelivered
      /\ t.shutDownSent = s.shutDownSent /\ t.up = s.up /\ t.started = s.started
  BY <1>6 DEF Fixed
<1>9. Forgets(s, t)
  BY <1>7, <1>8 DEF Forgets, AckedPackets
<1>10. t.out \in Seq(Message)
  BY <1>6 DEF SenderType
<1>11. \A m : In(t.out, m) => m.type = "DAT"
  BY <1>7 DEF In, OutInv
<1>12. DataOut(t.out, la2, ms2)
  BY <1>7 DEF In, OutInv, DataOut
<1>13. ms2 <= la2 + Half
  <2>1. /\ t.total \in Nat /\ ms2 < t.total /\ t.total - 1 <= la2 + Half
    BY <1>6, <1>7, WindowFacts DEF SenderInv, BufferInv
  <2>2. QED
    BY <1>7, <2>1, HalfFacts
<1>14. DataInv(dq, lk \o t.out, R, ms2)
  <2>1. -1 <= la2
    BY <1>2, <1>7
  <2>2. QED
    BY <1>1, <1>2, <1>7, <1>10, <1>12, <1>13, <2>1, DataGrow
<1>15. CountInv(p, t, sh)
  BY <1>1, <1>8 DEF CountInv
<1>16. la2 < e
  <2>1. pos < e
    <3>1. CASE pos >= 0
      <4>1. pos \in R /\ 0 <= pos
        BY <1>4, <3>1
      <4>2. pos # e
        BY <1>2, <4>1
      <4>3. e <= pos => e \in 0 .. pos
        BY <1>2, <1>4
      <4>4. QED
        BY <1>2, <1>4, <4>2, <4>3
    <3>2. CASE pos < 0
      BY <1>2, <1>4, <3>2
    <3>3. QED
      BY <1>4, <3>1, <3>2
  <2>2. QED
    BY <1>2, <1>7, <2>1
<1>17. ReceiverInv(rc, R, la2, ms2, e)
  <2>1. R \subseteq 0 .. ms2
    BY <1>2, <1>7
  <2>2. QED
    BY <1>1, <1>16, <2>1 DEF ReceiverInv
<1>18. AckInv(Tail(b), a, bk, t, R, la2, e)
  BY <1>1, <1>3, <1>6, <1>7, <1>8, AckAnswered
<1>19. QED
  BY <1>6, <1>7, <1>9, <1>11, <1>14, <1>15, <1>17, <1>18 DEF Dir

(***************************************************************************)
(* pktRecv keeps the direction the packet came from.                       *)
(***************************************************************************)
LEMMA ResidueAround ==
  ASSUME NEW i \in Int
  PROVE  Plus(i % SeqCnt, SeqCnt - 1) = (i - 1) % SeqCnt
<1> DEFINE j == i - 1
           r == j % SeqCnt
           d == j \div SeqCnt
<1>1. j \in Int /\ i + (SeqCnt - 1) = j + SeqCnt /\ SeqCnt - 1 \in Int
  BY SeqCntFacts
<1>2. r \in SeqNo /\ d \in Int /\ j = d * SeqCnt + r
  BY <1>1, Residue
<1>3. r \in Int
  BY <1>2, SeqCntFacts DEF SeqNo
<1>4. Plus(i % SeqCnt, SeqCnt - 1) = (i + (SeqCnt - 1)) % SeqCnt
  BY <1>1, PlusOfResidue
<1>5. r = (i - 1) % SeqCnt
  OBVIOUS
<1> HIDE DEF j, r, d
<1>6. j + SeqCnt = (d + 1) * SeqCnt + r /\ d + 1 \in Int
  BY <1>2, <1>3, SeqCntFacts
<1>7. (j + SeqCnt) % SeqCnt = r
  BY <1>2, <1>6, ResidueUnique
<1>8. QED
  BY <1>1, <1>4, <1>5, <1>7

\* The sender does not depend on how much has arrived.
LEMMA MoreReceived ==
  ASSUME NEW s, NEW R, NEW la, NEW ms, SenderInv(s, R, la, ms), NEW R2, R \subseteq R2
  PROVE  SenderInv(s, R2, la, ms)
<1>1. GapInv(s, R, la, ms) => GapInv(s, R2, la, ms)
  BY DEF GapInv
<1>2. DeathInv(s, R) => DeathInv(s, R2)
  BY DEF DeathInv
<1>3. QED
  BY <1>1, <1>2 DEF SenderInv, BufferInv

\* The receiver after the packet with sequence number seq.
Took(rc, seq) ==
  [(IF InWindow(rc, seq) THEN Store(rc, seq) ELSE rc) EXCEPT !.recvStarted = TRUE]
Fresh(rc, seq) == InWindow(rc, seq) /\ seq \notin rc.buf
NowReceived(R, rc, m) == IF Fresh(rc, m.seq) THEN R \cup {m.pkt.id} ELSE R
\* The datagrams o, acknowledging nothing or the packet seq.
Answers(o, rc2, seq) ==
  \A x : In(o, x) /\ x.type = "ACK" => x = AckMsg(Plus(rc2.expectedSeq, SeqCnt - 1), seq)

\* What the receiver expects after packet id, and what its answer says.
Expecting(t, R, la, ms, e, id) ==
  \E e2 \in Nat : /\ e <= e2 /\ (id = e => e < e2) /\ ReceiverInv(t, R, la, ms, e2)
                  /\ e2 - 1 - Half < id /\ id <= e2 - 1 + Half
                  /\ Plus(t.expectedSeq, SeqCnt - 1) = (e2 - 1) % SeqCnt

\* What the receiver knows after one more packet.
LEMMA TookStep ==
  ASSUME NEW r \in ReceiverType, NEW R, NEW la \in Int, NEW ms \in Int, NEW e,
         ReceiverInv(r, R, la, ms, e), -1 <= la, ms <= la + Half, NEW id, Arrives(id, R, ms),
         NEW seq, seq = id % SeqCnt, NEW t, t = Took(r, seq)
  PROVE  /\ t \in ReceiverType
         /\ Fresh(r, seq) => id \notin R
         /\ ~Fresh(r, seq) => id \in R
         /\ Expecting(t, R \cup {id}, la, ms, e, id)
<1> DEFINE u == IF InWindow(r, seq) THEN Store(r, seq) ELSE r
           R2 == R \cup {id}
<1>1. /\ e \in Nat /\ seq \in SeqNo
      /\ InWindow(r, seq) <=> e <= id
      /\ e <= id => (seq \in r.buf <=> id \in R)
      /\ id < e => id \in R
  BY ArrivalFacts
<1>2. id \in Int /\ \A x \in R : x < id + Half
  BY DEF Arrives
<1>3. u \in ReceiverType /\ \E e2 \in Nat : e <= e2 /\ (id = e => e < e2) /\ ReceiverInv(u, R2, la, ms, e2)
  <2>1. CASE e <= id
    <3>1. u = Store(r, seq)
      BY <1>1, <2>1
    <3> HIDE DEF u
    <3>2. QED
      BY <2>1, <3>1, StoreStep
  <2>2. CASE id < e
    <3>1. u = r
      BY <1>1, <1>2, <2>2
    <3>2. R2 = R
      BY <1>1, <2>2
    <3>3. id # e
      BY <1>1, <1>2, <2>2
    <3>4. u \in ReceiverType /\ ReceiverInv(u, R2, la, ms, e)
      BY <3>1, <3>2
    <3> HIDE DEF u, R2
    <3>5. e <= e /\ (id = e => e < e) /\ e \in Nat
      BY <1>1, <3>3
    <3>6. QED
      BY <3>4, <3>5
  <2>3. e <= id \/ id < e
    BY <1>1, <1>2
  <2> HIDE DEF u, R2
  <2>4. QED
    BY <2>1, <2>2, <2>3
<1>4. t = [u EXCEPT !.recvStarted = TRUE]
  BY DEF Took
<1> HIDE DEF u
<1>5. t \in ReceiverType /\ t.expectedSeq = u.expectedSeq /\ t.buf = u.buf
  BY <1>3, <1>4 DEF ReceiverType
<1>6. PICK e2 \in Nat : e <= e2 /\ (id = e => e < e2) /\ ReceiverInv(u, R2, la, ms, e2)
  BY <1>3
<1>7. ReceiverInv(t, R2, la, ms, e2)
  BY <1>5, <1>6 DEF ReceiverInv
<1>8. Arrives(id, R2, ms)
  <2>1. id < id + Half
    BY <1>2, HalfFacts
  <2>2. QED
    BY <2>1 DEF Arrives
<1> HIDE DEF R2
<1>9. e2 - 1 - Half < id /\ id <= e2 - 1 + Half
  BY <1>5, <1>7, <1>8, ArrivalFacts
<1>10. t.expectedSeq = e2 % SeqCnt
  BY <1>7 DEF ReceiverInv
<1>11. Plus(t.expectedSeq, SeqCnt - 1) = (e2 - 1) % SeqCnt
  BY <1>10, ResidueAround
<1>12. Fresh(r, seq) => id \notin R
  BY <1>1 DEF Fresh
<1>13. ~Fresh(r, seq) => id \in R
  BY <1>1, <1>2 DEF Fresh
<1>15. Expecting(t, R2, la, ms, e, id)
  BY <1>6, <1>7, <1>9, <1>11 DEF Expecting
<1>14. QED
  BY <1>5, <1>12, <1>13, <1>15 DEF R2

\* The data packet m in front has been taken and answered with o.
Takes(p, s, sh, R, rc, dq, lk, b, a, bk, m, rc2, R2, o) ==
  /\ rc2 \in ReceiverType
  /\ m.pkt.id \in Int /\ 0 <= m.pkt.id /\ m.pkt.id < s.total
  /\ m.pkt.chf => Closers # {}
  /\ Fresh(rc, m.seq) => m.pkt.id \notin R
  /\ Dir(p, s, sh, R2, rc2, Tail(dq), lk, b, a, bk \o o)

\* pktRecv keeps the direction the packet came from.
LEMMA DirTaken ==
  ASSUME Orderly, NEW p \in Node, NEW s \in SenderType, NEW sh, NEW R, NEW rc \in ReceiverType,
         NEW dq \in Seq(DataType), dq # <<>>, NEW lk \in Seq(Message),
         NEW b \in Seq(AckType), NEW a \in Seq(AckType), NEW bk \in Seq(Message),
         Dir(p, s, sh, R, rc, dq, lk, b, a, bk), NEW m, m = Head(dq),
         NEW rc2, rc2 = Took(rc, m.seq), NEW R2, R2 = NowReceived(R, rc, m),
         NEW o \in Seq(Message), Answers(o, rc2, m.seq)
  PROVE  Takes(p, s, sh, R, rc, dq, lk, b, a, bk, m, rc2, R2, o)
<1>1. PICK la, ms, e \in Int :
         /\ SenderInv(s, R, la, ms) /\ CountInv(p, s, sh) /\ ReceiverInv(rc, R, la, ms, e)
         /\ DataInv(dq, lk, R, ms) /\ AckInv(b, a, bk, s, R, la, e)
  BY DEF Dir
<1>2. /\ s.total \in Nat /\ e \in Nat /\ -1 <= la /\ la <= ms /\ ms < s.total /\ ms <= la + Half /\ la < e
  BY <1>1, DirNumbers
<1> DEFINE id == m.pkt.id
           ack == AckMsg(Plus(rc2.expectedSeq, SeqCnt - 1), m.seq)
<1>3. DataIn(dq, lk, m) /\ m \in DataType
  <2>1. In(dq, m) /\ m \in DataType
    BY TailIn
  <2>2. QED
    BY <2>1 DEF DataIn, DataType
<1>4. id \in Int
  BY <1>3, DataTyped
<1>5. /\ 0 <= id /\ id <= ms /\ m.seq = id % SeqCnt /\ (m.pkt.chf => Closers # {})
      /\ \A r \in R : r < id + Half
  BY <1>1, <1>3 DEF DataInv
<1>6. ack.ackNo = Plus(rc2.expectedSeq, SeqCnt - 1) /\ ack.orig = m.seq
  BY DEF AckMsg
<1>7. \A x : In(o, x) /\ x.type = "ACK" => x = ack
  BY DEF Answers
<1>8. id = m.pkt.id
  OBVIOUS
<1> DEFINE seq == m.seq
<1>21. seq = id % SeqCnt /\ rc2 = Took(rc, seq)
  BY <1>5
<1>22. seq = m.seq
  OBVIOUS
<1> HIDE DEF id, ack, seq
<1>9. Arrives(id, R, ms)
  BY <1>4, <1>5 DEF Arrives
<1>10. /\ rc2 \in ReceiverType
       /\ Fresh(rc, seq) => id \notin R
       /\ ~Fresh(rc, seq) => id \in R
       /\ Expecting(rc2, R \cup {id}, la, ms, e, id)
  BY <1>1, <1>2, <1>9, <1>21, TookStep
<1>11. R2 = R \cup {id}
  BY <1>8, <1>10, <1>22 DEF NowReceived
<1>12. PICK e2 \in Nat : /\ e <= e2 /\ (id = e => e < e2) /\ ReceiverInv(rc2, R2, la, ms, e2)
                         /\ e2 - 1 - Half < id /\ id <= e2 - 1 + Half
                         /\ Plus(rc2.expectedSeq, SeqCnt - 1) = (e2 - 1) % SeqCnt
  BY <1>10, <1>11 DEF Expecting
<1>13. R2 \subseteq 0 .. ms /\ 0 .. e2 - 1 \subseteq R2 /\ e2 \notin R2
  BY <1>12 DEF ReceiverInv
<1>14. "reorder" \in FaultKinds => ms < Half
  <2>1. ASSUME "reorder" \in FaultKinds PROVE ms < Half
    <3>1. s.total < Half
      BY <1>1, <2>1, FewNumbers DEF Orderly
    <3>2. QED
      BY <1>1, <1>2, <3>1, HalfFacts
  <2>2. QED
    BY <2>1
<1>15. AckInv(b, a, bk \o o, s, R2, la, e2)
  BY <1>1, <1>2, <1>4, <1>5, <1>6, <1>7, <1>11, <1>12, <1>13, <1>14, AckSent
<1>16. DataInv(Tail(dq), lk, R2, ms)
  BY <1>1, <1>8, <1>11, DataTaken
<1>17. SenderInv(s, R2, la, ms)
  BY <1>1, <1>11, MoreReceived
<1>18. Dir(p, s, sh, R2, rc2, Tail(dq), lk, b, a, bk \o o)
  BY <1>1, <1>12, <1>15, <1>16, <1>17 DEF Dir
<1>19. id < s.total
  BY <1>2, <1>4, <1>5
<1>20. /\ rc2 \in ReceiverType
       /\ m.pkt.id \in Int /\ 0 <= m.pkt.id /\ m.pkt.id < s.total
       /\ m.pkt.chf => Closers # {}
       /\ Fresh(rc, m.seq) => m.pkt.id \notin R
  BY <1>4, <1>5, <1>8, <1>10, <1>19, <1>22
<1>23. QED
  BY <1>18, <1>20 DEF Takes
=============================================================================
