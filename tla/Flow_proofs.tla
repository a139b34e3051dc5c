---------------------------- MODULE Flow_proofs ----------------------------
(***************************************************************************)
(* Proofs about Flow: the asserts of its reader hold, the windows agree    *)
(* although numbers wrap, and it implements Stream, for any number of      *)
(* packets, numbers, statuses and any window that FlowAssumption allows.   *)
(***************************************************************************)
EXTENDS Flow, FiniteSetTheorems, WellFoundedInduction, TLAPS

(***************************************************************************)
(* What the proofs assume of an instance, beyond FlowAssumption. Numbers   *)
(* are allocated by one thread of an end: an end that closes has a peer    *)
(* that neither closes nor sends, only answers. closeFlow has set its flag *)
(* when the answer comes. And if channels deliver packets twice, fewer     *)
(* than a quarter of the numbers are used, so that an old copy cannot pass *)
(* for a new packet.                                                       *)
(***************************************************************************)
OneNumberer == \A p \in Closers : Peer(p) \notin Closers /\ MaxWrites[Peer(p)] = 0

FewPackets ==
  \A p \in Node : MaxWrites[p] + (IF Closers = {} THEN 0 ELSE 1) < SeqCnt \div 4

Orderly ==
  /\ OneNumberer /\ "promptAnswer" \notin FaultKinds
  /\ "duplicate" \in FaultKinds => FewPackets

(***************************************************************************)
(* Absolute positions. The packets of a direction are numbered from 0; the *)
(* code knows these numbers modulo SeqCnt. FLAG_FFN is the last of them.   *)
(***************************************************************************)
FfnByApp(p) == app[p].ffn /\ app[p].pc \in {"flag", "wait", "forget", "done"}
FfnByConn(p) == p \notin Closers /\ flow[p].closed
FfnSent(p) == FfnByApp(p) \/ FfnByConn(p)

\* How many packets p has sent, and how many its reader has taken.
Sent(p) == written[p] + (IF FfnSent(p) THEN 1 ELSE 0)

TookFfn(p) == reader[p] = "ended" /\ flow[p].readUpto = lastRead[Peer(p)] % SeqCnt
Taken(p) == lastRead[Peer(p)] + (IF TookFfn(p) THEN 1 ELSE 0)

Ready(p) == Dist(flow[p].availableUpTo, flow[p].readUpto)
Acked(p) == Sent(p) + flow[p].remoteFreeWindow - RecvWindow

Place(p, m) == IF m.ffn THEN written[p] ELSE m.id - 1
IsPacketOf(p, m) ==
  /\ m \in Packet /\ m.seq = Place(p, m) % SeqCnt
  /\ IF m.ffn THEN FfnSent(p) /\ m.id = 0 ELSE m.id \in 1 .. written[p]

NoBefore(i) == (i + SeqCnt - 1) % SeqCnt

(***************************************************************************)
(* The parts of the invariant.                                             *)
(***************************************************************************)
FlowType ==
  [nextSeqNumber : SeqNo, remoteFreeWindow : 0 .. RecvWindow, ackedUpto : SeqNo,
   rcvPktQueue : [SeqNo -> Packet \cup {Null}], readUpto : SeqNo, availableUpTo : SeqNo,
   readSem : Int, closeInitiated : BOOLEAN, closed : BOOLEAN, closeSemaphore : Nat]

AppType ==
  [pc : {"new", "idle", "number", "check", "window", "refused", "flag", "wait", "forget", "done"},
   seq : SeqNo, ffn : BOOLEAN]
ConnType == [pc : {"idle", "number", "window"}, seq : SeqNo]
ReaderType == {"new", "reading", "waiting", "ended", "failed"}

FlowTypes ==
  /\ flow \in [Node -> FlowType]
  /\ listed \in [Node -> BOOLEAN] /\ pending \in [Node -> BOOLEAN] /\ created \in [Node -> Nat]
  /\ app \in [Node -> AppType]
  /\ reader \in [Node -> ReaderType]
  /\ reads \in [Node -> 0 .. ReadsPerControl]
  /\ conn \in [Node -> ConnType]
  /\ net \in [Node -> SUBSET Packet] /\ status \in [Node -> SUBSET SeqNo]
  /\ written \in [Node -> Nat] /\ lastRead \in [Node -> Nat] /\ open \in [Node -> BOOLEAN]
  /\ faults \in Nat

\* A flow begins once at each end.
StartInv(p) ==
  /\ app[p].pc = "new" <=> reader[p] = "new"
  /\ pending[p] => reader[p] = "new" /\ p # Opener /\ created[p] # 0
  /\ p # Opener /\ created[p] = 0 => reader[p] = "new"

\* The application's thread, and who closes.
AppInv(p) ==
  /\ written[p] <= MaxWrites[p]
  /\ app[p].pc \in {"new", "idle"} => open[p] /\ ~app[p].ffn
  /\ app[p].pc \in {"number", "check", "window", "refused"} /\ ~app[p].ffn =>
       open[p] /\ written[p] < MaxWrites[p]
  /\ app[p].pc \in {"check", "refused"} => ~app[p].ffn
  /\ app[p].pc \in {"flag", "wait"} => app[p].ffn
  /\ app[p].pc \in {"flag", "wait", "forget", "done"} => p \in Closers
  /\ app[p].ffn => p \in Closers /\ ~open[p]
  /\ flow[p].closeInitiated <=> FfnByApp(p) /\ app[p].pc # "flag"

\* The connection thread answers a close, of which it has everything by then.
AnswerInv(p) ==
  /\ conn[p].pc # "idle" => p \notin Closers /\ ~flow[p].closed
  /\ p \notin Closers /\ (conn[p].pc # "idle" \/ flow[p].closed) =>
       Peer(p) \in Closers /\ FfnByApp(Peer(p)) /\ Taken(p) + Ready(p) = Sent(Peer(p))

\* The numbers given out.
NumberInv(p) ==
  /\ app[p].pc \in {"new", "idle"} /\ conn[p].pc = "idle" =>
       flow[p].nextSeqNumber = NoBefore(Sent(p))
  /\ app[p].pc \in {"number", "check", "window"} => app[p].seq = Sent(p) % SeqCnt
  /\ app[p].pc \in {"check", "window"} => flow[p].nextSeqNumber = app[p].seq
  /\ conn[p].pc # "idle" => conn[p].seq = Sent(p) % SeqCnt
  /\ conn[p].pc = "window" => flow[p].nextSeqNumber = conn[p].seq

\* What is known to be read was read, is available and was sent.
WindowInv(p) ==
  /\ Acked(p) \in 0 .. Taken(Peer(p))
  /\ Taken(Peer(p)) + Ready(Peer(p)) <= Sent(p)
  /\ flow[p].ackedUpto = NoBefore(Acked(p))

\* The reader's end.
ReadInv(p) ==
  /\ flow[p].readUpto = NoBefore(Taken(p)) /\ lastRead[Peer(p)] <= written[Peer(p)]
  /\ \A k \in 1 .. Ready(p) : flow[p].rcvPktQueue[(Taken(p) + k - 1) % SeqCnt] # Null
  /\ reader[p] # "ended" => flow[p].readSem = Ready(p) - (IF conn[p].pc = "idle" THEN 0 ELSE 1)

\* Packets under way and packets that are kept.
NetInv(p) ==
  \A m \in net[p] :
    /\ IsPacketOf(p, m)
    /\ "duplicate" \notin FaultKinds =>
         Taken(Peer(p)) <= Place(p, m) /\ flow[Peer(p)].rcvPktQueue[m.seq] = Null

QueueInv(p) ==
  \A s \in SeqNo :
    LET m == flow[Peer(p)].rcvPktQueue[s] IN
    m # Null => IsPacketOf(p, m) /\ m.seq = s /\ Taken(Peer(p)) <= Place(p, m)

StatusInv(p) ==
  \A v \in status[p] :
    Dist(flow[p].readUpto, v) < SeqCnt \div 2 + (IF reader[p] = "ended" THEN RecvWindow ELSE reads[p])

DirectionInv(p) == WindowInv(p) /\ NetInv(p) /\ QueueInv(p)
EndInv(p) == StartInv(p) /\ AppInv(p) /\ AnswerInv(p) /\ NumberInv(p) /\ ReadInv(p) /\ StatusInv(p)

FlowInv == FlowTypes /\ \A p \in Node : EndInv(p) /\ DirectionInv(p)
-----------------------------------------------------------------------------
(***************************************************************************)
(* Arithmetic modulo the size of the number space.                         *)
(***************************************************************************)
LEMMA SpaceFacts ==
  /\ SeqCnt \in Nat /\ SeqCnt >= 4 /\ RecvWindow \in Nat /\ RecvWindow > 0
  /\ SeqCnt \div 4 \in Nat /\ SeqCnt = 4 * (SeqCnt \div 4) /\ SeqCnt \div 2 = 2 * (SeqCnt \div 4)
  /\ RecvWindow <= SeqCnt \div 4
  /\ ReadsPerControl \in Nat /\ ReadsPerControl < RecvWindow
  BY FlowAssumption DEF FlowAssumption

LEMMA Residue ==
  ASSUME NEW i \in Int
  PROVE  i % SeqCnt \in SeqNo /\ i \div SeqCnt \in Int /\ i = (i \div SeqCnt) * SeqCnt + (i % SeqCnt)
  BY SpaceFacts DEF SeqNo

LEMMA ResidueUnique ==
  ASSUME NEW q \in Int, NEW r \in SeqNo
  PROVE  (q * SeqCnt + r) % SeqCnt = r
<1> DEFINE S == SeqCnt
<1>1. S \in Nat /\ S > 0 /\ r \in 0 .. S - 1
  BY SpaceFacts DEF SeqNo
<1> HIDE DEF S
<1>2. (q * S + r) % S = r
  BY <1>1
<1>3. QED
  BY <1>2 DEF S

LEMMA ResidueAdd ==
  ASSUME NEW i \in Int, NEW k \in Int
  PROVE  ((i % SeqCnt) + k) % SeqCnt = (i + k) % SeqCnt
<1> DEFINE j == (i % SeqCnt) + k
<1>1. i % SeqCnt \in SeqNo /\ i \div SeqCnt \in Int /\ i = (i \div SeqCnt) * SeqCnt + (i % SeqCnt)
  BY Residue
<1>2. j \in Int
  BY <1>1, SpaceFacts DEF SeqNo
<1>3. j % SeqCnt \in SeqNo /\ j \div SeqCnt \in Int /\ j = (j \div SeqCnt) * SeqCnt + (j % SeqCnt)
  BY <1>2, Residue
<1> DEFINE a == i \div SeqCnt
           b == j \div SeqCnt
           r == j % SeqCnt
<1>4. a \in Int /\ b \in Int /\ r \in SeqNo /\ a + b \in Int
  BY <1>1, <1>3
<1>5. i + k = a * SeqCnt + j
  BY <1>1, SpaceFacts DEF SeqNo
<1>6. j = b * SeqCnt + r
  BY <1>3
<1> HIDE DEF j, a, b, r
<1>7. i + k = (a + b) * SeqCnt + r
  BY <1>4, <1>5, <1>6, SpaceFacts DEF SeqNo
<1>8. (i + k) % SeqCnt = r
  BY <1>4, <1>7, ResidueUnique
<1>9. QED
  BY <1>8 DEF r, j

LEMMA PlusOfResidue ==
  ASSUME NEW i \in Int, NEW k \in Int
  PROVE  Plus(i % SeqCnt, k) = (i + k) % SeqCnt
  BY ResidueAdd DEF Plus

LEMMA DistOfResidues ==
  ASSUME NEW i \in Int, NEW j \in Int
  PROVE  Dist(i % SeqCnt, j % SeqCnt) = (i - j) % SeqCnt
<1> DEFINE r == j % SeqCnt
           b == j \div SeqCnt
<1>1. r \in SeqNo /\ b \in Int /\ j = b * SeqCnt + r
  BY Residue
<1>2. r \in Int
  BY <1>1, SpaceFacts DEF SeqNo
<1>3. ((i % SeqCnt) - r) % SeqCnt = (i - r) % SeqCnt
  <2>1. -r \in Int /\ i % SeqCnt \in Int
    BY <1>2, Residue, SpaceFacts DEF SeqNo
  <2>2. ((i % SeqCnt) + (-r)) % SeqCnt = (i + (-r)) % SeqCnt
    BY <2>1, ResidueAdd
  <2> HIDE DEF r
  <2>3. (i % SeqCnt) + (-r) = (i % SeqCnt) - r /\ i + (-r) = i - r
    BY <1>2, <2>1
  <2>4. QED
    BY <2>2, <2>3
<1> DEFINE d == i - r
           c == d \div SeqCnt
           e == d % SeqCnt
<1>4. d \in Int /\ e \in SeqNo /\ c \in Int /\ d = c * SeqCnt + e
  BY <1>2, Residue
<1>5. i - j = d - b * SeqCnt /\ b * SeqCnt \in Int
  BY <1>1, <1>2, SpaceFacts
<1>9. ((i % SeqCnt) - (j % SeqCnt)) % SeqCnt = e
  BY <1>3
<1> HIDE DEF r, b, d, c, e
<1>6. i - j = (c - b) * SeqCnt + e /\ c - b \in Int
  BY <1>1, <1>4, <1>5, SpaceFacts DEF SeqNo
<1>7. (i - j) % SeqCnt = e
  BY <1>4, <1>6, ResidueUnique
<1>8. QED
  BY <1>7, <1>9 DEF Dist

\* Residues of numbers close to the space.
LEMMA ResidueNear ==
  ASSUME NEW d \in Int
  PROVE  /\ 0 <= d /\ d < SeqCnt => d % SeqCnt = d
         /\ -SeqCnt <= d /\ d < 0 => d % SeqCnt = d + SeqCnt
         /\ SeqCnt <= d /\ d < 2 * SeqCnt => d % SeqCnt = d - SeqCnt
  BY SpaceFacts

LEMMA ResidueEqual ==
  ASSUME NEW i \in Int, NEW j \in Int, i % SeqCnt = j % SeqCnt, -SeqCnt < i - j, i - j < SeqCnt
  PROVE  i = j
<1>1. (i - j) % SeqCnt = Dist(i % SeqCnt, i % SeqCnt)
  BY DistOfResidues
<1>2. Dist(i % SeqCnt, i % SeqCnt) = (i - i) % SeqCnt
  BY DistOfResidues
<1>3. (i - j) % SeqCnt = 0
  BY <1>1, <1>2, ResidueNear, SpaceFacts
<1>4. QED
  BY <1>3, ResidueNear, SpaceFacts

LEMMA DistSound ==
  ASSUME NEW x \in SeqNo, NEW y \in SeqNo
  PROVE  Dist(x, y) \in SeqNo /\ Plus(y, Dist(x, y)) = x /\ Dist(x, x) = 0
<1>1. x \in Int /\ y \in Int /\ x - y \in Int
  BY SpaceFacts DEF SeqNo
<1>2. Dist(x, y) \in SeqNo
  BY <1>1, Residue DEF Dist
<1>3. (y + ((x - y) % SeqCnt)) % SeqCnt = (y + (x - y)) % SeqCnt
  BY <1>1, <1>2, ResidueAdd, SpaceFacts DEF Dist, SeqNo
<1>4. x % SeqCnt = x
  BY <1>1, ResidueNear, SpaceFacts DEF SeqNo
<1>5. y + (x - y) = x /\ x - x = 0
  BY <1>1
<1>6. 0 % SeqCnt = 0
  BY ResidueNear, SpaceFacts
<1>7. QED
  BY <1>2, <1>3, <1>4, <1>5, <1>6 DEF Dist, Plus

(***************************************************************************)
(* The least element of a set of numbers, in place of an induction.        *)
(***************************************************************************)
Below == {ss \in Nat \X Nat : ss[1] < ss[2]}

LEMMA LeastOf ==
  ASSUME NEW T, T \subseteq Nat, T # {}
  PROVE  \E n \in T : \A m \in T : n <= m
<1>1. IsWellFoundedOn(Below, Nat)
  BY NatLessThanWellFounded DEF OpToRel, Below
<1>2. PICK n \in T : \A m \in T : <<m, n>> \notin Below
  BY <1>1, WFMin
<1>3. ASSUME NEW m \in T PROVE n <= m
  <2>1. <<m, n>> \notin Below /\ m \in Nat /\ n \in Nat
    BY <1>2
  <2>2. QED
    BY <2>1 DEF Below
<1>4. QED
  BY <1>3

LEMMA PeerFacts ==
  ASSUME NEW p \in Node
  PROVE  Peer(p) \in Node /\ Peer(p) # p /\ Peer(Peer(p)) = p /\ Node = {p, Peer(p)}
<1>1. IsFiniteSet(Node) /\ Cardinality(Node) = 2
  BY FlowAssumption DEF FlowAssumption
<1>2. IsFiniteSet(Node \ {p}) /\ Cardinality(Node \ {p}) = 1
  BY <1>1, FS_RemoveElement
<1>3. PICK q : Node \ {p} = {q}
  BY <1>2, FS_Singleton
<1>4. q \in Node /\ q # p /\ Node = {p, q}
  BY <1>3
<1>5. Peer(p) = q
  BY <1>4 DEF Peer
<1>6. Peer(q) = p
  BY <1>4 DEF Peer
<1>7. QED
  BY <1>4, <1>5, <1>6

LEMMA ResidueShift ==
  ASSUME NEW i \in Int
  PROVE  (i + SeqCnt) % SeqCnt = i % SeqCnt
<1>1. Plus(i % SeqCnt, SeqCnt) = (i + SeqCnt) % SeqCnt /\ i % SeqCnt \in SeqNo
  <2>1. SeqCnt \in Int
    BY SpaceFacts
  <2>2. QED
    BY <2>1, PlusOfResidue, Residue
<1>2. ((i % SeqCnt) + SeqCnt) % SeqCnt = i % SeqCnt
  <2>1. i % SeqCnt \in Int /\ 0 <= i % SeqCnt /\ i % SeqCnt < SeqCnt
    BY <1>1, SpaceFacts DEF SeqNo
  <2>2. QED
    BY <2>1, ResidueNear, SpaceFacts
<1>3. QED
  BY <1>1, <1>2 DEF Plus

\* The number before that of position i, and what is some positions from it.
LEMMA NoBeforeFacts ==
  ASSUME NEW i \in Nat
  PROVE  /\ NoBefore(i) \in SeqNo
         /\ \A k \in Int : Plus(NoBefore(i), k) = (i + k - 1) % SeqCnt
         /\ \A k \in Nat : Plus(NoBefore(i), k) = NoBefore(i + k)
         /\ \A j \in Nat : Dist(NoBefore(i), NoBefore(j)) = (i - j) % SeqCnt
         /\ NoBefore(i + 1) = i % SeqCnt
<1>1. i + SeqCnt - 1 \in Int
  BY SpaceFacts
<1>2. NoBefore(i) \in SeqNo
  BY <1>1, Residue DEF NoBefore
<1>3. ASSUME NEW k \in Int PROVE Plus(NoBefore(i), k) = (i + k - 1) % SeqCnt
  <2>1. Plus(NoBefore(i), k) = ((i + SeqCnt - 1) + k) % SeqCnt
    BY <1>1, PlusOfResidue DEF NoBefore
  <2>2. (i + SeqCnt - 1) + k = (i + k - 1) + SeqCnt /\ i + k - 1 \in Int
    BY SpaceFacts
  <2>3. QED
    BY <2>1, <2>2, ResidueShift
<1>4. ASSUME NEW k \in Nat PROVE Plus(NoBefore(i), k) = NoBefore(i + k)
  <2>1. (i + k) + SeqCnt - 1 = (i + k - 1) + SeqCnt /\ i + k - 1 \in Int /\ k \in Int
    BY SpaceFacts
  <2>2. QED
    BY <1>3, <2>1, ResidueShift DEF NoBefore
<1>5. ASSUME NEW j \in Nat PROVE Dist(NoBefore(i), NoBefore(j)) = (i - j) % SeqCnt
  <2>1. j + SeqCnt - 1 \in Int /\ (i + SeqCnt - 1) - (j + SeqCnt - 1) = i - j
    BY SpaceFacts
  <2>2. QED
    BY <1>1, <2>1, DistOfResidues DEF NoBefore
<1>6. NoBefore(i + 1) = i % SeqCnt
  <2>1. (i + 1) + SeqCnt - 1 = i + SeqCnt
    BY SpaceFacts
  <2>2. QED
    BY <2>1, ResidueShift DEF NoBefore
<1>7. QED
  BY <1>2, <1>3, <1>4, <1>5, <1>6

(***************************************************************************)
(* What the invariant says about the counters of one direction.            *)
(***************************************************************************)
LEMMA CounterFacts ==
  ASSUME FlowInv, NEW p \in Node
  PROVE  /\ Sent(p) \in Nat /\ Taken(p) \in Nat /\ Ready(p) \in Nat /\ Ready(p) < SeqCnt
         /\ Acked(p) \in Nat /\ Acked(p) <= Taken(Peer(p)) /\ Taken(Peer(p)) <= Sent(p)
         /\ Taken(Peer(p)) + Ready(Peer(p)) <= Sent(p) /\ Sent(p) <= Acked(p) + RecvWindow
         /\ flow[p].availableUpTo = NoBefore(Taken(p) + Ready(p))
         /\ flow[p].readUpto = NoBefore(Taken(p))
<1>1. Peer(p) \in Node
  BY PeerFacts
<1>2. flow \in [Node -> FlowType] /\ written \in [Node -> Nat] /\ lastRead \in [Node -> Nat]
  BY DEF FlowInv, FlowTypes
<1>3. \A r \in Node : Taken(r) \in Nat /\ Sent(r) \in Nat
  BY <1>2, PeerFacts DEF Taken, Sent
<1>4. \A r \in Node : flow[r].availableUpTo \in SeqNo /\ flow[r].readUpto \in SeqNo
                      /\ flow[r].remoteFreeWindow \in 0 .. RecvWindow
  BY <1>2 DEF FlowType
<1>5. \A r \in Node : Ready(r) \in SeqNo /\ Plus(flow[r].readUpto, Ready(r)) = flow[r].availableUpTo
  BY <1>4, DistSound DEF Ready
<1>6. \A r \in Node : Ready(r) \in Nat /\ Ready(r) < SeqCnt
  BY <1>5, SpaceFacts DEF SeqNo
<1>7. WindowInv(p) /\ ReadInv(p)
  BY DEF FlowInv, EndInv, DirectionInv
<1>8. flow[p].readUpto = NoBefore(Taken(p))
  BY <1>7 DEF ReadInv
<1>9. flow[p].availableUpTo = NoBefore(Taken(p) + Ready(p))
  BY <1>3, <1>5, <1>6, <1>8, NoBeforeFacts
<1>10. Acked(p) \in 0 .. Taken(Peer(p)) /\ Taken(Peer(p)) + Ready(Peer(p)) <= Sent(p)
  BY <1>7 DEF WindowInv
<1>11. Sent(p) <= Acked(p) + RecvWindow
  BY <1>3, <1>4, SpaceFacts DEF Acked
<1>12. QED
  BY <1>1, <1>3, <1>6, <1>8, <1>9, <1>10, <1>11

(***************************************************************************)
(* An end, and a direction, of which a step changes nothing that counts.   *)
(***************************************************************************)
LEMMA DirectionFrame ==
  ASSUME NEW p \in Node, DirectionInv(p), UNCHANGED <<Sent(p), FfnSent(p), written[p]>>,
         UNCHANGED <<Taken(Peer(p)), Ready(Peer(p)), flow[Peer(p)].rcvPktQueue>>,
         UNCHANGED <<flow[p].remoteFreeWindow, flow[p].ackedUpto>>, net'[p] \subseteq net[p]
  PROVE  DirectionInv(p)'
<1>1. Acked(p)' = Acked(p)
  BY DEF Acked
<1>2. WindowInv(p)'
  BY <1>1 DEF DirectionInv, WindowInv
<1>3. \A m : Place(p, m)' = Place(p, m) /\ (IsPacketOf(p, m) => IsPacketOf(p, m)')
  BY DEF Place, IsPacketOf
<1>4. NetInv(p)'
  BY <1>3 DEF DirectionInv, NetInv
<1>5. QueueInv(p)'
  BY <1>3 DEF DirectionInv, QueueInv
<1>6. QED
  BY <1>2, <1>4, <1>5 DEF DirectionInv

\* All that the invariant of an end is about, but how it began.
Same(p) ==
  <<flow[p].nextSeqNumber, flow[p].rcvPktQueue, flow[p].readUpto, flow[p].availableUpTo, flow[p].readSem,
    flow[p].closeInitiated, flow[p].closed, app[p], conn[p], reader[p], reads[p], open[p], written[p],
    lastRead[Peer(p)]>>

LEMMA SameCounters ==
  ASSUME NEW p \in Node, UNCHANGED Same(p)
  PROVE  UNCHANGED <<FfnByApp(p), FfnSent(p), Sent(p), Taken(p), Ready(p)>>
<1>1. UNCHANGED <<FfnByApp(p), FfnByConn(p)>>
  BY DEF Same, FfnByApp, FfnByConn
<1>2. UNCHANGED <<FfnSent(p), Sent(p)>>
  BY <1>1 DEF Same, FfnSent, Sent
<1>3. UNCHANGED <<Taken(p), Ready(p)>>
  BY DEF Same, Taken, TookFfn, Ready
<1>4. QED
  BY <1>1, <1>2, <1>3

LEMMA EndFrame ==
  ASSUME NEW p \in Node, EndInv(p), UNCHANGED Same(p), status'[p] \subseteq status[p],
         lastRead[Peer(p)] <= written'[Peer(p)], StartInv(p)', AnswerInv(p)'
  PROVE  EndInv(p)'
<1>1. UNCHANGED <<FfnByApp(p), FfnSent(p), Sent(p), Taken(p), Ready(p)>>
  BY SameCounters
<1>2. AppInv(p)'
  BY <1>1 DEF EndInv, AppInv, Same
<1>3. NumberInv(p)'
  BY <1>1 DEF EndInv, NumberInv, Same
<1>4. ReadInv(p)'
  BY <1>1 DEF EndInv, ReadInv, Same
<1>5. StatusInv(p)'
  BY DEF EndInv, StatusInv, Same
<1>6. QED
  BY <1>2, <1>3, <1>4, <1>5 DEF EndInv

LEMMA StartFrame ==
  ASSUME NEW p \in Node, StartInv(p), UNCHANGED <<app[p], reader[p], pending[p], created[p]>>
  PROVE  StartInv(p)'
  BY DEF StartInv

\* The answer of an end depends on the other one's close.
LEMMA AnswerFrame ==
  ASSUME NEW p \in Node, AnswerInv(p), UNCHANGED Same(p),
         UNCHANGED <<FfnByApp(Peer(p)), Sent(Peer(p))>>
  PROVE  AnswerInv(p)'
<1>1. UNCHANGED <<Taken(p), Ready(p)>>
  BY SameCounters
<1>2. QED
  BY <1>1 DEF AnswerInv, Same

(***************************************************************************)
(* Store, on a queue whose packets lie in the window: expected is what the *)
(* reader expects, end what the sender sends next.                         *)
(***************************************************************************)
Fits(queue, expected, end) ==
  \A s \in SeqNo : queue[s] # Null =>
     \E i \in Nat : /\ expected <= i /\ i < end /\ s = i % SeqCnt
                    /\ queue[s].ffn => i = end - 1

\* A place of the number space holds one position of the window at most.
LEMMA OnePosition ==
  ASSUME NEW queue, NEW expected \in Nat, NEW end \in Nat, end - expected <= RecvWindow,
         Fits(queue, expected, end), NEW i \in Nat, expected <= i, i < expected + SeqCnt,
         queue[i % SeqCnt] # Null
  PROVE  i < end /\ (queue[i % SeqCnt].ffn => i = end - 1)
<1>1. i % SeqCnt \in SeqNo /\ i \in Int
  BY Residue
<1>2. PICK j \in Nat : /\ expected <= j /\ j < end /\ i % SeqCnt = j % SeqCnt
                       /\ queue[i % SeqCnt].ffn => j = end - 1
  BY <1>1 DEF Fits
<1>3. -SeqCnt < i - j /\ i - j < SeqCnt /\ j \in Int
  BY <1>2, SpaceFacts
<1>4. i = j
  BY <1>1, <1>2, <1>3, ResidueEqual
<1>5. QED
  BY <1>2, <1>4

StoredQueue(f, m) == [f.rcvPktQueue EXCEPT ![m.seq] = m]

\* What makes CHOOSE in Store choose: a number of packets in order.
InOrder(queue, from, n) ==
  /\ \A k \in 1 .. n : queue[Plus(from, k)] # Null
  /\ \A k \in 1 .. n - 1 : ~queue[Plus(from, k)].ffn
  /\ \/ n > 0 /\ queue[Plus(from, n)].ffn
     \/ queue[Plus(from, n + 1)] = Null

LEMMA RunExists ==
  ASSUME NEW queue, NEW expected \in Nat, NEW end \in Nat, NEW ready \in Nat,
         end - expected <= RecvWindow, expected + ready <= end, Fits(queue, expected, end)
  PROVE  \E n \in 0 .. SeqCnt - 1 : InOrder(queue, NoBefore(expected + ready), n)
<1> DEFINE from == NoBefore(expected + ready)
           At(k) == queue[Plus(from, k)]
           Empty == {n \in Nat : At(n + 1) = Null}
<1>1. \A k \in Nat : Plus(from, k + 1) = (expected + ready + k) % SeqCnt
  <2> SUFFICES ASSUME NEW k \in Nat PROVE Plus(from, k + 1) = (expected + ready + k) % SeqCnt
    OBVIOUS
  <2>1. expected + ready \in Nat /\ k + 1 \in Int
    OBVIOUS
  <2>2. Plus(from, k + 1) = ((expected + ready) + (k + 1) - 1) % SeqCnt
    BY <2>1, NoBeforeFacts
  <2>3. (expected + ready) + (k + 1) - 1 = expected + ready + k
    OBVIOUS
  <2>4. QED
    BY <2>2, <2>3
<1> DEFINE last == end - expected - ready
<1>2. last \in Nat /\ last <= RecvWindow
  BY SpaceFacts
<1>3. At(last + 1) = Null
  <2>1. Plus(from, last + 1) = end % SeqCnt
    <3>1. Plus(from, last + 1) = (expected + ready + last) % SeqCnt
      BY <1>1, <1>2
    <3>2. expected + ready + last = end
      OBVIOUS
    <3>3. QED
      BY <3>1, <3>2
  <2>2. end < expected + SeqCnt /\ expected <= end
    BY SpaceFacts
  <2>3. queue[end % SeqCnt] # Null => end < end
    BY <2>2, OnePosition
  <2>4. QED
    BY <2>1, <2>3
<1>4. last \in Empty
  BY <1>2, <1>3
<1> HIDE DEF last
<1>5. PICK n \in Empty : \A j \in Empty : n <= j
  BY <1>4, LeastOf
<1>6. n \in Nat /\ n <= last /\ n <= SeqCnt - 1
  BY <1>2, <1>4, <1>5, SpaceFacts
<1>7. \A k \in 1 .. n : At(k) # Null
  <2> SUFFICES ASSUME NEW k \in 1 .. n PROVE At(k) # Null
    OBVIOUS
  <2>1. k - 1 \in Nat /\ k - 1 < n /\ (k - 1) + 1 = k
    BY <1>6
  <2>2. k - 1 \notin Empty
    BY <1>5, <1>6, <2>1
  <2>3. QED
    BY <2>1, <2>2
<1>8. \A k \in 1 .. n - 1 : ~At(k).ffn
  <2> SUFFICES ASSUME NEW k \in 1 .. n - 1, At(k).ffn PROVE FALSE
    OBVIOUS
  <2>1. k \in 1 .. n /\ k + 1 \in 1 .. n /\ k - 1 \in Nat /\ k \in Nat /\ (k - 1) + 1 = k
    BY <1>6
  <2>2. Plus(from, k) = (expected + ready + (k - 1)) % SeqCnt
    BY <1>1, <2>1
  <2>3. Plus(from, k + 1) = (expected + ready + k) % SeqCnt
    BY <1>1, <2>1
  <2>4. expected + ready + k < expected + SeqCnt /\ expected + ready + (k - 1) \in Nat
        /\ expected + ready + k \in Nat
    BY <1>2, <1>6, <2>1, SpaceFacts DEF last
  <2>5. expected + ready + (k - 1) = end - 1
    <3>1. queue[(expected + ready + (k - 1)) % SeqCnt] # Null /\ queue[(expected + ready + (k - 1)) % SeqCnt].ffn
      BY <1>7, <2>1, <2>2
    <3>2. expected <= expected + ready + (k - 1) /\ expected + ready + (k - 1) < expected + SeqCnt
      BY <2>1, <2>4, SpaceFacts
    <3>3. QED
      BY <2>4, <3>1, <3>2, OnePosition
  <2>6. expected + ready + k < end
    <3>1. queue[(expected + ready + k) % SeqCnt] # Null
      BY <1>7, <2>1, <2>3
    <3>2. expected <= expected + ready + k
      BY <2>1
    <3>3. QED
      BY <2>4, <3>1, <3>2, OnePosition
  <2>7. QED
    BY <2>1, <2>5, <2>6
<1>9. At(n + 1) = Null
  BY <1>5
<1>10. InOrder(queue, from, n)
  BY <1>7, <1>8, <1>9 DEF InOrder
<1>11. n \in 0 .. SeqCnt - 1
  BY <1>6, SpaceFacts
<1>12. QED
  BY <1>10, <1>11

\* How many packets Store makes available, and what becomes of the flow.
RunOf(f, m) == CHOOSE n \in 0 .. SeqCnt - 1 : InOrder(StoredQueue(f, m), f.availableUpTo, n)

LEMMA StoreIs ==
  ASSUME NEW f, NEW m
  PROVE  Store(f, m) = [f EXCEPT !.rcvPktQueue = StoredQueue(f, m),
                                 !.availableUpTo = Plus(@, RunOf(f, m)),
                                 !.readSem = @ + RunOf(f, m)]
  BY Zenon DEF Store, RunOf, StoredQueue, InOrder

LEMMA StoreSound ==
  ASSUME NEW f \in FlowType, NEW m \in Packet, NEW expected \in Nat, NEW end \in Nat, NEW ready \in Nat,
         end - expected <= RecvWindow, expected + ready <= end,
         f.availableUpTo = NoBefore(expected + ready), Fits(StoredQueue(f, m), expected, end)
  PROVE  /\ RunOf(f, m) \in Nat /\ expected + ready + RunOf(f, m) <= end
         /\ Plus(f.availableUpTo, RunOf(f, m)) = NoBefore(expected + (ready + RunOf(f, m)))
         /\ \A k \in ready + 1 .. ready + RunOf(f, m) :
               StoredQueue(f, m)[(expected + k - 1) % SeqCnt] # Null
         /\ ReachedFfn(f, m) => RunOf(f, m) > 0 /\ expected + ready + RunOf(f, m) = end
                                /\ StoredQueue(f, m)[(end - 1) % SeqCnt].ffn
                                /\ StoredQueue(f, m)[(end - 1) % SeqCnt] # Null
<1> DEFINE queue == StoredQueue(f, m)
           run == RunOf(f, m)
           from == f.availableUpTo
<1>1. run \in 0 .. SeqCnt - 1 /\ InOrder(queue, from, run)
  <2>1. \E n \in 0 .. SeqCnt - 1 : InOrder(queue, from, n)
    BY RunExists, ZenonT(60)
  <2>2. QED
    BY <2>1, Zenon DEF RunOf
<1>2. run \in Nat /\ run < SeqCnt /\ expected + ready \in Nat
  BY <1>1, SpaceFacts
<1> HIDE DEF queue, run, from
<1>3. Plus(from, run) = NoBefore(expected + ready + run)
  BY <1>2, NoBeforeFacts DEF from
<1>4. ASSUME NEW k \in ready + 1 .. ready + run PROVE queue[(expected + k - 1) % SeqCnt] # Null
  <2>1. k - ready \in 1 .. run /\ k - ready \in Int
    BY <1>2
  <2>2. queue[Plus(from, k - ready)] # Null
    BY <1>1, <2>1 DEF InOrder
  <2>3. Plus(from, k - ready) = ((expected + ready) + (k - ready) - 1) % SeqCnt
    BY <1>2, <2>1, NoBeforeFacts DEF from
  <2>4. (expected + ready) + (k - ready) - 1 = expected + k - 1
    BY <1>2
  <2>5. QED
    BY <2>2, <2>3, <2>4
<1>5. expected + ready + run <= end
  <2> SUFFICES ASSUME expected + ready + run > end PROVE FALSE
    BY <1>2
  <2> DEFINE k == end - expected + 1
  <2>1. k \in ready + 1 .. ready + run /\ expected + k - 1 = end
    BY <1>2
  <2>2. queue[end % SeqCnt] # Null
    BY <1>4, <2>1
  <2>3. end < expected + SeqCnt /\ expected <= end
    BY SpaceFacts
  <2>4. end < end
    BY <2>2, <2>3, OnePosition DEF queue
  <2>5. QED
    BY <2>4
<1>6. ASSUME ReachedFfn(f, m)
      PROVE  run > 0 /\ expected + ready + run = end /\ queue[(end - 1) % SeqCnt].ffn
             /\ queue[(end - 1) % SeqCnt] # Null
  <2>1. /\ Store(f, m).availableUpTo = Plus(from, run) /\ Store(f, m).rcvPktQueue = queue
    BY StoreIs DEF FlowType, from, run, queue
  <2>2. Plus(from, run) # from /\ queue[Plus(from, run)].ffn
    BY <1>6, <2>1, Zenon DEF ReachedFfn, from
  <2>3. run > 0
    <3>1. Plus(from, 0) = NoBefore(expected + ready + 0)
      BY <1>2, NoBeforeFacts DEF from
    <3>2. Plus(from, 0) = from
      BY <1>2, <3>1 DEF from
    <3>3. QED
      BY <1>2, <2>2, <3>2
  <2> DEFINE i == expected + ready + run - 1
  <2>4. Plus(from, run) = i % SeqCnt
    BY <1>2, NoBeforeFacts DEF from
  <2>5. i \in Nat /\ expected <= i /\ i < expected + SeqCnt
    BY <1>2, <1>5, <2>3, SpaceFacts
  <2>6. queue[i % SeqCnt] # Null
    <3>1. run \in 1 .. run
      BY <1>2, <2>3
    <3>2. QED
      BY <1>1, <2>4, <3>1 DEF InOrder
  <2> HIDE DEF i
  <2>7. i = end - 1
    BY <2>2, <2>4, <2>5, <2>6, OnePosition DEF queue
  <2>8. expected + ready + run = end
    BY <1>2, <2>7 DEF i
  <2>9. QED
    BY <2>2, <2>3, <2>4, <2>6, <2>7, <2>8
<1>7. NoBefore(expected + ready + run) = NoBefore(expected + (ready + run))
  BY <1>2 DEF NoBefore
<1>8. QED
  BY <1>2, <1>3, <1>4, <1>5, <1>6, <1>7 DEF queue, run, from

(***************************************************************************)
(* The initial states.                                                     *)
(***************************************************************************)
LEMMA FlowInitInv == Init => FlowInv
<1> SUFFICES ASSUME Init PROVE FlowInv
  OBVIOUS
<1> USE DEF Init
<1>1. SeqCnt - 1 \in SeqNo /\ 0 \in SeqNo /\ Node # {}
  BY SpaceFacts, FlowAssumption DEF SeqNo, FlowAssumption
<1>2. NewFlow \in FlowType
  BY <1>1, SpaceFacts DEF NewFlow, FlowType
<1>3. FlowTypes
  BY <1>1, <1>2, SpaceFacts, FlowAssumption DEF FlowTypes, AppType, ConnType, ReaderType, FlowAssumption
<1>4. ASSUME NEW p \in Node PROVE EndInv(p) /\ DirectionInv(p)
  <2> DEFINE q == Peer(p)
  <2>1. q \in Node
    BY PeerFacts
  <2>2. \A r \in Node : ~FfnByApp(r) /\ ~FfnSent(r) /\ Sent(r) = 0
    BY DEF FfnByApp, FfnByConn, FfnSent, Sent, NewFlow
  <2>3. \A r \in Node : Taken(r) = 0 /\ Ready(r) = 0
    <3>1. \A r \in Node : flow[r].availableUpTo = SeqCnt - 1 /\ flow[r].readUpto = SeqCnt - 1
      BY DEF NewFlow
    <3>2. Dist(SeqCnt - 1, SeqCnt - 1) = 0
      BY <1>1, DistSound
    <3>3. QED
      BY <3>1, <3>2, PeerFacts DEF Taken, TookFfn, Ready
  <2>4. NoBefore(0) = SeqCnt - 1
    <3>1. (SeqCnt - 1) % SeqCnt = SeqCnt - 1
      BY ResidueNear, SpaceFacts
    <3>2. 0 + SeqCnt - 1 = SeqCnt - 1
      BY SpaceFacts
    <3>3. QED
      BY <3>1, <3>2 DEF NoBefore
  <2>5. Acked(p) = 0
    BY <2>2, SpaceFacts DEF Acked, NewFlow
  <2>6. StartInv(p) /\ AppInv(p) /\ AnswerInv(p) /\ StatusInv(p)
    BY <2>2, FlowAssumption DEF StartInv, AppInv, AnswerInv, StatusInv, NewFlow, FlowAssumption
  <2>7. NumberInv(p)
    BY <2>2, <2>4 DEF NumberInv, NewFlow
  <2>8. ReadInv(p)
    BY <2>1, <2>3, <2>4 DEF ReadInv, NewFlow
  <2>9. WindowInv(p) /\ NetInv(p)
    BY <2>1, <2>2, <2>3, <2>4, <2>5 DEF WindowInv, NetInv, NewFlow
  <2>10. QueueInv(p)
    BY <2>1 DEF QueueInv, NewFlow
  <2>11. QED
    BY <2>6, <2>7, <2>8, <2>9, <2>10 DEF EndInv, DirectionInv
<1>5. QED
  BY <1>3, <1>4 DEF FlowInv

LEMMA NextIsSent ==
  ASSUME FlowInv, NEW p \in Node
  PROVE  /\ NextNumber(p) \in SeqNo
         /\ app[p].pc \in {"new", "idle"} /\ conn[p].pc = "idle" => NextNumber(p) = Sent(p) % SeqCnt
<1>1. flow[p].nextSeqNumber \in SeqNo /\ Sent(p) \in Nat /\ NumberInv(p)
  BY CounterFacts DEF FlowInv, FlowTypes, FlowType, EndInv
<1>2. flow[p].nextSeqNumber + 1 \in Int
  BY <1>1, SpaceFacts DEF SeqNo
<1>3. NextNumber(p) \in SeqNo
  BY <1>2, Residue DEF NextNumber, Plus
<1>4. ASSUME app[p].pc \in {"new", "idle"} /\ conn[p].pc = "idle"
      PROVE  NextNumber(p) = Sent(p) % SeqCnt
  <2>1. Plus(NoBefore(Sent(p)), 1) = NoBefore(Sent(p) + 1) /\ NoBefore(Sent(p) + 1) = Sent(p) % SeqCnt
    BY <1>1, NoBeforeFacts
  <2>2. QED
    BY <1>1, <1>4, <2>1 DEF NumberInv, NextNumber
<1>5. QED
  BY <1>3, <1>4

(***************************************************************************)
(* Steps that change neither what was sent nor what was taken.             *)
(***************************************************************************)
LEMMA QuietStep ==
  ASSUME FlowInv, NEW p \in Node, FlowTypes', StartInv(p)', AppInv(p)', NumberInv(p)',
         UNCHANGED <<Same(Peer(p)), flow[Peer(p)], pending[Peer(p)], created[Peer(p)], net>>,
         status'[Peer(p)] \subseteq status[Peer(p)],
         UNCHANGED <<FfnByApp(p), FfnByConn(p), written[p], lastRead[Peer(p)], reads[p]>>,
         UNCHANGED <<flow[p].closed, flow[p].readUpto, flow[p].availableUpTo, flow[p].rcvPktQueue,
                     flow[p].readSem, flow[p].remoteFreeWindow, flow[p].ackedUpto>>,
         UNCHANGED <<conn[p].pc = "idle", reader[p] = "ended">>,
         \A v \in status'[p] : v \in status[p] \/ Dist(flow[p].readUpto, v) < SeqCnt \div 2
  PROVE  FlowInv'
<1> DEFINE q == Peer(p)
<1>1. q \in Node /\ Peer(q) = p /\ Node = {p, q}
  BY PeerFacts
<1>2. UNCHANGED <<FfnByApp(q), FfnSent(q), Sent(q), Taken(q), Ready(q), written[q]>>
  BY <1>1, SameCounters DEF Same
<1>3. UNCHANGED <<FfnSent(p), Sent(p)>>
  BY DEF FfnSent, Sent
<1>4. UNCHANGED <<Taken(p), Ready(p)>>
  BY DEF Taken, TookFfn, Ready
<1>5. EndInv(p) /\ EndInv(q) /\ DirectionInv(p) /\ DirectionInv(q)
  BY <1>1 DEF FlowInv
<1>6. DirectionInv(p)'
  BY <1>2, <1>3, <1>5, DirectionFrame DEF Same
<1>7. DirectionInv(q)'
  BY <1>1, <1>2, <1>4, <1>5, DirectionFrame DEF Same
<1>8. EndInv(q)'
  <2>1. StartInv(q)'
    BY <1>1, <1>5, StartFrame DEF Same, EndInv
  <2>2. AnswerInv(q)'
    BY <1>1, <1>3, <1>5, AnswerFrame DEF EndInv
  <2>3. lastRead[Peer(q)] <= written'[Peer(q)]
    BY <1>1, <1>5 DEF EndInv, ReadInv
  <2>4. QED
    BY <1>1, <1>5, <2>1, <2>2, <2>3, EndFrame
<1>9. AnswerInv(p)' /\ ReadInv(p)'
  BY <1>1, <1>2, <1>4, <1>5 DEF EndInv, AnswerInv, ReadInv
<1>10. StatusInv(p)'
  <2>1. reads[p] \in Nat /\ RecvWindow \in Nat /\ SeqCnt \div 2 \in Nat
    BY SpaceFacts DEF FlowInv, FlowTypes
  <2>2. \A v \in status[p] : Dist(flow[p].readUpto, v)
                             < SeqCnt \div 2 + (IF reader[p] = "ended" THEN RecvWindow ELSE reads[p])
    BY <1>5 DEF EndInv, StatusInv
  <2>5. status'[p] \subseteq SeqNo
    BY DEF FlowTypes
  <2>3. ASSUME NEW v \in status'[p]
        PROVE  Dist(flow[p].readUpto, v) < SeqCnt \div 2 + (IF reader[p] = "ended" THEN RecvWindow ELSE reads[p])
    <3>1. Dist(flow[p].readUpto, v) \in Int
      BY SpaceFacts, DistSound, <2>5, SMTT(60) DEF FlowInv, FlowTypes, FlowType, SeqNo
    <3>2. QED
      BY <2>1, <2>2, <3>1
  <2>4. QED
    BY <2>3 DEF StatusInv
<1>11. QED
  BY <1>1, <1>5, <1>6, <1>7, <1>8, <1>9, <1>10 DEF FlowInv, EndInv

LEMMA AddNewFlowStep ==
  ASSUME FlowInv, Orderly, NEW p \in Node, AddNewFlow(p)
  PROVE  FlowInv'
<1> USE DEF AddNewFlow, threads, history
<1>1. Peer(p) \in Node /\ Peer(p) # p /\ Peer(Peer(p)) = p
  BY PeerFacts
<1>2. FlowTypes /\ StartInv(p) /\ AppInv(p) /\ AnswerInv(p) /\ NumberInv(p)
  BY DEF FlowInv, EndInv
<1>5. FlowTypes'
  <2>1. listed' \in [Node -> BOOLEAN]
    BY <1>2 DEF FlowTypes
  <2>2. app' \in [Node -> AppType]
    BY <1>2 DEF FlowTypes, AppType
  <2>3. reader' \in [Node -> ReaderType]
    BY <1>2 DEF FlowTypes, ReaderType
  <2>4. QED
    BY <1>2, <2>1, <2>2, <2>3 DEF FlowTypes
<1>6. /\ UNCHANGED <<Same(Peer(p)), flow[Peer(p)], pending[Peer(p)], created[Peer(p)], net>>
      /\ status'[Peer(p)] \subseteq status[Peer(p)]
  BY <1>1, <1>2 DEF Same, FlowTypes
<1>7. /\ UNCHANGED <<flow[p].closed, flow[p].readUpto, flow[p].availableUpTo, flow[p].rcvPktQueue,
                     flow[p].readSem, flow[p].remoteFreeWindow, flow[p].ackedUpto>>
      /\ UNCHANGED <<conn[p].pc = "idle", reader[p] = "ended", written[p], lastRead[Peer(p)]>>
  BY <1>2 DEF FlowTypes, AppType, ReaderType, FlowType, StartInv
<1>8. UNCHANGED <<FfnByApp(p), FfnByConn(p)>>
  BY <1>2, <1>7 DEF FlowTypes, AppType, ReaderType, FlowType, AppInv, StartInv, FfnByApp, FfnByConn
<1>9. UNCHANGED Sent(p)
  BY <1>7, <1>8 DEF FfnSent, Sent
<1>10. StartInv(p)'
  BY <1>2 DEF FlowTypes, AppType, ReaderType, FlowType, StartInv, AppInv
<1>11. AppInv(p)'
  BY <1>2, <1>8 DEF FlowTypes, AppType, ReaderType, FlowType, AppInv, StartInv, FfnByApp
<1>12. NumberInv(p)'
  BY <1>2, <1>9 DEF FlowTypes, AppType, ReaderType, FlowType, NumberInv, StartInv
<1>13. QED
  BY <1>5, <1>6, <1>7, <1>8, <1>10, <1>11, <1>12, QuietStep

LEMMA AcceptFlowStep ==
  ASSUME FlowInv, Orderly, NEW p \in Node, AcceptFlow(p)
  PROVE  FlowInv'
<1> USE DEF AcceptFlow, threads, history
<1>1. Peer(p) \in Node /\ Peer(p) # p /\ Peer(Peer(p)) = p
  BY PeerFacts
<1>2. FlowTypes /\ StartInv(p) /\ AppInv(p) /\ AnswerInv(p) /\ NumberInv(p)
  BY DEF FlowInv, EndInv
<1>5. FlowTypes'
  <2>1. pending' \in [Node -> BOOLEAN]
    BY <1>2 DEF FlowTypes
  <2>2. app' \in [Node -> AppType]
    BY <1>2 DEF FlowTypes, AppType
  <2>3. reader' \in [Node -> ReaderType]
    BY <1>2 DEF FlowTypes, ReaderType
  <2>4. QED
    BY <1>2, <2>1, <2>2, <2>3 DEF FlowTypes
<1>6. /\ UNCHANGED <<Same(Peer(p)), flow[Peer(p)], pending[Peer(p)], created[Peer(p)], net>>
      /\ status'[Peer(p)] \subseteq status[Peer(p)]
  BY <1>1, <1>2 DEF Same, FlowTypes
<1>7. /\ UNCHANGED <<flow[p].closed, flow[p].readUpto, flow[p].availableUpTo, flow[p].rcvPktQueue,
                     flow[p].readSem, flow[p].remoteFreeWindow, flow[p].ackedUpto>>
      /\ UNCHANGED <<conn[p].pc = "idle", reader[p] = "ended", written[p], lastRead[Peer(p)]>>
  BY <1>2 DEF FlowTypes, AppType, ReaderType, FlowType, StartInv
<1>8. UNCHANGED <<FfnByApp(p), FfnByConn(p)>>
  BY <1>2, <1>7 DEF FlowTypes, AppType, ReaderType, FlowType, AppInv, StartInv, FfnByApp, FfnByConn
<1>9. UNCHANGED Sent(p)
  BY <1>7, <1>8 DEF FfnSent, Sent
<1>10. StartInv(p)'
  BY <1>2 DEF FlowTypes, AppType, ReaderType, FlowType, StartInv, AppInv
<1>11. AppInv(p)'
  BY <1>2, <1>8 DEF FlowTypes, AppType, ReaderType, FlowType, AppInv, StartInv, FfnByApp
<1>12. NumberInv(p)'
  BY <1>2, <1>9 DEF FlowTypes, AppType, ReaderType, FlowType, NumberInv, StartInv
<1>13. QED
  BY <1>5, <1>6, <1>7, <1>8, <1>10, <1>11, <1>12, QuietStep

LEMMA SendDataStep ==
  ASSUME FlowInv, Orderly, NEW p \in Node, SendData(p)
  PROVE  FlowInv'
<1> USE DEF SendData, threads, history
<1>1. Peer(p) \in Node /\ Peer(p) # p /\ Peer(Peer(p)) = p
  BY PeerFacts
<1>2. FlowTypes /\ StartInv(p) /\ AppInv(p) /\ AnswerInv(p) /\ NumberInv(p)
  BY DEF FlowInv, EndInv
<1>3. NextNumber(p) \in SeqNo /\ (app[p].pc = "idle" /\ conn[p].pc = "idle" => NextNumber(p) = Sent(p) % SeqCnt)
  BY NextIsSent
<1>4. conn[p].pc = "idle"
  BY <1>1, <1>2, FlowAssumption DEF AnswerInv, AppInv, Orderly, OneNumberer, FlowTypes, FlowAssumption
<1>5. FlowTypes'
  <2>1. app' \in [Node -> AppType]
    BY <1>2, <1>3 DEF FlowTypes, AppType
  <2>2. QED
    BY <1>2, <2>1 DEF FlowTypes
<1>6. /\ UNCHANGED <<Same(Peer(p)), flow[Peer(p)], pending[Peer(p)], created[Peer(p)], net>>
      /\ status'[Peer(p)] \subseteq status[Peer(p)]
  BY <1>1, <1>2 DEF Same, FlowTypes
<1>7. /\ UNCHANGED <<flow[p].closed, flow[p].readUpto, flow[p].availableUpTo, flow[p].rcvPktQueue,
                     flow[p].readSem, flow[p].remoteFreeWindow, flow[p].ackedUpto>>
      /\ UNCHANGED <<conn[p].pc = "idle", reader[p] = "ended", written[p], lastRead[Peer(p)]>>
  BY <1>2 DEF FlowTypes, AppType, FlowType, StartInv
<1>8. UNCHANGED <<FfnByApp(p), FfnByConn(p)>>
  BY <1>2, <1>7 DEF FlowTypes, AppType, FlowType, AppInv, StartInv, FfnByApp, FfnByConn
<1>9. UNCHANGED Sent(p)
  BY <1>7, <1>8 DEF FfnSent, Sent
<1>10. StartInv(p)'
  BY <1>2 DEF FlowTypes, AppType, FlowType, StartInv, AppInv
<1>11. AppInv(p)'
  BY <1>2, <1>8 DEF FlowTypes, AppType, FlowType, AppInv, StartInv, FfnByApp
<1>12. NumberInv(p)'
  BY <1>2, <1>9, <1>3, <1>4 DEF FlowTypes, AppType, FlowType, NumberInv, StartInv
<1>13. QED
  BY <1>5, <1>6, <1>7, <1>8, <1>10, <1>11, <1>12, QuietStep

LEMMA CloseFlowStep ==
  ASSUME FlowInv, Orderly, NEW p \in Node, CloseFlow(p)
  PROVE  FlowInv'
<1> USE DEF CloseFlow, threads, history
<1>1. Peer(p) \in Node /\ Peer(p) # p /\ Peer(Peer(p)) = p
  BY PeerFacts
<1>2. FlowTypes /\ StartInv(p) /\ AppInv(p) /\ AnswerInv(p) /\ NumberInv(p)
  BY DEF FlowInv, EndInv
<1>3. NextNumber(p) \in SeqNo /\ (app[p].pc = "idle" /\ conn[p].pc = "idle" => NextNumber(p) = Sent(p) % SeqCnt)
  BY NextIsSent
<1>4. conn[p].pc = "idle"
  BY <1>2 DEF AnswerInv
<1>5. FlowTypes'
  <2>1. app' \in [Node -> AppType]
    <3>1. /\ [app[p] EXCEPT !.pc = "done"] \in AppType
          /\ [app[p] EXCEPT !.pc = "forget"] \in AppType
          /\ [pc |-> "number", seq |-> NextNumber(p), ffn |-> TRUE] \in AppType
      BY <1>2, <1>3 DEF FlowTypes, AppType
    <3>2. QED
      BY <1>2, <3>1 DEF FlowTypes
  <2>2. open' \in [Node -> BOOLEAN]
    BY <1>2 DEF FlowTypes
  <2>3. QED
    BY <1>2, <2>1, <2>2 DEF FlowTypes
<1>6. /\ UNCHANGED <<Same(Peer(p)), flow[Peer(p)], pending[Peer(p)], created[Peer(p)], net>>
      /\ status'[Peer(p)] \subseteq status[Peer(p)]
  BY <1>1, <1>2 DEF Same, FlowTypes
<1>7. /\ UNCHANGED <<flow[p].closed, flow[p].readUpto, flow[p].availableUpTo, flow[p].rcvPktQueue,
                     flow[p].readSem, flow[p].remoteFreeWindow, flow[p].ackedUpto>>
      /\ UNCHANGED <<conn[p].pc = "idle", reader[p] = "ended", written[p], lastRead[Peer(p)]>>
  BY <1>2 DEF FlowTypes, AppType, FlowType, StartInv
<1>8. UNCHANGED <<FfnByApp(p), FfnByConn(p)>>
  BY <1>2, <1>7 DEF FlowTypes, AppType, FlowType, AppInv, StartInv, FfnByApp, FfnByConn
<1>9. UNCHANGED Sent(p)
  BY <1>7, <1>8 DEF FfnSent, Sent
<1>10. StartInv(p)'
  BY <1>2 DEF FlowTypes, AppType, FlowType, StartInv, AppInv
<1>11. AppInv(p)'
  BY <1>2, <1>8 DEF FlowTypes, AppType, FlowType, AppInv, StartInv, FfnByApp
<1>12. NumberInv(p)'
  BY <1>2, <1>9, <1>3, <1>4 DEF FlowTypes, AppType, FlowType, NumberInv, StartInv
<1>13. QED
  BY <1>5, <1>6, <1>7, <1>8, <1>10, <1>11, <1>12, QuietStep

LEMMA GetNextSeqNoStep ==
  ASSUME FlowInv, Orderly, NEW p \in Node, GetNextSeqNo(p)
  PROVE  FlowInv'
<1> USE DEF GetNextSeqNo, threads, history
<1>1. Peer(p) \in Node /\ Peer(p) # p /\ Peer(Peer(p)) = p
  BY PeerFacts
<1>2. FlowTypes /\ StartInv(p) /\ AppInv(p) /\ AnswerInv(p) /\ NumberInv(p)
  BY DEF FlowInv, EndInv
<1>5. FlowTypes'
  <2>1. flow' \in [Node -> FlowType]
    <3>1. flow[p] \in FlowType /\ app[p] \in AppType
      BY <1>2 DEF FlowTypes
    <3>2. [flow[p] EXCEPT !.nextSeqNumber = app[p].seq] \in FlowType
      BY <3>1 DEF FlowType, AppType
    <3>3. QED
      BY <1>2, <3>2 DEF FlowTypes
  <2>2. app' \in [Node -> AppType]
    BY <1>2, SMTT(60) DEF FlowTypes, AppType
  <2>3. QED
    BY <1>2, <2>1, <2>2 DEF FlowTypes
<1>6. /\ UNCHANGED <<Same(Peer(p)), flow[Peer(p)], pending[Peer(p)], created[Peer(p)], net>>
      /\ status'[Peer(p)] \subseteq status[Peer(p)]
  BY <1>1, <1>2 DEF Same, FlowTypes
<1>7. /\ UNCHANGED <<flow[p].closed, flow[p].readUpto, flow[p].availableUpTo, flow[p].rcvPktQueue,
                     flow[p].readSem, flow[p].remoteFreeWindow, flow[p].ackedUpto>>
      /\ UNCHANGED <<conn[p].pc = "idle", reader[p] = "ended", written[p], lastRead[Peer(p)]>>
  BY <1>2 DEF FlowTypes, FlowType, AppType, StartInv
<1>8. UNCHANGED <<FfnByApp(p), FfnByConn(p)>>
  BY <1>2, <1>7 DEF FlowTypes, FlowType, AppType, AppInv, StartInv, FfnByApp, FfnByConn
<1>9. UNCHANGED Sent(p)
  BY <1>7, <1>8 DEF FfnSent, Sent
<1>10. StartInv(p)'
  BY <1>2 DEF FlowTypes, FlowType, AppType, StartInv, AppInv
<1>11. AppInv(p)'
  BY <1>2, <1>8 DEF FlowTypes, FlowType, AppType, AppInv, StartInv, FfnByApp
<1>12. NumberInv(p)'
  BY <1>2, <1>9 DEF FlowTypes, FlowType, AppType, NumberInv, StartInv
<1>13. QED
  BY <1>5, <1>6, <1>7, <1>8, <1>10, <1>11, <1>12, QuietStep

LEMMA CloseCheckStep ==
  ASSUME FlowInv, Orderly, NEW p \in Node, CloseCheck(p)
  PROVE  FlowInv'
<1> USE DEF CloseCheck, threads, history
<1>1. Peer(p) \in Node /\ Peer(p) # p /\ Peer(Peer(p)) = p
  BY PeerFacts
<1>2. FlowTypes /\ StartInv(p) /\ AppInv(p) /\ AnswerInv(p) /\ NumberInv(p)
  BY DEF FlowInv, EndInv
<1>5. FlowTypes'
  <2>1. app' \in [Node -> AppType]
    BY <1>2 DEF FlowTypes, AppType
  <2>2. QED
    BY <1>2, <2>1 DEF FlowTypes
<1>6. /\ UNCHANGED <<Same(Peer(p)), flow[Peer(p)], pending[Peer(p)], created[Peer(p)], net>>
      /\ status'[Peer(p)] \subseteq status[Peer(p)]
  BY <1>1, <1>2 DEF Same, FlowTypes
<1>7. /\ UNCHANGED <<flow[p].closed, flow[p].readUpto, flow[p].availableUpTo, flow[p].rcvPktQueue,
                     flow[p].readSem, flow[p].remoteFreeWindow, flow[p].ackedUpto>>
      /\ UNCHANGED <<conn[p].pc = "idle", reader[p] = "ended", written[p], lastRead[Peer(p)]>>
  BY <1>2 DEF FlowTypes, AppType, FlowType, StartInv
<1>8. UNCHANGED <<FfnByApp(p), FfnByConn(p)>>
  BY <1>2, <1>7 DEF FlowTypes, AppType, FlowType, AppInv, StartInv, FfnByApp, FfnByConn
<1>9. UNCHANGED Sent(p)
  BY <1>7, <1>8 DEF FfnSent, Sent
<1>10. StartInv(p)'
  BY <1>2 DEF FlowTypes, AppType, FlowType, StartInv, AppInv
<1>11. AppInv(p)'
  BY <1>2, <1>8 DEF FlowTypes, AppType, FlowType, AppInv, StartInv, FfnByApp
<1>12. NumberInv(p)'
  BY <1>2, <1>9 DEF FlowTypes, AppType, FlowType, NumberInv, StartInv
<1>13. QED
  BY <1>5, <1>6, <1>7, <1>8, <1>10, <1>11, <1>12, QuietStep

LEMMA CloseInitiatedStep ==
  ASSUME FlowInv, Orderly, NEW p \in Node, CloseInitiated(p)
  PROVE  FlowInv'
<1> USE DEF CloseInitiated, threads, history
<1>1. Peer(p) \in Node /\ Peer(p) # p /\ Peer(Peer(p)) = p
  BY PeerFacts
<1>2. FlowTypes /\ StartInv(p) /\ AppInv(p) /\ AnswerInv(p) /\ NumberInv(p)
  BY DEF FlowInv, EndInv
<1>5. FlowTypes'
  <2>1. flow' \in [Node -> FlowType]
    <3>1. flow[p] \in FlowType /\ app[p] \in AppType
      BY <1>2 DEF FlowTypes
    <3>2. [flow[p] EXCEPT !.closeInitiated = TRUE] \in FlowType
      BY <3>1 DEF FlowType, AppType
    <3>3. QED
      BY <1>2, <3>2 DEF FlowTypes
  <2>2. app' \in [Node -> AppType]
    BY <1>2 DEF FlowTypes, AppType
  <2>3. QED
    BY <1>2, <2>1, <2>2 DEF FlowTypes
<1>6. /\ UNCHANGED <<Same(Peer(p)), flow[Peer(p)], pending[Peer(p)], created[Peer(p)], net>>
      /\ status'[Peer(p)] \subseteq status[Peer(p)]
  BY <1>1, <1>2 DEF Same, FlowTypes
<1>7. /\ UNCHANGED <<flow[p].closed, flow[p].readUpto, flow[p].availableUpTo, flow[p].rcvPktQueue,
                     flow[p].readSem, flow[p].remoteFreeWindow, flow[p].ackedUpto>>
      /\ UNCHANGED <<conn[p].pc = "idle", reader[p] = "ended", written[p], lastRead[Peer(p)]>>
  BY <1>2 DEF FlowTypes, FlowType, AppType, StartInv
<1>8. UNCHANGED <<FfnByApp(p), FfnByConn(p)>>
  BY <1>2, <1>7 DEF FlowTypes, FlowType, AppType, AppInv, StartInv, FfnByApp, FfnByConn
<1>9. UNCHANGED Sent(p)
  BY <1>7, <1>8 DEF FfnSent, Sent
<1>10. StartInv(p)'
  BY <1>2 DEF FlowTypes, FlowType, AppType, StartInv, AppInv
<1>11. AppInv(p)'
  BY <1>2, <1>8 DEF FlowTypes, FlowType, AppType, AppInv, StartInv, FfnByApp
<1>12. NumberInv(p)'
  BY <1>2, <1>9 DEF FlowTypes, FlowType, AppType, NumberInv, StartInv
<1>13. QED
  BY <1>5, <1>6, <1>7, <1>8, <1>10, <1>11, <1>12, QuietStep

LEMMA ClosedStep ==
  ASSUME FlowInv, Orderly, NEW p \in Node, Closed(p)
  PROVE  FlowInv'
<1> USE DEF Closed, threads, history
<1>1. Peer(p) \in Node /\ Peer(p) # p /\ Peer(Peer(p)) = p
  BY PeerFacts
<1>2. FlowTypes /\ StartInv(p) /\ AppInv(p) /\ AnswerInv(p) /\ NumberInv(p)
  BY DEF FlowInv, EndInv
<1>5. FlowTypes'
  <2>1. flow' \in [Node -> FlowType]
    <3>1. flow[p] \in FlowType /\ app[p] \in AppType
      BY <1>2 DEF FlowTypes
    <3>2. [flow[p] EXCEPT !.closeSemaphore = @ - 1] \in FlowType
      BY <3>1 DEF FlowType, AppType
    <3>3. QED
      BY <1>2, <3>2 DEF FlowTypes
  <2>2. app' \in [Node -> AppType]
    BY <1>2 DEF FlowTypes, AppType
  <2>3. QED
    BY <1>2, <2>1, <2>2 DEF FlowTypes
<1>6. /\ UNCHANGED <<Same(Peer(p)), flow[Peer(p)], pending[Peer(p)], created[Peer(p)], net>>
      /\ status'[Peer(p)] \subseteq status[Peer(p)]
  BY <1>1, <1>2 DEF Same, FlowTypes
<1>7. /\ UNCHANGED <<flow[p].closed, flow[p].readUpto, flow[p].availableUpTo, flow[p].rcvPktQueue,
                     flow[p].readSem, flow[p].remoteFreeWindow, flow[p].ackedUpto>>
      /\ UNCHANGED <<conn[p].pc = "idle", reader[p] = "ended", written[p], lastRead[Peer(p)]>>
  BY <1>2 DEF FlowTypes, FlowType, AppType, StartInv
<1>8. UNCHANGED <<FfnByApp(p), FfnByConn(p)>>
  BY <1>2, <1>7 DEF FlowTypes, FlowType, AppType, AppInv, StartInv, FfnByApp, FfnByConn
<1>9. UNCHANGED Sent(p)
  BY <1>7, <1>8 DEF FfnSent, Sent
<1>10. StartInv(p)'
  BY <1>2 DEF FlowTypes, FlowType, AppType, StartInv, AppInv
<1>11. AppInv(p)'
  BY <1>2, <1>8 DEF FlowTypes, FlowType, AppType, AppInv, StartInv, FfnByApp
<1>12. NumberInv(p)'
  BY <1>2, <1>9 DEF FlowTypes, FlowType, AppType, NumberInv, StartInv
<1>13. QED
  BY <1>5, <1>6, <1>7, <1>8, <1>10, <1>11, <1>12, QuietStep

LEMMA ForgetStep ==
  ASSUME FlowInv, Orderly, NEW p \in Node, Forget(p)
  PROVE  FlowInv'
<1> USE DEF Forget, threads, history
<1>1. Peer(p) \in Node /\ Peer(p) # p /\ Peer(Peer(p)) = p
  BY PeerFacts
<1>2. FlowTypes /\ StartInv(p) /\ AppInv(p) /\ AnswerInv(p) /\ NumberInv(p)
  BY DEF FlowInv, EndInv
<1>5. FlowTypes'
  <2>1. listed' \in [Node -> BOOLEAN]
    BY <1>2 DEF FlowTypes
  <2>2. app' \in [Node -> AppType]
    BY <1>2 DEF FlowTypes, AppType
  <2>3. QED
    BY <1>2, <2>1, <2>2 DEF FlowTypes
<1>6. /\ UNCHANGED <<Same(Peer(p)), flow[Peer(p)], pending[Peer(p)], created[Peer(p)], net>>
      /\ status'[Peer(p)] \subseteq status[Peer(p)]
  BY <1>1, <1>2 DEF Same, FlowTypes
<1>7. /\ UNCHANGED <<flow[p].closed, flow[p].readUpto, flow[p].availableUpTo, flow[p].rcvPktQueue,
                     flow[p].readSem, flow[p].remoteFreeWindow, flow[p].ackedUpto>>
      /\ UNCHANGED <<conn[p].pc = "idle", reader[p] = "ended", written[p], lastRead[Peer(p)]>>
  BY <1>2 DEF FlowTypes, AppType, FlowType, StartInv
<1>8. UNCHANGED <<FfnByApp(p), FfnByConn(p)>>
  BY <1>2, <1>7 DEF FlowTypes, AppType, FlowType, AppInv, StartInv, FfnByApp, FfnByConn
<1>9. UNCHANGED Sent(p)
  BY <1>7, <1>8 DEF FfnSent, Sent
<1>10. StartInv(p)'
  BY <1>2 DEF FlowTypes, AppType, FlowType, StartInv, AppInv
<1>11. AppInv(p)'
  BY <1>2, <1>8 DEF FlowTypes, AppType, FlowType, AppInv, StartInv, FfnByApp
<1>12. NumberInv(p)'
  BY <1>2, <1>9 DEF FlowTypes, AppType, FlowType, NumberInv, StartInv
<1>13. QED
  BY <1>5, <1>6, <1>7, <1>8, <1>10, <1>11, <1>12, QuietStep

LEMMA StartReadStep ==
  ASSUME FlowInv, Orderly, NEW p \in Node, StartRead(p)
  PROVE  FlowInv'
<1> USE DEF StartRead, threads, history
<1>1. Peer(p) \in Node /\ Peer(p) # p /\ Peer(Peer(p)) = p
  BY PeerFacts
<1>2. FlowTypes /\ StartInv(p) /\ AppInv(p) /\ AnswerInv(p) /\ NumberInv(p)
  BY DEF FlowInv, EndInv
<1>5. FlowTypes'
  <2>1. reader' \in [Node -> ReaderType]
    BY <1>2 DEF FlowTypes, ReaderType
  <2>2. QED
    BY <1>2, <2>1 DEF FlowTypes
<1>6. /\ UNCHANGED <<Same(Peer(p)), flow[Peer(p)], pending[Peer(p)], created[Peer(p)], net>>
      /\ status'[Peer(p)] \subseteq status[Peer(p)]
  BY <1>1, <1>2 DEF Same, FlowTypes
<1>7. /\ UNCHANGED <<flow[p].closed, flow[p].readUpto, flow[p].availableUpTo, flow[p].rcvPktQueue,
                     flow[p].readSem, flow[p].remoteFreeWindow, flow[p].ackedUpto>>
      /\ UNCHANGED <<conn[p].pc = "idle", reader[p] = "ended", written[p], lastRead[Peer(p)]>>
  BY <1>2 DEF FlowTypes, ReaderType, AppType, FlowType, StartInv
<1>8. UNCHANGED <<FfnByApp(p), FfnByConn(p)>>
  BY <1>2, <1>7 DEF FlowTypes, ReaderType, AppType, FlowType, AppInv, StartInv, FfnByApp, FfnByConn
<1>9. UNCHANGED Sent(p)
  BY <1>7, <1>8 DEF FfnSent, Sent
<1>10. StartInv(p)'
  BY <1>2 DEF FlowTypes, ReaderType, AppType, FlowType, StartInv, AppInv
<1>11. AppInv(p)'
  BY <1>2, <1>8 DEF FlowTypes, ReaderType, AppType, FlowType, AppInv, StartInv, FfnByApp
<1>12. NumberInv(p)'
  BY <1>2, <1>9 DEF FlowTypes, ReaderType, AppType, FlowType, NumberInv, StartInv
<1>13. QED
  BY <1>5, <1>6, <1>7, <1>8, <1>10, <1>11, <1>12, QuietStep

LEMMA NumberAnswerStep ==
  ASSUME FlowInv, Orderly, NEW p \in Node, NumberAnswer(p)
  PROVE  FlowInv'
<1> USE DEF NumberAnswer, threads, history
<1>1. Peer(p) \in Node /\ Peer(p) # p /\ Peer(Peer(p)) = p
  BY PeerFacts
<1>2. FlowTypes /\ StartInv(p) /\ AppInv(p) /\ AnswerInv(p) /\ NumberInv(p)
  BY DEF FlowInv, EndInv
<1>5. FlowTypes'
  <2>1. flow' \in [Node -> FlowType]
    <3>1. flow[p] \in FlowType /\ conn[p] \in ConnType
      BY <1>2 DEF FlowTypes
    <3>2. [flow[p] EXCEPT !.nextSeqNumber = conn[p].seq] \in FlowType
      BY <3>1 DEF FlowType, ConnType
    <3>3. QED
      BY <1>2, <3>2 DEF FlowTypes
  <2>2. conn' \in [Node -> ConnType]
    BY <1>2 DEF FlowTypes, ConnType
  <2>3. QED
    BY <1>2, <2>1, <2>2 DEF FlowTypes
<1>6. /\ UNCHANGED <<Same(Peer(p)), flow[Peer(p)], pending[Peer(p)], created[Peer(p)], net>>
      /\ status'[Peer(p)] \subseteq status[Peer(p)]
  BY <1>1, <1>2 DEF Same, FlowTypes
<1>7. /\ UNCHANGED <<flow[p].closed, flow[p].readUpto, flow[p].availableUpTo, flow[p].rcvPktQueue,
                     flow[p].readSem, flow[p].remoteFreeWindow, flow[p].ackedUpto>>
      /\ UNCHANGED <<conn[p].pc = "idle", reader[p] = "ended", written[p], lastRead[Peer(p)]>>
  BY <1>2 DEF FlowTypes, FlowType, ConnType, AppType, StartInv
<1>8. UNCHANGED <<FfnByApp(p), FfnByConn(p)>>
  BY <1>2, <1>7 DEF FlowTypes, FlowType, ConnType, AppType, AppInv, StartInv, FfnByApp, FfnByConn
<1>9. UNCHANGED Sent(p)
  BY <1>7, <1>8 DEF FfnSent, Sent
<1>10. StartInv(p)'
  BY <1>2 DEF FlowTypes, FlowType, ConnType, AppType, StartInv, AppInv
<1>11. AppInv(p)'
  BY <1>2, <1>8 DEF FlowTypes, FlowType, ConnType, AppType, AppInv, StartInv, FfnByApp
<1>12. NumberInv(p)'
  BY <1>2, <1>9 DEF FlowTypes, FlowType, ConnType, AppType, NumberInv, StartInv
<1>13. QED
  BY <1>5, <1>6, <1>7, <1>8, <1>10, <1>11, <1>12, QuietStep

LEMMA GetReceiverStatusStep ==
  ASSUME FlowInv, Orderly, NEW p \in Node, GetReceiverStatus(p)
  PROVE  FlowInv'
<1> USE DEF GetReceiverStatus, Announce, threads, history
<1>1. Peer(p) \in Node /\ Peer(p) # p /\ Peer(Peer(p)) = p
  BY PeerFacts
<1>2. FlowTypes /\ StartInv(p) /\ AppInv(p) /\ AnswerInv(p) /\ NumberInv(p)
  BY DEF FlowInv, EndInv
<1>5. FlowTypes'
  <2>1. status' \in [Node -> SUBSET SeqNo]
    BY <1>2 DEF FlowTypes, FlowType
  <2>2. faults' \in Nat
    BY <1>2 DEF FlowTypes
  <2>3. QED
    BY <1>2, <2>1, <2>2 DEF FlowTypes
<1>6. /\ UNCHANGED <<Same(Peer(p)), flow[Peer(p)], pending[Peer(p)], created[Peer(p)], net>>
      /\ status'[Peer(p)] \subseteq status[Peer(p)]
  BY <1>1, <1>2 DEF Same, FlowTypes
<1>7. /\ UNCHANGED <<flow[p].closed, flow[p].readUpto, flow[p].availableUpTo, flow[p].rcvPktQueue,
                     flow[p].readSem, flow[p].remoteFreeWindow, flow[p].ackedUpto>>
      /\ UNCHANGED <<conn[p].pc = "idle", reader[p] = "ended", written[p], lastRead[Peer(p)]>>
  BY <1>2 DEF FlowTypes, AppType, FlowType, StartInv
<1>8. UNCHANGED <<FfnByApp(p), FfnByConn(p)>>
  BY <1>2, <1>7 DEF FlowTypes, AppType, FlowType, AppInv, StartInv, FfnByApp, FfnByConn
<1>9. UNCHANGED Sent(p)
  BY <1>7, <1>8 DEF FfnSent, Sent
<1>10. StartInv(p)'
  BY <1>2 DEF FlowTypes, AppType, FlowType, StartInv, AppInv
<1>11. AppInv(p)'
  BY <1>2, <1>8 DEF FlowTypes, AppType, FlowType, AppInv, StartInv, FfnByApp
<1>12. NumberInv(p)'
  BY <1>2, <1>9 DEF FlowTypes, AppType, FlowType, NumberInv, StartInv
<1>13. \A v \in status'[p] : v \in status[p] \/ Dist(flow[p].readUpto, v) < SeqCnt \div 2
  BY <1>2, DistSound, SpaceFacts DEF FlowTypes, FlowType
<1>14. QED
  BY <1>5, <1>6, <1>7, <1>8, <1>10, <1>11, <1>12, <1>13, QuietStep

(***************************************************************************)
(* Packets and their places.                                               *)
(***************************************************************************)
LEMMA PlaceFacts ==
  ASSUME FlowInv, NEW p \in Node, NEW m, IsPacketOf(p, m)
  PROVE  /\ Place(p, m) \in Nat /\ Place(p, m) < Sent(p) /\ m.seq = Place(p, m) % SeqCnt /\ m.seq \in SeqNo
         /\ m.ffn => Place(p, m) = Sent(p) - 1
<1>1. written[p] \in Nat /\ m \in Packet
  BY DEF FlowInv, FlowTypes, IsPacketOf
<1>2. m.seq \in SeqNo /\ m.ffn \in BOOLEAN /\ m.id \in Nat
  BY <1>1 DEF Packet
<1>3. QED
  BY <1>1, <1>2 DEF IsPacketOf, Place, Sent

\* A direction has one packet for each place.
LEMMA PlaceUnique ==
  ASSUME FlowInv, NEW p \in Node, NEW m, NEW n, IsPacketOf(p, m), IsPacketOf(p, n),
         m.seq = n.seq, Taken(Peer(p)) <= Place(p, m), Taken(Peer(p)) <= Place(p, n)
  PROVE  m = n
<1> DEFINE i == Place(p, m)
           j == Place(p, n)
<1>1. i \in Nat /\ j \in Nat /\ i < Sent(p) /\ j < Sent(p) /\ i % SeqCnt = j % SeqCnt
  BY PlaceFacts
<1>2. Sent(p) \in Nat /\ Taken(Peer(p)) \in Nat /\ Sent(p) <= Taken(Peer(p)) + RecvWindow
  BY CounterFacts, PeerFacts, SpaceFacts
<1>3. -SeqCnt < i - j /\ i - j < SeqCnt
  BY <1>1, <1>2, SpaceFacts
<1>4. i = j
  BY <1>1, <1>3, ResidueEqual
<1>5. written[p] \in Nat /\ m \in Packet /\ n \in Packet
  BY DEF FlowInv, FlowTypes, IsPacketOf
<1>6. m.ffn = n.ffn /\ m.id = n.id
  BY <1>4, <1>5 DEF Place, IsPacketOf, Packet
<1>7. QED
  BY <1>5, <1>6 DEF Packet

\* A packet that was sent keeps its place.
LEMMA PlaceKept ==
  ASSUME FlowInv, NEW p \in Node, NEW m, IsPacketOf(p, m), ~FfnSent(p),
         written'[p] \in Nat, written[p] <= written'[p]
  PROVE  IsPacketOf(p, m)' /\ Place(p, m)' = Place(p, m) /\ ~m.ffn
<1>1. written[p] \in Nat /\ m \in Packet /\ m.id \in Nat
  BY DEF FlowInv, FlowTypes, IsPacketOf, Packet
<1>2. ~m.ffn
  BY DEF IsPacketOf
<1>3. QED
  BY <1>1, <1>2 DEF IsPacketOf, Place

(***************************************************************************)
(* One more packet, of the application or FLAG_FFN.                        *)
(***************************************************************************)
LEMMA OneMoreSent ==
  ASSUME FlowInv, NEW p \in Node, ~FfnSent(p), NEW m \in Packet, m.seq = Sent(p) % SeqCnt,
         written' \in [Node -> Nat],
         IF m.ffn THEN FfnSent(p)' /\ written'[p] = written[p] /\ m.id = 0
         ELSE ~FfnSent(p)' /\ written'[p] = written[p] + 1 /\ m.id = written[p] + 1,
         flow'[p].remoteFreeWindow = flow[p].remoteFreeWindow - 1, flow[p].remoteFreeWindow > 0,
         flow'[p].ackedUpto = flow[p].ackedUpto, net'[p] = net[p] \cup {m},
         UNCHANGED <<Taken(Peer(p)), Ready(Peer(p)), flow[Peer(p)].rcvPktQueue>>
  PROVE  Sent(p)' = Sent(p) + 1 /\ DirectionInv(p)'
<1> DEFINE q == Peer(p)
<1>1. q \in Node /\ written[p] \in Nat /\ written'[p] \in Nat /\ written[p] <= written'[p]
  BY PeerFacts DEF FlowInv, FlowTypes
<1>2. Sent(p) = written[p] /\ Sent(p)' = Sent(p) + 1
  BY <1>1 DEF Sent
<1>3. /\ Sent(p) \in Nat /\ Acked(p) \in Nat /\ Taken(q) \in Nat /\ Ready(q) \in Nat
      /\ Acked(p) <= Taken(q) /\ Taken(q) + Ready(q) <= Sent(p) /\ Taken(q) <= Sent(p)
  BY CounterFacts, PeerFacts
<1>4. DirectionInv(p) /\ flow[p].remoteFreeWindow \in Nat /\ RecvWindow \in Nat
  BY SpaceFacts DEF FlowInv, FlowTypes, FlowType
<1>5. Acked(p)' = Acked(p) /\ Sent(p) + 1 <= Acked(p) + RecvWindow
  BY <1>2, <1>3, <1>4 DEF Acked
<1>6. WindowInv(p)'
  BY <1>2, <1>3, <1>4, <1>5 DEF DirectionInv, WindowInv
<1>7. \A n : IsPacketOf(p, n) => IsPacketOf(p, n)' /\ Place(p, n)' = Place(p, n)
  BY <1>1, PlaceKept
<1>8. IsPacketOf(p, m)' /\ Place(p, m)' = Sent(p)
  BY <1>1, <1>2 DEF IsPacketOf, Place
<1>9. flow[q].rcvPktQueue[m.seq] = Null
  <2>1. m.seq \in SeqNo
    BY DEF Packet
  <2> DEFINE n == flow[q].rcvPktQueue[m.seq]
  <2>2. SUFFICES ASSUME n # Null PROVE FALSE
    OBVIOUS
  <2>3. IsPacketOf(p, n) /\ n.seq = m.seq /\ Taken(q) <= Place(p, n)
    BY <1>4, <2>1, <2>2 DEF DirectionInv, QueueInv
  <2>4. Place(p, n) \in Nat /\ Place(p, n) < Sent(p) /\ Place(p, n) % SeqCnt = Sent(p) % SeqCnt
    BY <2>3, PlaceFacts
  <2>5. -SeqCnt < Place(p, n) - Sent(p) /\ Place(p, n) - Sent(p) < SeqCnt
    BY <1>3, <1>5, <2>3, <2>4, SpaceFacts
  <2>6. QED
    BY <1>3, <2>4, <2>5, ResidueEqual
<1>10. NetInv(p)'
  BY <1>3, <1>4, <1>7, <1>8, <1>9 DEF DirectionInv, NetInv
<1>11. QueueInv(p)'
  BY <1>4, <1>7 DEF DirectionInv, QueueInv
<1>12. QED
  BY <1>2, <1>6, <1>10, <1>11 DEF DirectionInv

\* An end whose peer closes has nothing to send.
LEMMA PeerIsQuiet ==
  ASSUME FlowInv, Orderly, NEW p \in Node, Peer(p) \in Closers
  PROVE  /\ p \notin Closers /\ ~app[p].ffn /\ ~FfnByApp(p)
         /\ app[p].pc \in {"new", "idle"}
<1>1. p \notin Closers /\ MaxWrites[p] = 0
  BY PeerFacts DEF Orderly, OneNumberer
<1>2. AppInv(p) /\ written[p] \in Nat /\ app[p] \in AppType
  BY DEF FlowInv, EndInv, FlowTypes
<1>3. ~app[p].ffn
  BY <1>1, <1>2 DEF AppInv
<1>4. ~(written[p] < MaxWrites[p])
  BY <1>1, <1>2
<1>5. QED
  BY <1>1, <1>2, <1>3, <1>4 DEF AppInv, AppType, FfnByApp

LEMMA SendPacketToStep ==
  ASSUME FlowInv, Orderly, NEW p \in Node, SendPacketTo(p)
  PROVE  FlowInv'
<1> DEFINE q == Peer(p)
           m == IF app[p].ffn THEN Ffn(app[p].seq) ELSE Data(p)
<1> USE DEF SendPacketTo
<1>1. q \in Node /\ q # p /\ Peer(q) = p /\ Node = {p, q}
  BY PeerFacts
<1>2. FlowTypes /\ EndInv(p) /\ EndInv(q) /\ DirectionInv(q)
  BY <1>1 DEF FlowInv
<1>3. /\ app[p] \in AppType /\ flow[p] \in FlowType /\ written[p] \in Nat
      /\ app[p].pc = "window" /\ app[p].seq = Sent(p) % SeqCnt /\ flow[p].nextSeqNumber = app[p].seq
  BY <1>2 DEF FlowTypes, EndInv, NumberInv
<1>4. q \notin Closers
  BY <1>3, PeerIsQuiet
<1>5. conn[p].pc = "idle" /\ (p \notin Closers => ~flow[p].closed)
  BY <1>2, <1>4 DEF EndInv, AnswerInv
<1>6. ~FfnByApp(p) /\ ~FfnByConn(p) /\ ~FfnSent(p)
  BY <1>3, <1>5 DEF FfnByApp, FfnByConn, FfnSent
<1>7. m \in Packet /\ m.seq = Sent(p) % SeqCnt /\ m.ffn = app[p].ffn
      /\ (IF m.ffn THEN m.id = 0 ELSE m.id = written[p] + 1)
  <2>1. app[p].seq \in SeqNo /\ app[p].ffn \in BOOLEAN
    BY <1>3 DEF AppType
  <2> DEFINE id == IF app[p].ffn THEN 0 ELSE written[p] + 1
  <2>2. m = [seq |-> app[p].seq, ffn |-> app[p].ffn, id |-> id]
    BY <2>1 DEF Ffn, Data
  <2>3. id \in Nat
    BY <1>3
  <2> HIDE DEF m
  <2>4. m \in Packet
    BY <2>1, <2>2, <2>3 DEF Packet
  <2>5. QED
    BY <1>3, <2>2, <2>4
<1>8. FlowTypes'
  <2>1. [flow[p] EXCEPT !.remoteFreeWindow = @ - 1] \in FlowType
    BY <1>3, SpaceFacts DEF FlowType
  <2>2. flow' \in [Node -> FlowType]
    BY <1>2, <2>1 DEF FlowTypes
  <2>3. app' \in [Node -> AppType]
    BY <1>2 DEF FlowTypes, AppType
  <2>4. net' \in [Node -> SUBSET Packet] /\ written' \in [Node -> Nat]
    BY <1>2, <1>7 DEF FlowTypes
  <2>5. QED
    BY <1>2, <2>2, <2>3, <2>4 DEF FlowTypes
<1>9. /\ UNCHANGED <<Same(q), flow[q], pending, created, status, conn, reader, reads, open, lastRead, listed>>
      /\ net'[q] = net[q] /\ net'[p] = net[p] \cup {m}
      /\ written'[p] = IF m.ffn THEN written[p] ELSE written[p] + 1
      /\ app'[p].pc = (IF m.ffn THEN "flag" ELSE "idle") /\ app'[p].ffn = app[p].ffn
  BY <1>1, <1>2, <1>7 DEF Same, FlowTypes, AppType
<1>10. /\ UNCHANGED <<flow[p].closed, flow[p].readUpto, flow[p].availableUpTo, flow[p].rcvPktQueue,
                      flow[p].readSem, flow[p].closeInitiated, flow[p].nextSeqNumber, flow[p].ackedUpto>>
       /\ flow'[p].remoteFreeWindow = flow[p].remoteFreeWindow - 1
  BY <1>2 DEF FlowTypes, FlowType
<1>11. UNCHANGED <<FfnByApp(q), FfnSent(q), Sent(q), Taken(q), Ready(q), written[q]>>
  BY <1>1, <1>9, SameCounters DEF Same
<1>12. UNCHANGED <<Taken(p), Ready(p)>>
  BY <1>9, <1>10 DEF Taken, TookFfn, Ready
<1>13. (FfnByApp(p)' <=> m.ffn) /\ ~FfnByConn(p)' /\ (FfnSent(p)' <=> m.ffn)
  <2>1. FfnByApp(p)' <=> m.ffn
    BY <1>7, <1>9 DEF FfnByApp
  <2>2. ~FfnByConn(p)'
    BY <1>5, <1>10 DEF FfnByConn
  <2>3. QED
    BY <2>1, <2>2 DEF FfnSent
<1>14. Sent(p)' = Sent(p) + 1 /\ DirectionInv(p)'
  BY <1>6, <1>7, <1>8, <1>9, <1>10, <1>11, <1>13, OneMoreSent DEF FlowTypes
<1>15. DirectionInv(q)'
  BY <1>1, <1>2, <1>9, <1>10, <1>11, <1>12, DirectionFrame
<1>16. EndInv(q)'
  <2>1. StartInv(q)'
    BY <1>1, <1>2, <1>9, StartFrame DEF Same, EndInv
  <2>2. AnswerInv(q)'
    BY <1>1, <1>2, <1>3, <1>4, <1>6, <1>9, <1>13 DEF EndInv, AnswerInv, Same
  <2>3. lastRead[Peer(q)] <= written'[Peer(q)]
    BY <1>1, <1>2, <1>3, <1>9 DEF EndInv, ReadInv, FlowTypes
  <2>4. QED
    BY <1>1, <1>2, <1>9, <2>1, <2>2, <2>3, EndFrame
<1>17. EndInv(p)'
  <2>1. StartInv(p)'
    BY <1>2, <1>3, <1>9 DEF EndInv, StartInv
  <2>2. AppInv(p)'
    <3>1. MaxWrites[p] \in Nat
      BY FlowAssumption DEF FlowAssumption
    <3>2. QED
      BY <1>2, <1>3, <1>6, <1>7, <1>9, <1>10, <1>13, <3>1 DEF EndInv, AppInv, AppType
  <2>3. AnswerInv(p)'
    BY <1>5, <1>9, <1>10 DEF AnswerInv
  <2>4. NumberInv(p)'
    <3>1. NoBefore(Sent(p) + 1) = Sent(p) % SeqCnt
      BY CounterFacts, NoBeforeFacts
    <3>2. QED
      BY <1>3, <1>5, <1>9, <1>10, <1>14, <3>1 DEF NumberInv
  <2>5. ReadInv(p)'
    BY <1>1, <1>2, <1>9, <1>10, <1>11, <1>12 DEF EndInv, ReadInv
  <2>6. StatusInv(p)'
    BY <1>2, <1>9, <1>10 DEF EndInv, StatusInv
  <2>7. QED
    BY <2>1, <2>2, <2>3, <2>4, <2>5, <2>6 DEF EndInv
<1>18. QED
  BY <1>1, <1>8, <1>14, <1>15, <1>16, <1>17 DEF FlowInv

LEMMA SendClosePacketStep ==
  ASSUME FlowInv, Orderly, NEW p \in Node, SendClosePacket(p)
  PROVE  FlowInv'
<1> DEFINE q == Peer(p)
           m == Ffn(conn[p].seq)
<1> USE DEF SendClosePacket
<1>1. q \in Node /\ q # p /\ Peer(q) = p /\ Node = {p, q}
  BY PeerFacts
<1>2. FlowTypes /\ EndInv(p) /\ EndInv(q) /\ DirectionInv(q)
  BY <1>1 DEF FlowInv
<1>3. /\ conn[p] \in ConnType /\ flow[p] \in FlowType /\ written[p] \in Nat
      /\ conn[p].seq = Sent(p) % SeqCnt /\ flow[p].nextSeqNumber = conn[p].seq
  BY <1>2 DEF FlowTypes, EndInv, NumberInv
<1>4. p \notin Closers /\ ~flow[p].closed /\ q \in Closers /\ FfnByApp(q) /\ Taken(p) + Ready(p) = Sent(q)
  BY <1>2 DEF EndInv, AnswerInv
<1>5. ~app[p].ffn /\ ~FfnByApp(p) /\ app[p].pc \in {"new", "idle"}
  BY <1>4, PeerIsQuiet
<1>6. ~FfnSent(p)
  BY <1>4, <1>5 DEF FfnByConn, FfnSent
<1>7. m \in Packet /\ m.seq = Sent(p) % SeqCnt /\ m.ffn /\ m.id = 0
  BY <1>3 DEF Packet, Ffn, ConnType
<1>8. FlowTypes'
  <2>1. [flow[p] EXCEPT !.remoteFreeWindow = @ - 1, !.closed = TRUE, !.readSem = @ + 1] \in FlowType
    <3>1. [flow[p] EXCEPT !.remoteFreeWindow = @ - 1] \in FlowType
      BY <1>3, SpaceFacts DEF FlowType
    <3>2. \A f \in FlowType : [f EXCEPT !.closed = TRUE] \in FlowType
      BY DEF FlowType
    <3>3. \A f \in FlowType : [f EXCEPT !.readSem = @ + 1] \in FlowType
      BY DEF FlowType
    <3>4. QED
      BY <3>1, <3>2, <3>3
  <2>2. flow' \in [Node -> FlowType]
    BY <1>2, <2>1 DEF FlowTypes
  <2>3. conn' \in [Node -> ConnType]
    BY <1>2, SpaceFacts DEF FlowTypes, ConnType, SeqNo
  <2>4. net' \in [Node -> SUBSET Packet]
    BY <1>2, <1>7 DEF FlowTypes
  <2>5. QED
    BY <1>2, <2>2, <2>3, <2>4 DEF FlowTypes, history
<1>9. /\ UNCHANGED <<Same(q), flow[q], pending, created, status, app, reader, reads, open, lastRead, written>>
      /\ net'[q] = net[q] /\ net'[p] = net[p] \cup {m} /\ conn'[p].pc = "idle"
  BY <1>1, <1>2 DEF Same, FlowTypes, history
<1>10. /\ UNCHANGED <<flow[p].readUpto, flow[p].availableUpTo, flow[p].rcvPktQueue,
                      flow[p].closeInitiated, flow[p].nextSeqNumber, flow[p].ackedUpto>>
       /\ flow'[p].remoteFreeWindow = flow[p].remoteFreeWindow - 1 /\ flow'[p].closed
       /\ flow'[p].readSem = flow[p].readSem + 1
  BY <1>2 DEF FlowTypes, FlowType
<1>11. UNCHANGED <<FfnByApp(q), FfnSent(q), Sent(q), Taken(q), Ready(q), written[q]>>
  BY <1>1, <1>9, SameCounters DEF Same
<1>12. UNCHANGED <<Taken(p), Ready(p)>>
  BY <1>9, <1>10 DEF Taken, TookFfn, Ready
<1>13. ~FfnByApp(p)' /\ FfnSent(p)'
  BY <1>4, <1>5, <1>9, <1>10 DEF FfnByApp, FfnByConn, FfnSent
<1>14. Sent(p)' = Sent(p) + 1 /\ DirectionInv(p)'
  BY <1>6, <1>7, <1>8, <1>9, <1>10, <1>11, <1>13, OneMoreSent DEF FlowTypes
<1>15. DirectionInv(q)'
  BY <1>1, <1>2, <1>9, <1>10, <1>11, <1>12, DirectionFrame
<1>16. EndInv(q)'
  <2>1. StartInv(q)'
    BY <1>1, <1>2, <1>9, StartFrame DEF Same, EndInv
  <2>2. AnswerInv(q)'
    BY <1>2, <1>4, <1>9 DEF EndInv, AnswerInv, Same
  <2>3. lastRead[Peer(q)] <= written'[Peer(q)]
    BY <1>1, <1>2, <1>9 DEF EndInv, ReadInv
  <2>4. QED
    BY <1>1, <1>2, <1>9, <2>1, <2>2, <2>3, EndFrame
<1>17. EndInv(p)'
  <2>1. StartInv(p)'
    BY <1>2, <1>9 DEF EndInv, StartInv
  <2>2. AppInv(p)'
    BY <1>2, <1>5, <1>9, <1>10, <1>13 DEF EndInv, AppInv
  <2>3. AnswerInv(p)'
    BY <1>4, <1>9, <1>11, <1>12 DEF AnswerInv
  <2>4. NumberInv(p)'
    <3>1. NoBefore(Sent(p) + 1) = Sent(p) % SeqCnt
      BY CounterFacts, NoBeforeFacts
    <3>2. QED
      BY <1>3, <1>5, <1>9, <1>10, <1>14, <3>1 DEF NumberInv
  <2>5. ReadInv(p)'
    <3>1. flow[p].readSem \in Int /\ Ready(p) \in Int
      BY <1>3, CounterFacts DEF FlowType
    <3>2. reader[p] # "ended" => flow[p].readSem = Ready(p) - 1
      BY <1>2 DEF EndInv, ReadInv
    <3>3. reader'[p] # "ended" => flow'[p].readSem = Ready(p)' - 0
      BY <1>9, <1>10, <1>12, <3>1, <3>2
    <3>4. QED
      BY <1>1, <1>2, <1>9, <1>10, <1>12, <3>3 DEF EndInv, ReadInv
  <2>6. StatusInv(p)'
    BY <1>2, <1>9, <1>10 DEF EndInv, StatusInv
  <2>7. QED
    BY <2>1, <2>2, <2>3, <2>4, <2>5, <2>6 DEF EndInv
<1>18. QED
  BY <1>1, <1>8, <1>14, <1>15, <1>16, <1>17 DEF FlowInv

(***************************************************************************)
(* A packet that the flow keeps: it lies ahead of the reader, in a place   *)
(* of its own.                                                             *)
(***************************************************************************)
LEMMA FewPlaces ==
  ASSUME FlowInv, FewPackets, NEW p \in Node
  PROVE  Sent(p) < SeqCnt \div 4
<1>1. Peer(p) \in Node /\ AppInv(p) /\ AnswerInv(p)
  BY PeerFacts DEF FlowInv, EndInv
<1>2. written[p] \in Nat /\ MaxWrites[p] \in Nat
  BY FlowAssumption DEF FlowInv, FlowTypes, FlowAssumption
<1>3. FfnSent(p) => Closers # {}
  BY <1>1 DEF FfnSent, FfnByApp, FfnByConn, AppInv, AnswerInv
<1>4. written[p] <= MaxWrites[p] /\ MaxWrites[p] + (IF Closers = {} THEN 0 ELSE 1) < SeqCnt \div 4
  BY <1>1 DEF AppInv, FewPackets
<1>5. QED
  BY <1>2, <1>3, <1>4, SpaceFacts DEF Sent

\* A copy of a packet that was read is known for one.
LEMMA BehindWindow ==
  ASSUME FlowInv, FewPackets, NEW p \in Node, NEW m, IsPacketOf(Peer(p), m), Place(Peer(p), m) < Taken(p)
  PROVE  Dist(m.seq, Plus(flow[p].readUpto, 1)) > SeqCnt \div 4 + SeqCnt \div 2
<1> DEFINE q == Peer(p)
           i == Place(q, m)
<1>1. q \in Node /\ Peer(q) = p
  BY PeerFacts
<1>2. i \in Nat /\ m.seq = i % SeqCnt
  BY <1>1, PlaceFacts
<1>3. Sent(q) < SeqCnt \div 4
  BY <1>1, FewPlaces
<1>4. Taken(p) \in Nat /\ Taken(p) <= Sent(q) /\ Sent(q) \in Nat /\ flow[p].readUpto = NoBefore(Taken(p))
  BY <1>1, CounterFacts
<1>5. Plus(flow[p].readUpto, 1) = Taken(p) % SeqCnt
  BY <1>4, NoBeforeFacts
<1>6. Dist(m.seq, Plus(flow[p].readUpto, 1)) = (i - Taken(p)) % SeqCnt
  BY <1>2, <1>4, <1>5, DistOfResidues
<1>7. i - Taken(p) \in Int /\ -(SeqCnt \div 4) < i - Taken(p) /\ i - Taken(p) < 0
  BY <1>2, <1>3, <1>4, SpaceFacts
<1>8. (i - Taken(p)) % SeqCnt = i - Taken(p) + SeqCnt
  BY <1>7, ResidueNear, SpaceFacts
<1>9. QED
  BY <1>6, <1>7, <1>8, SpaceFacts

LEMMA NotDuplicate ==
  ASSUME FlowInv, Orderly, NEW p \in Node, NEW m \in net[Peer(p)], ~IsDuplicate(flow[p], m)
  PROVE  /\ IsPacketOf(Peer(p), m) /\ Taken(p) <= Place(Peer(p), m)
         /\ flow[p].rcvPktQueue[m.seq] = Null
<1> DEFINE q == Peer(p)
           i == Place(q, m)
<1>1. q \in Node /\ Peer(q) = p
  BY PeerFacts
<1>2. IsPacketOf(q, m) /\ ("duplicate" \notin FaultKinds => Taken(p) <= i)
  BY <1>1 DEF FlowInv, DirectionInv, NetInv
<1>3. i \in Nat /\ i < Sent(q) /\ m.seq = i % SeqCnt
  BY <1>1, <1>2, PlaceFacts
<1>4. flow[p].rcvPktQueue[m.seq] = Null
  BY DEF IsDuplicate
<1>5. ASSUME "duplicate" \in FaultKinds, i < Taken(p) PROVE FALSE
  BY <1>2, <1>5, BehindWindow DEF Orderly, IsDuplicate
<1>6. Taken(p) <= i
  BY <1>2, <1>3, <1>5, CounterFacts
<1>7. QED
  BY <1>2, <1>4, <1>6

\* What Accept makes of a flow.
LEMMA AcceptIs ==
  ASSUME NEW f \in FlowType, NEW m \in Packet, RunOf(f, m) \in Nat
  PROVE  LET g == Accept(f, m)
             answers == ReachedFfn(f, m) /\ ~f.closeInitiated IN
         /\ g \in FlowType
         /\ g.rcvPktQueue = StoredQueue(f, m) /\ g.availableUpTo = Plus(f.availableUpTo, RunOf(f, m))
         /\ g.nextSeqNumber = f.nextSeqNumber /\ g.remoteFreeWindow = f.remoteFreeWindow
         /\ g.ackedUpto = f.ackedUpto /\ g.readUpto = f.readUpto /\ g.closeInitiated = f.closeInitiated
         /\ g.closed <=> f.closed \/ (ReachedFfn(f, m) /\ f.closeInitiated)
         /\ g.readSem = f.readSem + RunOf(f, m) - (IF answers THEN 1 ELSE 0)
<1> DEFINE run == RunOf(f, m)
           queue == StoredQueue(f, m)
           s == Store(f, m)
           upTo == Plus(f.availableUpTo, run)
<1>1. f.availableUpTo \in SeqNo /\ f.readSem \in Int /\ f.closeSemaphore \in Nat
      /\ f.rcvPktQueue \in [SeqNo -> Packet \cup {Null}] /\ f.closed \in BOOLEAN /\ f.closeInitiated \in BOOLEAN
  BY DEF FlowType
<1>2. upTo \in SeqNo
  <2>1. f.availableUpTo + run \in Int
    BY <1>1, SpaceFacts DEF SeqNo
  <2>2. QED
    BY <2>1, Residue DEF Plus
<1>3. queue \in [SeqNo -> Packet \cup {Null}]
  BY <1>1 DEF StoredQueue
<1>4. s = [f EXCEPT !.rcvPktQueue = queue, !.availableUpTo = upTo, !.readSem = @ + run]
  BY StoreIs
<1> HIDE DEF run, queue, s, upTo
<1>5. /\ s \in FlowType
      /\ s.rcvPktQueue = queue /\ s.availableUpTo = upTo /\ s.readSem = f.readSem + run
      /\ s.nextSeqNumber = f.nextSeqNumber /\ s.remoteFreeWindow = f.remoteFreeWindow
      /\ s.ackedUpto = f.ackedUpto /\ s.readUpto = f.readUpto /\ s.closeInitiated = f.closeInitiated
      /\ s.closed = f.closed /\ s.closeSemaphore = f.closeSemaphore
  <2>1. [f EXCEPT !.rcvPktQueue = queue] \in FlowType
    BY <1>3 DEF FlowType
  <2>2. \A g \in FlowType : [g EXCEPT !.availableUpTo = upTo] \in FlowType
    BY <1>2 DEF FlowType
  <2>3. \A g \in FlowType : [g EXCEPT !.readSem = @ + run] \in FlowType
    BY DEF FlowType, run
  <2>4. s \in FlowType
    BY <1>4, <2>1, <2>2, <2>3
  <2>5. QED
    BY <1>4, <2>4 DEF FlowType
<1>6. s.readSem \in Int /\ run \in Nat
  BY <1>5 DEF FlowType, run
<1>7. CASE ~ReachedFfn(f, m)
  <2>1. Accept(f, m) = s
    BY <1>7 DEF Accept, s
  <2>2. QED
    BY <1>1, <1>5, <1>6, <1>7, <2>1 DEF run, queue, upTo
<1>8. CASE ReachedFfn(f, m) /\ f.closeInitiated
  <2>1. Accept(f, m) = [s EXCEPT !.closed = TRUE, !.closeSemaphore = @ + 1]
    BY <1>8 DEF Accept, s
  <2>2. \A g \in FlowType : [g EXCEPT !.closed = TRUE] \in FlowType
    BY DEF FlowType
  <2>3. \A g \in FlowType : [g EXCEPT !.closeSemaphore = @ + 1] \in FlowType
    BY DEF FlowType
  <2>4. Accept(f, m) \in FlowType
    BY <1>5, <2>1, <2>2, <2>3
  <2> DEFINE g == Accept(f, m)
  <2>5. /\ g.rcvPktQueue = s.rcvPktQueue /\ g.availableUpTo = s.availableUpTo
        /\ g.nextSeqNumber = s.nextSeqNumber /\ g.remoteFreeWindow = s.remoteFreeWindow
        /\ g.ackedUpto = s.ackedUpto /\ g.readUpto = s.readUpto /\ g.closeInitiated = s.closeInitiated
        /\ g.closed /\ g.readSem = s.readSem
    BY <1>5, <2>1 DEF FlowType
  <2> HIDE DEF g
  <2>6. g \in FlowType
    BY <2>4 DEF g
  <2>7. g.closed <=> f.closed \/ (ReachedFfn(f, m) /\ f.closeInitiated)
    BY <1>8, <2>5, Zenon
  <2>8. g.readSem = f.readSem + run - (IF ReachedFfn(f, m) /\ ~f.closeInitiated THEN 1 ELSE 0)
    BY <1>5, <1>6, <1>8, <2>5
  <2>9. QED
    BY <1>5, <2>5, <2>6, <2>7, <2>8 DEF run, queue, upTo, g
<1>9. CASE ReachedFfn(f, m) /\ ~f.closeInitiated
  <2>1. Accept(f, m) = [s EXCEPT !.readSem = @ - 1]
    BY <1>9 DEF Accept, s
  <2>2. \A g \in FlowType : [g EXCEPT !.readSem = @ - 1] \in FlowType
    BY DEF FlowType
  <2>3. Accept(f, m) \in FlowType
    BY <1>5, <2>1, <2>2
  <2>4. QED
    BY <1>1, <1>5, <1>6, <1>9, <2>1, <2>3 DEF FlowType, run, queue, upTo
<1>10. QED
  BY <1>7, <1>8, <1>9

(***************************************************************************)
(* Of a flow that files a packet, what the invariant sees.                 *)
(***************************************************************************)
LEMMA FiledFacts ==
  ASSUME FlowInv, Orderly, NEW p \in Node, NEW m \in net[Peer(p)], ~IsDuplicate(flow[p], m)
  PROVE  LET f == flow[p]
             run == RunOf(f, m)
             queue == StoredQueue(f, m) IN
         /\ m \in Packet /\ f \in FlowType /\ run \in Nat
         /\ Taken(p) + Ready(p) + run <= Sent(Peer(p))
         /\ Accept(f, m).availableUpTo = NoBefore(Taken(p) + (Ready(p) + run))
         /\ Dist(Accept(f, m).availableUpTo, f.readUpto) = Ready(p) + run
         /\ \A s \in SeqNo : queue[s] = (IF s = m.seq THEN m ELSE f.rcvPktQueue[s])
         /\ \A s \in SeqNo : queue[s] # Null =>
               IsPacketOf(Peer(p), queue[s]) /\ queue[s].seq = s /\ Taken(p) <= Place(Peer(p), queue[s])
         /\ \A k \in 1 .. Ready(p) + run : queue[(Taken(p) + k - 1) % SeqCnt] # Null
         /\ ReachedFfn(f, m) => /\ run > 0 /\ Taken(p) + Ready(p) + run = Sent(Peer(p))
                                /\ FfnSent(Peer(p))
<1> DEFINE q == Peer(p)
           f == flow[p]
           run == RunOf(f, m)
           queue == StoredQueue(f, m)
           T == Taken(p)
           R == Ready(p)
<1>1. q \in Node /\ Peer(q) = p
  BY PeerFacts
<1>2. IsPacketOf(q, m) /\ T <= Place(q, m) /\ f.rcvPktQueue[m.seq] = Null
  BY NotDuplicate
<1>3. m \in Packet /\ f \in FlowType /\ m.seq \in SeqNo
  BY <1>2 DEF FlowInv, FlowTypes, IsPacketOf, Packet
<1>4. /\ T \in Nat /\ R \in Nat /\ Sent(q) \in Nat /\ Acked(q) \in Nat
      /\ Acked(q) <= T /\ T + R <= Sent(q) /\ Sent(q) <= Acked(q) + RecvWindow
      /\ f.availableUpTo = NoBefore(T + R) /\ f.readUpto = NoBefore(T)
  BY <1>1, CounterFacts
<1>5. Sent(q) - T <= RecvWindow
  BY <1>4, SpaceFacts
<1>6. \A s \in SeqNo : queue[s] = (IF s = m.seq THEN m ELSE f.rcvPktQueue[s])
  BY <1>3 DEF StoredQueue, FlowType
<1>7. QueueInv(q)
  BY <1>1 DEF FlowInv, DirectionInv
<1>8. ASSUME NEW s \in SeqNo, queue[s] # Null
      PROVE  IsPacketOf(q, queue[s]) /\ queue[s].seq = s /\ T <= Place(q, queue[s])
  <2>1. CASE s = m.seq
    BY <1>2, <1>6, <2>1
  <2>2. CASE s # m.seq
    <3>1. queue[s] = f.rcvPktQueue[s]
      BY <1>6, <2>2
    <3>2. QED
      BY <1>1, <1>7, <1>8, <3>1 DEF QueueInv
  <2>3. QED
    BY <2>1, <2>2
<1>9. Fits(queue, T, Sent(q))
  <2>1. ASSUME NEW s \in SeqNo, queue[s] # Null
        PROVE  \E i \in Nat : /\ T <= i /\ i < Sent(q) /\ s = i % SeqCnt
                              /\ queue[s].ffn => i = Sent(q) - 1
    <3>1. /\ Place(q, queue[s]) \in Nat /\ Place(q, queue[s]) < Sent(q)
          /\ queue[s].seq = Place(q, queue[s]) % SeqCnt
          /\ queue[s].ffn => Place(q, queue[s]) = Sent(q) - 1
      BY <1>1, <1>8, <2>1, PlaceFacts
    <3>2. QED
      BY <1>8, <2>1, <3>1
  <2>2. QED
    BY <2>1 DEF Fits
<1> HIDE DEF queue, run, T, R, f
<1>10. /\ run \in Nat /\ T + R + run <= Sent(q)
       /\ Plus(f.availableUpTo, run) = NoBefore(T + (R + run))
       /\ \A k \in R + 1 .. R + run : queue[(T + k - 1) % SeqCnt] # Null
       /\ ReachedFfn(f, m) => run > 0 /\ T + R + run = Sent(q)
                              /\ queue[(Sent(q) - 1) % SeqCnt].ffn
                              /\ queue[(Sent(q) - 1) % SeqCnt] # Null
  BY <1>3, <1>4, <1>5, <1>9, StoreSound DEF queue, run
<1>11. Accept(f, m).availableUpTo = NoBefore(T + (R + run))
  BY <1>3, <1>10, AcceptIs DEF run
<1>12. Dist(Accept(f, m).availableUpTo, f.readUpto) = R + run
  <2> DEFINE i == T + (R + run)
  <2>1. i \in Nat /\ T \in Nat /\ i - T = R + run /\ 0 <= R + run /\ R + run < SeqCnt
    BY <1>4, <1>5, <1>10, SpaceFacts
  <2>2. Accept(f, m).availableUpTo = NoBefore(i)
    BY <1>11
  <2> HIDE DEF i
  <2>3. Dist(NoBefore(i), NoBefore(T)) = (i - T) % SeqCnt
    BY <2>1, NoBeforeFacts
  <2>4. (i - T) % SeqCnt = R + run
    BY <2>1, ResidueNear
  <2>5. QED
    BY <1>4, <2>2, <2>3, <2>4
<1>13. ASSUME NEW k \in 1 .. R + run PROVE queue[(T + k - 1) % SeqCnt] # Null
  <2>1. CASE k \in R + 1 .. R + run
    BY <1>10, <2>1
  <2>2. CASE k \in 1 .. R
    <3>1. f.rcvPktQueue[(T + k - 1) % SeqCnt] # Null
      BY <2>2 DEF FlowInv, EndInv, ReadInv, f, T, R
    <3>2. (T + k - 1) % SeqCnt \in SeqNo
      BY <1>4, <2>2, Residue
    <3>3. QED
      BY <1>2, <1>6, <3>1, <3>2
  <2>3. QED
    BY <1>4, <1>10, <2>1, <2>2
<1>14. ReachedFfn(f, m) => FfnSent(q)
  <2>1. (Sent(q) - 1) % SeqCnt \in SeqNo
    BY <1>4, Residue
  <2>2. QED
    BY <1>8, <1>10, <2>1 DEF IsPacketOf
<1>15. QED
  BY <1>3, <1>6, <1>8, <1>10, <1>11, <1>12, <1>13, <1>14 DEF queue, run, T, R, f

\* FLAG_FFN arrives in order: either it answers our close, or it is answered.
LEMMA AnswerFacts ==
  ASSUME FlowInv, Orderly, NEW p \in Node, NEW m \in net[Peer(p)], ~IsDuplicate(flow[p], m),
         app[p].pc # "flag", ReachedFfn(flow[p], m), ~flow[p].closeInitiated
  PROVE  /\ Peer(p) \in Closers /\ FfnByApp(Peer(p)) /\ ~flow[p].closed
         /\ app[p].pc \in {"new", "idle"}
<1> DEFINE q == Peer(p)
<1>1. q \in Node /\ Peer(q) = p
  BY PeerFacts
<1>2. /\ FfnSent(q) /\ RunOf(flow[p], m) \in Nat /\ RunOf(flow[p], m) > 0
      /\ Taken(p) + Ready(p) + RunOf(flow[p], m) = Sent(q)
  BY FiledFacts
<1>3. AppInv(p) /\ AnswerInv(p) /\ AppInv(q) /\ AnswerInv(q)
  BY <1>1 DEF FlowInv, EndInv
<1>4. ~FfnByConn(q)
  BY <1>1, <1>3 DEF FfnByConn, AnswerInv, AppInv
<1>5. FfnByApp(q) /\ q \in Closers
  BY <1>2, <1>3, <1>4 DEF FfnSent, FfnByApp, AppInv
<1>6. p \notin Closers /\ app[p].pc \in {"new", "idle"}
  BY <1>5, PeerIsQuiet
<1>7. ~flow[p].closed
  <2>1. Taken(p) \in Nat /\ Ready(p) \in Nat
    BY CounterFacts
  <2>2. flow[p].closed => Taken(p) + Ready(p) = Sent(q)
    BY <1>3, <1>6 DEF AnswerInv
  <2>3. QED
    BY <1>2, <2>1, <2>2
<1>8. QED
  BY <1>5, <1>6, <1>7

(***************************************************************************)
(* A packet arrives. What it does to the multiplexer's children comes      *)
(* first, then a packet that is not kept, then one that is.                *)
(***************************************************************************)
LEMMA StartRecv ==
  ASSUME FlowInv, NEW p \in Node, NEW m, RecvPacketFrom(p, m)
  PROVE  /\ listed' \in [Node -> BOOLEAN] /\ pending' \in [Node -> BOOLEAN] /\ created' \in [Node -> Nat]
         /\ faults' \in Nat /\ net' \in [Node -> SUBSET Packet]
         /\ net'[p] = net[p] /\ net'[Peer(p)] \subseteq net[Peer(p)]
         /\ "duplicate" \notin FaultKinds => net'[Peer(p)] = net[Peer(p)] \ {m}
         /\ StartInv(p)' /\ StartInv(Peer(p))'
<1> DEFINE q == Peer(p)
<1> USE DEF RecvPacketFrom
<1>1. q \in Node /\ q # p
  BY PeerFacts
<1>2. FlowTypes /\ StartInv(p) /\ StartInv(q)
  BY <1>1 DEF FlowInv, EndInv
<1>3. /\ listed' \in [Node -> BOOLEAN] /\ pending' \in [Node -> BOOLEAN] /\ created' \in [Node -> Nat]
      /\ faults' \in Nat
  BY <1>2 DEF FlowTypes
<1>4. /\ net' \in [Node -> SUBSET Packet] /\ net'[p] = net[p] /\ net'[q] \subseteq net[q]
      /\ "duplicate" \notin FaultKinds => net'[q] = net[q] \ {m}
  BY <1>1, <1>2 DEF FlowTypes
<1>5. UNCHANGED <<app, reader>> /\ pending'[q] = pending[q] /\ created'[q] = created[q]
  BY <1>1, <1>2 DEF FlowTypes
<1>6. StartInv(q)'
  BY <1>2, <1>5 DEF StartInv
<1>7. StartInv(p)'
  <2>1. created[p] \in Nat /\ listed[p] \in BOOLEAN /\ pending[p] \in BOOLEAN
    BY <1>2 DEF FlowTypes
  <2>2. created'[p] = (IF listed[p] THEN created[p] ELSE created[p] + 1)
    BY <1>2 DEF FlowTypes
  <2>3. pending'[p] => pending[p] \/ (~listed[p] /\ p # Opener /\ created[p] = 0)
    BY <1>2 DEF FlowTypes
  <2>4. QED
    BY <1>2, <1>5, <2>1, <2>2, <2>3 DEF StartInv
<1>8. QED
  BY <1>3, <1>4, <1>6, <1>7

LEMMA NotKept ==
  ASSUME FlowInv, NEW p \in Node, NEW m, RecvPacketFrom(p, m), UNCHANGED <<flow, conn>>
  PROVE  FlowInv'
<1> DEFINE q == Peer(p)
<1> USE DEF RecvPacketFrom
<1>1. q \in Node /\ q # p /\ Peer(q) = p /\ Node = {p, q}
  BY PeerFacts
<1>2. /\ net'[p] = net[p] /\ net'[q] \subseteq net[q] /\ StartInv(p)' /\ StartInv(q)'
  BY StartRecv
<1>3. FlowTypes'
  BY StartRecv DEF FlowInv, FlowTypes, history
<1>4. \A r \in Node : UNCHANGED <<Same(r), flow[r], written[r], status[r], lastRead[r]>>
  BY <1>1 DEF Same, history
<1>5. \A r \in Node : UNCHANGED <<FfnByApp(r), FfnSent(r), Sent(r), Taken(r), Ready(r)>>
  BY <1>4, SameCounters
<1>6. ASSUME NEW r \in Node, StartInv(r)', net'[r] \subseteq net[r]
      PROVE  EndInv(r)' /\ DirectionInv(r)'
  <2>1. Peer(r) \in Node /\ EndInv(r) /\ DirectionInv(r)
    BY PeerFacts DEF FlowInv
  <2>2. DirectionInv(r)'
    BY <1>4, <1>5, <1>6, <2>1, DirectionFrame
  <2>3. AnswerInv(r)'
    BY <1>4, <1>5, <2>1, AnswerFrame DEF EndInv
  <2>4. lastRead[Peer(r)] <= written'[Peer(r)]
    BY <1>4, <2>1 DEF EndInv, ReadInv
  <2>5. QED
    BY <1>4, <1>6, <2>1, <2>2, <2>3, <2>4, EndFrame
<1>7. QED
  BY <1>1, <1>2, <1>3, <1>6 DEF FlowInv

LEMMA Kept ==
  ASSUME FlowInv, Orderly, NEW p \in Node, NEW m \in net[Peer(p)], RecvPacketFrom(p, m),
         ~IsDuplicate(flow[p], m), flow' = [flow EXCEPT ![p] = Accept(@, m)],
         conn' = [conn EXCEPT ![p] = IF ReachedFfn(flow[p], m) /\ ~flow[p].closeInitiated
                                     THEN [pc |-> "number", seq |-> NextNumber(p)] ELSE @]
  PROVE  FlowInv'
<1> DEFINE q == Peer(p)
           f == flow[p]
           g == Accept(f, m)
           run == RunOf(f, m)
           queue == StoredQueue(f, m)
           reached == ReachedFfn(f, m)
           answers == reached /\ ~f.closeInitiated
<1>1. q \in Node /\ q # p /\ Peer(q) = p /\ Node = {p, q}
  BY PeerFacts
<1>2. FlowTypes /\ EndInv(p) /\ EndInv(q) /\ DirectionInv(p) /\ DirectionInv(q)
  BY <1>1 DEF FlowInv
<1>3. /\ conn[p].pc = "idle" /\ app[p].pc # "flag"
      /\ UNCHANGED <<app, reader, reads, status, written, lastRead, open>>
  BY DEF RecvPacketFrom, Orderly, history
<1>4. /\ net'[p] = net[p] /\ net'[q] \subseteq net[q] /\ StartInv(p)' /\ StartInv(q)'
      /\ "duplicate" \notin FaultKinds => net'[q] = net[q] \ {m}
  BY StartRecv
<1>5. /\ m \in Packet /\ f \in FlowType /\ run \in Nat /\ m.seq \in SeqNo
      /\ Taken(p) + Ready(p) + run <= Sent(q)
      /\ g.availableUpTo = NoBefore(Taken(p) + (Ready(p) + run))
      /\ Dist(g.availableUpTo, f.readUpto) = Ready(p) + run
  BY FiledFacts DEF Packet
<1>6. /\ \A s \in SeqNo : queue[s] = (IF s = m.seq THEN m ELSE f.rcvPktQueue[s])
      /\ \A s \in SeqNo : queue[s] # Null =>
            IsPacketOf(q, queue[s]) /\ queue[s].seq = s /\ Taken(p) <= Place(q, queue[s])
      /\ \A k \in 1 .. Ready(p) + run : queue[(Taken(p) + k - 1) % SeqCnt] # Null
      /\ reached => /\ run > 0 /\ Taken(p) + Ready(p) + run = Sent(q) /\ FfnSent(q)
  BY FiledFacts
<1>7. /\ g \in FlowType /\ g.rcvPktQueue = queue
      /\ g.nextSeqNumber = f.nextSeqNumber /\ g.remoteFreeWindow = f.remoteFreeWindow
      /\ g.ackedUpto = f.ackedUpto /\ g.readUpto = f.readUpto /\ g.closeInitiated = f.closeInitiated
      /\ g.closed <=> f.closed \/ (reached /\ f.closeInitiated)
      /\ g.readSem = f.readSem + run - (IF answers THEN 1 ELSE 0)
  BY <1>5, AcceptIs
<1>8. answers => q \in Closers /\ FfnByApp(q) /\ ~f.closed /\ app[p].pc \in {"new", "idle"}
  BY <1>3, AnswerFacts
<1>9. flow'[p] = g /\ flow'[q] = flow[q] /\ conn'[q] = conn[q]
      /\ conn'[p] = IF answers THEN [pc |-> "number", seq |-> NextNumber(p)] ELSE conn[p]
  BY <1>1, <1>2 DEF FlowTypes
<1>10. /\ Taken(p) \in Nat /\ Ready(p) \in Nat /\ Sent(q) \in Nat /\ f.readSem \in Int
       /\ NextNumber(p) \in SeqNo
  BY <1>1, <1>5, CounterFacts, NextIsSent DEF FlowType
<1>11. flow' \in [Node -> FlowType] /\ conn' \in [Node -> ConnType]
  <2>1. conn'[p] \in ConnType
    BY <1>1, <1>2, <1>9, <1>10 DEF FlowTypes, ConnType
  <2>2. QED
    BY <1>2, <1>7, <1>9, <2>1 DEF FlowTypes
<1> HIDE DEF f, g, run, queue, reached, answers
<1>12. FlowTypes'
  BY <1>2, <1>3, <1>11, StartRecv DEF FlowTypes
<1>13. UNCHANGED <<Same(q), flow[q], written[q]>>
  BY <1>3, <1>9 DEF Same
<1>14. UNCHANGED <<FfnByApp(q), FfnSent(q), Sent(q), Taken(q), Ready(q)>>
  BY <1>1, <1>13, SameCounters
<1>15. f.closeInitiated => p \in Closers
  BY <1>2 DEF EndInv, AppInv, FfnByApp, f
<1>16. UNCHANGED <<FfnByApp(p), FfnSent(p), Sent(p), Taken(p)>>
  <2>1. UNCHANGED FfnByApp(p)
    BY <1>3 DEF FfnByApp
  <2>2. UNCHANGED FfnByConn(p)
    BY <1>7, <1>9, <1>15 DEF FfnByConn, f
  <2>3. UNCHANGED <<FfnSent(p), Sent(p)>>
    BY <1>3, <2>1, <2>2 DEF FfnSent, Sent
  <2>4. UNCHANGED Taken(p)
    BY <1>3, <1>7, <1>9 DEF Taken, TookFfn, f
  <2>5. QED
    BY <2>1, <2>3, <2>4
<1>17. Ready(p)' = Ready(p) + run
  BY <1>5, <1>7, <1>9 DEF Ready
<1>18. DirectionInv(p)'
  BY <1>1, <1>2, <1>3, <1>4, <1>7, <1>9, <1>13, <1>14, <1>16, DirectionFrame DEF f
<1>19. DirectionInv(q)'
  <2>1. UNCHANGED Acked(q)
    BY <1>13, <1>14 DEF Acked
  <2>2. WindowInv(q)'
    BY <1>1, <1>2, <1>5, <1>10, <1>13, <1>14, <1>16, <1>17, <2>1 DEF DirectionInv, WindowInv
  <2>3. \A n : Place(q, n)' = Place(q, n) /\ (IsPacketOf(q, n) => IsPacketOf(q, n)')
    BY <1>13, <1>14 DEF Place, IsPacketOf
  <2>4. QueueInv(q)'
    BY <1>1, <1>6, <1>7, <1>9, <1>16, <2>3 DEF QueueInv
  <2>5. ASSUME NEW n \in net'[q], "duplicate" \notin FaultKinds
        PROVE  Taken(p) <= Place(q, n) /\ queue[n.seq] = Null
    <3>1. n \in net[q] /\ n # m
      BY <1>4, <2>5
    <3>2. IsPacketOf(q, n) /\ Taken(p) <= Place(q, n) /\ f.rcvPktQueue[n.seq] = Null
      BY <1>1, <1>2, <2>5, <3>1 DEF DirectionInv, NetInv, f
    <3>3. IsPacketOf(q, m) /\ Taken(p) <= Place(q, m)
      BY <1>1, <1>2, <2>5 DEF DirectionInv, NetInv
    <3>4. n.seq # m.seq
      BY <1>1, <3>1, <3>2, <3>3, PlaceUnique
    <3>5. n.seq \in SeqNo
      BY <3>2 DEF IsPacketOf, Packet
    <3>6. QED
      BY <1>6, <3>2, <3>4, <3>5
  <2>6. ASSUME NEW n \in net'[q] PROVE IsPacketOf(q, n)'
    BY <1>2, <1>4, <2>3 DEF DirectionInv, NetInv
  <2>7. NetInv(q)'
    BY <1>1, <1>7, <1>9, <1>16, <2>3, <2>5, <2>6 DEF NetInv
  <2>8. QED
    BY <2>2, <2>4, <2>7 DEF DirectionInv
<1>20. EndInv(q)'
  <2>1. AnswerInv(q)'
    BY <1>1, <1>2, <1>13, <1>16, AnswerFrame DEF EndInv
  <2>2. lastRead[Peer(q)] <= written'[Peer(q)]
    BY <1>1, <1>2, <1>3 DEF EndInv, ReadInv
  <2>3. QED
    BY <1>1, <1>2, <1>3, <1>4, <1>13, <2>1, <2>2, EndFrame
<1>21. EndInv(p)'
  <2>1. AppInv(p)'
    BY <1>2, <1>3, <1>7, <1>9, <1>16 DEF EndInv, AppInv, f
  <2>2. AnswerInv(p)'
    <3>1. CASE answers
      <4>1. p \notin Closers /\ q \in Closers /\ FfnByApp(q)
        BY <1>8, <3>1, PeerIsQuiet
      <4>2. ~g.closed
        BY <1>7, <1>8, <3>1 DEF answers
      <4>3. Taken(p) + (Ready(p) + run) = Sent(q)
        BY <1>5, <1>6, <1>10, <3>1 DEF answers
      <4>4. QED
        BY <1>9, <1>14, <1>16, <1>17, <4>1, <4>2, <4>3 DEF AnswerInv
    <3>2. CASE ~answers
      <4>1. conn'[p].pc = "idle"
        BY <1>3, <1>9, <3>2
      <4>2. ASSUME p \notin Closers, g.closed
            PROVE  q \in Closers /\ FfnByApp(q) /\ Taken(p) + Ready(p) = Sent(q)
        <5>1. f.closed
          BY <1>7, <1>15, <4>2
        <5>2. QED
          BY <1>2, <4>2, <5>1 DEF EndInv, AnswerInv, f
      <4>3. ASSUME p \notin Closers, g.closed
            PROVE  q \in Closers /\ FfnByApp(q) /\ Taken(p) + (Ready(p) + run) = Sent(q)
        BY <1>5, <1>10, <4>2, <4>3
      <4>4. QED
        BY <1>9, <1>14, <1>16, <1>17, <4>1, <4>3 DEF AnswerInv
    <3>3. QED
      BY <3>1, <3>2
  <2>3. NumberInv(p)'
    <3>1. CASE answers
      <4>1. NextNumber(p) = Sent(p) % SeqCnt
        BY <1>3, <1>8, <3>1, NextIsSent
      <4>2. conn'[p].pc = "number" /\ conn'[p].seq = NextNumber(p) /\ app'[p].pc \in {"new", "idle"}
        BY <1>3, <1>8, <1>9, <3>1
      <4>3. QED
        BY <1>16, <4>1, <4>2 DEF NumberInv
    <3>2. CASE ~answers
      BY <1>2, <1>3, <1>7, <1>9, <1>16, <3>2 DEF EndInv, NumberInv, f
    <3>3. QED
      BY <3>1, <3>2
  <2>4. ReadInv(p)'
    <3>1. flow'[p].readUpto = NoBefore(Taken(p)') /\ lastRead'[q] <= written'[q]
      BY <1>2, <1>3, <1>7, <1>9, <1>16 DEF EndInv, ReadInv, f
    <3>2. \A k \in 1 .. Ready(p)' : flow'[p].rcvPktQueue[(Taken(p)' + k - 1) % SeqCnt] # Null
      BY <1>6, <1>7, <1>9, <1>16, <1>17
    <3>3. reader[p] # "ended" => f.readSem = Ready(p) - 0
      BY <1>2, <1>3 DEF EndInv, ReadInv, f
    <3>4. reader'[p] # "ended" => flow'[p].readSem = Ready(p)' - (IF answers THEN 1 ELSE 0)
      BY <1>3, <1>7, <1>9, <1>10, <1>5, <1>17, <3>3
    <3>5. conn'[p].pc = "idle" <=> ~answers
      BY <1>3, <1>9
    <3>6. QED
      BY <3>1, <3>2, <3>4, <3>5 DEF ReadInv
  <2>5. StatusInv(p)'
    BY <1>2, <1>3, <1>7, <1>9 DEF EndInv, StatusInv, f
  <2>6. QED
    BY <1>4, <2>1, <2>2, <2>3, <2>4, <2>5 DEF EndInv
<1>22. QED
  BY <1>1, <1>12, <1>18, <1>19, <1>20, <1>21 DEF FlowInv

LEMMA RecvPacketFromStep ==
  ASSUME FlowInv, Orderly, NEW p \in Node, NEW m \in net[Peer(p)], RecvPacketFrom(p, m)
  PROVE  FlowInv'
<1>1. CASE UNCHANGED <<flow, conn>>
  BY <1>1, NotKept
<1>2. CASE /\ ~IsDuplicate(flow[p], m) /\ flow' = [flow EXCEPT ![p] = Accept(@, m)]
           /\ conn' = [conn EXCEPT ![p] = IF ReachedFfn(flow[p], m) /\ ~flow[p].closeInitiated
                                          THEN [pc |-> "number", seq |-> NextNumber(p)] ELSE @]
  BY <1>2, Kept
<1>3. QED
  BY <1>1, <1>2 DEF RecvPacketFrom

(***************************************************************************)
(* The reader takes the packet at its place, or hears of the close.        *)
(***************************************************************************)
LEMMA ReadFacts ==
  ASSUME FlowInv, NEW p \in Node, ReadData(p)
  PROVE  LET m == flow[p].rcvPktQueue[Plus(flow[p].readUpto, 1)] IN
         /\ Ready(p) > 0 /\ flow[p].readSem = Ready(p) /\ Taken(p) = lastRead[Peer(p)]
         /\ Plus(flow[p].readUpto, 1) = Taken(p) % SeqCnt /\ m.seq = Taken(p) % SeqCnt
         /\ m # Null /\ IsPacketOf(Peer(p), m) /\ Place(Peer(p), m) = Taken(p)
         /\ NoBefore(Taken(p)) # Taken(p) % SeqCnt
<1> DEFINE q == Peer(p)
           f == flow[p]
           T == Taken(p)
           m == f.rcvPktQueue[T % SeqCnt]
<1>1. q \in Node /\ Peer(q) = p
  BY PeerFacts
<1>2. ReadInv(p) /\ QueueInv(q) /\ reader[p] = "waiting" /\ conn[p].pc = "idle" /\ f.readSem > 0
  BY <1>1 DEF FlowInv, EndInv, DirectionInv, ReadData
<1>3. /\ T \in Nat /\ Ready(p) \in Nat /\ Sent(q) \in Nat /\ Acked(q) \in Nat /\ f.readUpto = NoBefore(T)
      /\ Acked(q) <= T /\ Sent(q) <= Acked(q) + RecvWindow
  BY <1>1, CounterFacts
<1>4. f.readSem = Ready(p) /\ Ready(p) > 0 /\ T = lastRead[q]
  <2>1. lastRead[q] \in Nat
    BY <1>1 DEF FlowInv, FlowTypes
  <2>2. QED
    BY <1>2, <1>3, <2>1 DEF ReadInv, Taken, TookFfn
<1>5. Plus(f.readUpto, 1) = T % SeqCnt
  BY <1>3, NoBeforeFacts
<1>6. T % SeqCnt \in SeqNo
  BY <1>3, Residue
<1>7. m # Null
  <2>1. 1 \in 1 .. Ready(p) /\ T + 1 - 1 = T
    BY <1>3, <1>4
  <2>2. f.rcvPktQueue[(T + 1 - 1) % SeqCnt] # Null
    BY <1>2, <2>1 DEF ReadInv
  <2>3. QED
    BY <2>1, <2>2
<1>8. IsPacketOf(q, m) /\ m.seq = T % SeqCnt /\ T <= Place(q, m)
  BY <1>1, <1>2, <1>6, <1>7 DEF QueueInv
<1>9. Place(q, m) = T
  <2>1. Place(q, m) \in Nat /\ Place(q, m) < Sent(q) /\ Place(q, m) % SeqCnt = T % SeqCnt
    BY <1>1, <1>8, PlaceFacts
  <2>2. -SeqCnt < Place(q, m) - T /\ Place(q, m) - T < SeqCnt
    BY <1>3, <1>8, <2>1, SpaceFacts
  <2>3. QED
    BY <1>3, <2>1, <2>2, ResidueEqual
<1>10. NoBefore(T) # T % SeqCnt
  <2>1. T + SeqCnt - 1 \in Int /\ (T + SeqCnt - 1) - T = SeqCnt - 1
    BY <1>3, SpaceFacts
  <2>2. SUFFICES ASSUME (T + SeqCnt - 1) % SeqCnt = T % SeqCnt PROVE FALSE
    BY DEF NoBefore
  <2>3. T + SeqCnt - 1 = T
    BY <1>3, <2>1, <2>2, ResidueEqual, SpaceFacts
  <2>4. QED
    BY <1>3, <2>3, SpaceFacts
<1>11. QED
  BY <1>4, <1>5, <1>7, <1>8, <1>9, <1>10

\* The distances of statuses grow with each packet that is read.
LEMMA StatusRead ==
  ASSUME FlowInv, NEW p \in Node, ReadData(p), StatusInv(p)
  PROVE  StatusInv(p)'
<1> DEFINE x == flow[p].readUpto
           announces == reads[p] + 1 > ReadsPerControl
<1>1. /\ reads \in [Node -> 0 .. ReadsPerControl] /\ reader \in [Node -> ReaderType]
      /\ flow \in [Node -> FlowType] /\ status \in [Node -> SUBSET SeqNo]
  BY DEF FlowInv, FlowTypes
<1>2. reads[p] \in Nat /\ reads[p] <= ReadsPerControl /\ x \in SeqNo /\ reader[p] = "waiting"
  BY <1>1, SpaceFacts DEF FlowType, ReadData
<1> DEFINE bound == IF reader'[p] = "ended" THEN RecvWindow ELSE reads'[p]
           y == flow'[p].readUpto
<1>3. y = x \/ y = Plus(x, 1)
  BY <1>1 DEF ReadData, FlowType
<1>4. reader'[p] \in {"ended", "reading"} /\ reads'[p] = IF announces THEN 0 ELSE reads[p] + 1
  BY <1>1 DEF ReadData, ReaderType
<1>5. \/ status'[p] = status[p] /\ (reader'[p] = "ended" \/ ~announces)
      \/ status'[p] = {v \in status[p] : Dist(y, v) < SeqCnt \div 2} \cup {y}
  <2> DEFINE f == flow[p]
             byClose == f.closeInitiated /\ f.closed
             upTo == IF byClose THEN f.readUpto ELSE Plus(f.readUpto, 1)
             over == byClose \/ f.rcvPktQueue[Plus(f.readUpto, 1)].ffn
  <2>1. /\ status' = [status EXCEPT ![p] = IF announces /\ ~over THEN Announce(p, upTo) ELSE @]
        /\ reader' = [reader EXCEPT ![p] = IF over THEN "ended" ELSE "reading"]
        /\ flow' = [flow EXCEPT ![p].readSem = @ - 1, ![p].readUpto = upTo,
                            ![p].rcvPktQueue = IF byClose THEN @ ELSE [@ EXCEPT ![upTo] = Null]]
    BY DEF ReadData
  <2>2. y = upTo /\ reader'[p] = (IF over THEN "ended" ELSE "reading")
        /\ status'[p] = (IF announces /\ ~over THEN Announce(p, upTo) ELSE status[p])
    BY <1>1, <2>1 DEF FlowType
  <2> HIDE DEF upTo, over, announces
  <2>3. QED
    BY <2>2 DEF Announce
<1>6. y \in SeqNo /\ Dist(y, y) = 0
  <2>1. x + 1 \in Int
    BY <1>2, SpaceFacts DEF SeqNo
  <2>2. Plus(x, 1) \in SeqNo
    BY <2>1, Residue DEF Plus
  <2>3. QED
    BY <1>2, <1>3, <2>2, DistSound
<1>7. ASSUME NEW v \in SeqNo PROVE Dist(y, v) <= Dist(x, v) + 1 /\ Dist(x, v) \in Nat /\ Dist(y, v) \in Nat
  <2>1. Dist(x, v) \in SeqNo /\ Dist(y, v) \in SeqNo
    BY <1>2, <1>6, DistSound
  <2>2. Dist(x, v) \in Nat /\ Dist(y, v) \in Nat /\ Dist(x, v) < SeqCnt
    BY <2>1, SpaceFacts DEF SeqNo
  <2>3. CASE y = Plus(x, 1)
    <3>1. x \in Int /\ v \in Int /\ x + 1 \in Int /\ x - v \in Int
      BY <1>2, SpaceFacts DEF SeqNo
    <3>2. Dist(y, v) = (x + 1 - v) % SeqCnt
      <4>1. (x + 1 - v) = (x + 1) + (-v) /\ ((x + 1) % SeqCnt) - v = ((x + 1) % SeqCnt) + (-v)
        BY <1>6, <2>3, <3>1, SpaceFacts DEF Plus, SeqNo
      <4>2. QED
        BY <2>3, <3>1, <4>1, ResidueAdd DEF Dist, Plus
    <3>3. (((x - v) % SeqCnt) + 1) % SeqCnt = (x - v + 1) % SeqCnt
      <4> DEFINE d == x - v
      <4>1. d \in Int
        BY <3>1
      <4> HIDE DEF d
      <4>2. ((d % SeqCnt) + 1) % SeqCnt = (d + 1) % SeqCnt
        BY <4>1, ResidueAdd
      <4>3. QED
        BY <4>2 DEF d
    <3>4. x - v + 1 = x + 1 - v
      BY <3>1
    <3>5. Dist(y, v) = (Dist(x, v) + 1) % SeqCnt
      BY <3>2, <3>3, <3>4 DEF Dist
    <3>6. Dist(x, v) + 1 < SeqCnt \/ Dist(x, v) + 1 = SeqCnt
      BY <2>2, SpaceFacts
    <3>7. QED
      BY <2>2, <3>5, <3>6, ResidueNear, SpaceFacts
  <2>4. CASE y = x
    BY <2>2, <2>4
  <2>5. QED
    BY <1>3, <2>3, <2>4
<1>8. \A v \in status[p] : Dist(x, v) < SeqCnt \div 2 + reads[p]
  BY <1>2 DEF StatusInv
<1>9. bound \in Nat /\ (reader'[p] = "ended" \/ ~announces => reads[p] + 1 <= bound)
  BY <1>2, <1>4, SpaceFacts
<1> HIDE DEF bound, announces, x, y
<1>10. ASSUME NEW v \in status'[p] PROVE Dist(y, v) < SeqCnt \div 2 + bound
  <2>1. CASE v \in status[p] /\ (reader'[p] = "ended" \/ ~announces)
    <3>1. v \in SeqNo /\ Dist(x, v) < SeqCnt \div 2 + reads[p]
      BY <1>1, <1>8, <2>1
    <3>2. QED
      BY <1>2, <1>7, <1>9, <2>1, <3>1, SpaceFacts
  <2>2. CASE v \in status[p] /\ Dist(y, v) < SeqCnt \div 2
    <3>1. v \in SeqNo
      BY <1>1, <2>2
    <3>2. QED
      BY <1>7, <1>9, <2>2, <3>1, SpaceFacts
  <2>3. CASE v = y
    BY <1>6, <1>9, <2>3, SpaceFacts
  <2>4. QED
    BY <1>5, <2>1, <2>2, <2>3
<1>11. QED
  BY <1>10 DEF StatusInv, bound, y

LEMMA ReadDataStep ==
  ASSUME FlowInv, NEW p \in Node, ReadData(p)
  PROVE  FlowInv'
<1> DEFINE q == Peer(p)
           f == flow[p]
           T == Taken(p)
           R == Ready(p)
           m == f.rcvPktQueue[Plus(f.readUpto, 1)]
           byClose == f.closeInitiated /\ f.closed
           upTo == IF byClose THEN f.readUpto ELSE Plus(f.readUpto, 1)
           over == byClose \/ m.ffn
<1>1. q \in Node /\ q # p /\ Peer(q) = p /\ Node = {p, q}
  BY PeerFacts
<1>2. FlowTypes /\ EndInv(p) /\ EndInv(q) /\ DirectionInv(p) /\ DirectionInv(q)
  BY <1>1 DEF FlowInv
<1>3. /\ R > 0 /\ f.readSem = R /\ T = lastRead[q]
      /\ Plus(f.readUpto, 1) = T % SeqCnt /\ m.seq = T % SeqCnt
      /\ m # Null /\ IsPacketOf(q, m) /\ Place(q, m) = T /\ NoBefore(T) # T % SeqCnt
  BY ReadFacts
<1>4. /\ reader[p] = "waiting" /\ conn[p].pc = "idle"
      /\ flow' = [flow EXCEPT ![p].readSem = @ - 1, ![p].readUpto = upTo,
                              ![p].rcvPktQueue = IF byClose THEN @ ELSE [@ EXCEPT ![upTo] = Null]]
      /\ reader' = [reader EXCEPT ![p] = IF over THEN "ended" ELSE "reading"]
      /\ lastRead' = [lastRead EXCEPT ![q] = IF over THEN @ ELSE m.id]
      /\ UNCHANGED <<created, pending, app, conn, net, written, open, faults>>
  BY DEF ReadData
<1>5. /\ T \in Nat /\ R \in Nat /\ R < SeqCnt /\ T + R <= Sent(q)
      /\ f.readUpto = NoBefore(T) /\ f.availableUpTo = NoBefore(T + R) /\ f \in FlowType
      /\ T % SeqCnt \in SeqNo /\ NoBefore(T) \in SeqNo /\ m \in Packet
      /\ lastRead[q] \in Nat /\ m.id \in Nat
  <2>1. T \in Nat /\ R \in Nat /\ R < SeqCnt /\ f.readUpto = NoBefore(T) /\ f.availableUpTo = NoBefore(T + R)
    BY CounterFacts
  <2>2. T + R <= Sent(q)
    BY <1>1, CounterFacts
  <2>3. T % SeqCnt \in SeqNo /\ NoBefore(T) \in SeqNo
    BY <2>1, Residue, NoBeforeFacts
  <2>4. m \in Packet /\ m.id \in Nat
    BY <1>3 DEF IsPacketOf, Packet
  <2>5. f \in FlowType /\ lastRead[q] \in Nat
    BY <1>1, <1>2 DEF FlowTypes
  <2>6. QED
    BY <2>1, <2>2, <2>3, <2>4, <2>5
<1>6. upTo = (IF byClose THEN NoBefore(T) ELSE T % SeqCnt) /\ upTo \in SeqNo
  BY <1>3, <1>5
<1> HIDE DEF m, over, T, R
<1>7. /\ flow'[p] \in FlowType /\ flow'[q] = flow[q] /\ flow'[p].readUpto = upTo
      /\ flow'[p].readSem = R - 1
      /\ \A s \in SeqNo : flow'[p].rcvPktQueue[s] =
            (IF ~byClose /\ s = T % SeqCnt THEN Null ELSE f.rcvPktQueue[s])
      /\ flow'[p].availableUpTo = f.availableUpTo /\ flow'[p].nextSeqNumber = f.nextSeqNumber
      /\ flow'[p].remoteFreeWindow = f.remoteFreeWindow /\ flow'[p].ackedUpto = f.ackedUpto
      /\ flow'[p].closeInitiated = f.closeInitiated /\ flow'[p].closed = f.closed
  <2> DEFINE queue == IF byClose THEN f.rcvPktQueue ELSE [f.rcvPktQueue EXCEPT ![upTo] = Null]
             g == [f EXCEPT !.readSem = @ - 1, !.readUpto = upTo, !.rcvPktQueue = queue]
  <2>1. queue \in [SeqNo -> Packet \cup {Null}]
    BY <1>5 DEF FlowType
  <2>2. \A s \in SeqNo : queue[s] = (IF ~byClose /\ s = T % SeqCnt THEN Null ELSE f.rcvPktQueue[s])
    BY <1>5, <1>6 DEF FlowType
  <2> HIDE DEF queue, upTo, byClose
  <2>3. g \in FlowType
    <3>1. [f EXCEPT !.readSem = @ - 1] \in FlowType
      BY <1>5 DEF FlowType
    <3>2. \A h \in FlowType : [h EXCEPT !.readUpto = upTo] \in FlowType
      BY <1>6 DEF FlowType
    <3>3. \A h \in FlowType : [h EXCEPT !.rcvPktQueue = queue] \in FlowType
      BY <2>1 DEF FlowType
    <3>4. QED
      BY <3>1, <3>2, <3>3
  <2>4. flow'[p] = g /\ flow'[q] = flow[q]
    BY <1>1, <1>2, <1>4 DEF FlowTypes, queue
  <2>5. /\ g.readSem = f.readSem - 1 /\ g.readUpto = upTo /\ g.rcvPktQueue = queue
        /\ g.availableUpTo = f.availableUpTo /\ g.nextSeqNumber = f.nextSeqNumber
        /\ g.remoteFreeWindow = f.remoteFreeWindow /\ g.ackedUpto = f.ackedUpto
        /\ g.closeInitiated = f.closeInitiated /\ g.closed = f.closed
    BY <1>5 DEF FlowType
  <2> HIDE DEF g
  <2>6. QED
    BY <1>3, <2>2, <2>3, <2>4, <2>5
<1>8. FlowTypes'
  <2>1. flow' \in [Node -> FlowType]
    BY <1>1, <1>2, <1>4, <1>7 DEF FlowTypes
  <2>2. listed' \in [Node -> BOOLEAN] /\ reads' \in [Node -> 0 .. ReadsPerControl]
    BY <1>2, SpaceFacts DEF ReadData, FlowTypes
  <2>3. lastRead' \in [Node -> Nat] /\ reader' \in [Node -> ReaderType]
    BY <1>1, <1>2, <1>4, <1>5 DEF FlowTypes, ReaderType
  <2>4. status' \in [Node -> SUBSET SeqNo]
    <3>1. status' = status \/ status' = [status EXCEPT ![p] = Announce(p, upTo)]
      BY <1>2 DEF ReadData, FlowTypes
    <3>2. Announce(p, upTo) \subseteq SeqNo
      BY <1>2, <1>6 DEF Announce, FlowTypes
    <3>3. QED
      BY <1>2, <3>1, <3>2 DEF FlowTypes
  <2>5. QED
    BY <1>2, <1>4, <2>1, <2>2, <2>3, <2>4 DEF FlowTypes
<1>9. /\ UNCHANGED <<Same(q), flow[q], pending, created, net, app, conn, open, written, lastRead[p]>>
      /\ status'[q] = status[q] /\ reader'[p] = (IF over THEN "ended" ELSE "reading")
      /\ lastRead'[q] = IF over THEN lastRead[q] ELSE m.id
  BY <1>1, <1>2, <1>4, <1>7 DEF Same, FlowTypes, ReadData
<1>10. UNCHANGED <<FfnByApp(q), FfnSent(q), Sent(q), Taken(q), Ready(q), written[q]>>
  BY <1>1, <1>9, SameCounters
<1>11. UNCHANGED <<FfnByApp(p), FfnSent(p), Sent(p)>>
  BY <1>7, <1>9 DEF FfnByApp, FfnByConn, FfnSent, Sent
<1>12. Taken(p)' = (IF byClose THEN T ELSE T + 1) /\ lastRead'[q] <= written'[q]
  <2>1. CASE byClose
    BY <1>2, <1>3, <1>5, <1>6, <1>7, <1>9, <2>1 DEF Taken, TookFfn, over, EndInv, ReadInv
  <2>2. CASE ~byClose /\ m.ffn
    BY <1>2, <1>3, <1>5, <1>6, <1>7, <1>9, <2>2 DEF Taken, TookFfn, over, EndInv, ReadInv
  <2>3. CASE ~byClose /\ ~m.ffn
    <3>1. lastRead'[q] = T + 1 /\ reader'[p] = "reading"
      BY <1>3, <1>5, <1>9, <2>3 DEF over, Place
    <3>2. m.id \in 1 .. written[q]
      BY <1>3, <2>3 DEF IsPacketOf
    <3>3. QED
      BY <1>3, <1>5, <1>9, <2>3, <3>1, <3>2 DEF Taken, TookFfn, Place
  <2>4. QED
    BY <2>1, <2>2, <2>3
<1>13. Taken(p)' + Ready(p)' = T + R /\ Ready(p)' = (IF byClose THEN R ELSE R - 1)
  <2>1. CASE byClose
    BY <1>5, <1>6, <1>7, <1>12, <2>1 DEF Ready, R
  <2>2. CASE ~byClose
    <3> DEFINE i == T + R
               j == T + 1
    <3>1. i \in Nat /\ j \in Nat /\ i - j = R - 1 /\ 0 <= R - 1 /\ R - 1 < SeqCnt /\ R - 1 \in Int
      BY <1>3, <1>5, SpaceFacts
    <3>2. flow'[p].availableUpTo = NoBefore(i) /\ flow'[p].readUpto = NoBefore(j)
      BY <1>5, <1>6, <1>7, <2>2, NoBeforeFacts
    <3> HIDE DEF i, j
    <3>3. Dist(NoBefore(i), NoBefore(j)) = R - 1
      BY <3>1, NoBeforeFacts, ResidueNear
    <3>4. QED
      BY <1>5, <1>12, <2>2, <3>2, <3>3 DEF Ready
  <2>3. QED
    BY <2>1, <2>2
<1> HIDE DEF f, T, R, byClose, upTo
<1>14. DirectionInv(p)'
  BY <1>1, <1>2, <1>7, <1>9, <1>10, <1>11, DirectionFrame DEF f
<1>15. DirectionInv(q)'
  <2>1. UNCHANGED Acked(q)
    BY <1>9, <1>10 DEF Acked
  <2>2. WindowInv(q)'
    <3>1. Acked(q) \in 0 .. T /\ flow[q].ackedUpto = NoBefore(Acked(q)) /\ Acked(q) \in Nat
      BY <1>1, <1>2, <1>5 DEF DirectionInv, WindowInv, T
    <3>2. Acked(q) \in 0 .. Taken(p)'
      BY <1>5, <1>12, <3>1
    <3>3. QED
      BY <1>1, <1>5, <1>9, <1>10, <1>13, <2>1, <3>1, <3>2 DEF WindowInv
  <2>3. \A n : Place(q, n)' = Place(q, n) /\ (IsPacketOf(q, n) => IsPacketOf(q, n)')
    BY <1>10 DEF Place, IsPacketOf
  <2>4. ASSUME NEW n, IsPacketOf(q, n), T <= Place(q, n), byClose \/ n.seq # T % SeqCnt
        PROVE  Taken(p)' <= Place(q, n)'
    <3>1. Place(q, n) \in Nat /\ n.seq = Place(q, n) % SeqCnt
      BY <1>1, <2>4, PlaceFacts
    <3>2. QED
      BY <1>5, <1>12, <2>3, <2>4, <3>1
  <2>5. QueueInv(q)'
    <3>1. ASSUME NEW s \in SeqNo, NEW n, n = flow'[p].rcvPktQueue[s], n # Null
          PROVE  IsPacketOf(q, n)' /\ n.seq = s /\ Taken(p)' <= Place(q, n)'
      <4>1. f.rcvPktQueue[s] = n /\ (byClose \/ s # T % SeqCnt)
        BY <1>7, <3>1
      <4>2. IsPacketOf(q, n) /\ n.seq = s /\ T <= Place(q, n)
        BY <1>1, <1>2, <3>1, <4>1 DEF DirectionInv, QueueInv, f, T
      <4>3. QED
        BY <2>3, <2>4, <4>1, <4>2
    <3>2. QED
      BY <1>1, <3>1 DEF QueueInv
  <2>6. NetInv(q)'
    <3>1. ASSUME NEW n \in net[q]
          PROVE  /\ IsPacketOf(q, n)'
                 /\ "duplicate" \notin FaultKinds =>
                      Taken(p)' <= Place(q, n)' /\ flow'[p].rcvPktQueue[n.seq] = Null
      <4>1. IsPacketOf(q, n) /\ n.seq \in SeqNo
            /\ ("duplicate" \notin FaultKinds => T <= Place(q, n) /\ f.rcvPktQueue[n.seq] = Null)
        BY <1>1, <1>2 DEF DirectionInv, NetInv, f, T, IsPacketOf, Packet
      <4>2. f.rcvPktQueue[T % SeqCnt] # Null
        BY <1>3 DEF m
      <4>3. "duplicate" \notin FaultKinds => n.seq # T % SeqCnt
        BY <4>1, <4>2
      <4>4. QED
        BY <1>7, <2>3, <2>4, <4>1, <4>3
    <3>2. QED
      BY <1>1, <1>9, <3>1 DEF NetInv
  <2>7. QED
    BY <2>2, <2>5, <2>6 DEF DirectionInv
<1>16. EndInv(q)'
  <2>1. StartInv(q)'
    BY <1>1, <1>2, <1>9 DEF EndInv, StartInv, Same
  <2>2. AnswerInv(q)'
    BY <1>1, <1>2, <1>9, <1>11, AnswerFrame DEF EndInv
  <2>3. lastRead[Peer(q)] <= written'[Peer(q)]
    BY <1>1, <1>2, <1>9 DEF EndInv, ReadInv
  <2>4. QED
    BY <1>1, <1>2, <1>9, <2>1, <2>2, <2>3, EndFrame
<1>17. EndInv(p)'
  <2>1. StartInv(p)'
    BY <1>2, <1>4, <1>9 DEF EndInv, StartInv
  <2>2. AppInv(p)'
    BY <1>2, <1>7, <1>9, <1>11 DEF EndInv, AppInv, f
  <2>3. AnswerInv(p)'
    BY <1>2, <1>4, <1>7, <1>9, <1>10, <1>13 DEF EndInv, AnswerInv, f, T, R
  <2>4. NumberInv(p)'
    BY <1>2, <1>7, <1>9, <1>11 DEF EndInv, NumberInv, f
  <2>5. ReadInv(p)'
    <3>1. flow'[p].readUpto = NoBefore(Taken(p)')
      BY <1>5, <1>6, <1>7, <1>12, NoBeforeFacts
    <3>2. ASSUME NEW k \in 1 .. Ready(p)'
          PROVE  flow'[p].rcvPktQueue[(Taken(p)' + k - 1) % SeqCnt] # Null
      <4> DEFINE d == IF byClose THEN k ELSE k + 1
                 i == T + d - 1
      <4>1. d \in 1 .. R /\ Taken(p)' + k - 1 = i /\ i \in Nat /\ i - T < SeqCnt /\ -SeqCnt < i - T
            /\ (~byClose => i # T)
        <5>1. d \in 1 .. R /\ d \in Nat /\ k \in Nat
          BY <1>3, <1>5, <1>13
        <5>2. Taken(p)' + k - 1 = i /\ i \in Nat
          BY <1>5, <1>12, <5>1
        <5>3. i - T < SeqCnt /\ -SeqCnt < i - T
          BY <1>5, <5>1, SpaceFacts
        <5>4. QED
          BY <1>5, <5>1, <5>2, <5>3
      <4>2. f.rcvPktQueue[i % SeqCnt] # Null
        BY <1>2, <4>1 DEF EndInv, ReadInv, f, T, R
      <4> HIDE DEF i, d
      <4>3. i % SeqCnt \in SeqNo /\ (~byClose => i % SeqCnt # T % SeqCnt)
        BY <1>5, <4>1, Residue, ResidueEqual
      <4>4. QED
        BY <1>7, <4>1, <4>2, <4>3
    <3>3. reader'[p] # "ended" => flow'[p].readSem = Ready(p)' - 0
      BY <1>5, <1>7, <1>9, <1>13 DEF over
    <3>4. QED
      BY <1>4, <1>9, <1>12, <3>1, <3>2, <3>3 DEF ReadInv
  <2>6. StatusInv(p)'
    BY <1>2, StatusRead DEF EndInv
  <2>7. QED
    BY <2>1, <2>2, <2>3, <2>4, <2>5, <2>6 DEF EndInv
<1>18. QED
  BY <1>1, <1>8, <1>14, <1>15, <1>16, <1>17 DEF FlowInv

(***************************************************************************)
(* A status opens the window if it is newer than the last, which the size  *)
(* of the window decides: no status is half the numbers old.               *)
(***************************************************************************)
LEMMA StatusIsNew ==
  ASSUME FlowInv, NEW p \in Node, NEW v \in status[Peer(p)], Dist(v, flow[p].ackedUpto) <= RecvWindow
  PROVE  LET n == Dist(v, flow[p].ackedUpto) IN
         n \in Nat /\ v \in SeqNo /\ v = NoBefore(Acked(p) + n) /\ Acked(p) + n <= Taken(Peer(p))
<1> DEFINE q == Peer(p)
           A == Acked(p)
           T == Taken(q)
           x == flow[q].readUpto
           n == Dist(v, flow[p].ackedUpto)
           d == Dist(x, v)
<1>1. q \in Node
  BY PeerFacts
<1>2. /\ A \in Nat /\ T \in Nat /\ Sent(p) \in Nat /\ A <= T /\ T <= Sent(p) /\ Sent(p) <= A + RecvWindow
      /\ x = NoBefore(T)
  BY <1>1, CounterFacts, SpaceFacts
<1>3. v \in SeqNo /\ flow[p].ackedUpto \in SeqNo /\ x \in SeqNo
      /\ reads[q] \in Nat /\ reads[q] <= ReadsPerControl
  BY <1>1, SpaceFacts DEF FlowInv, FlowTypes, FlowType
<1>4. flow[p].ackedUpto = NoBefore(A)
  BY DEF FlowInv, DirectionInv, WindowInv
<1>5. /\ n \in SeqNo /\ Plus(flow[p].ackedUpto, n) = v
      /\ d \in SeqNo /\ Plus(v, d) = x
  BY <1>3, DistSound
<1>6. d < SeqCnt \div 2 + RecvWindow
  <2>1. StatusInv(q)
    BY <1>1 DEF FlowInv, EndInv
  <2>2. d < SeqCnt \div 2 + (IF reader[q] = "ended" THEN RecvWindow ELSE reads[q])
    BY <2>1 DEF StatusInv
  <2>3. d \in Int
    BY <1>5, SpaceFacts DEF SeqNo
  <2>4. QED
    BY <1>3, <2>2, <2>3, SpaceFacts
<1> HIDE DEF n, d, A, T, x
<1>7. n \in Nat /\ d \in Nat /\ n < SeqCnt /\ n <= RecvWindow
  BY <1>5, SpaceFacts DEF SeqNo, n
<1>8. v = NoBefore(A + n)
  BY <1>2, <1>4, <1>5, <1>7, NoBeforeFacts
<1>9. x = NoBefore(A + n + d)
  <2> DEFINE i == A + n
  <2>1. i \in Nat
    BY <1>2, <1>7
  <2> HIDE DEF i
  <2>2. Plus(NoBefore(i), d) = NoBefore(i + d)
    BY <1>7, <2>1, NoBeforeFacts
  <2>3. v = NoBefore(i)
    BY <1>8 DEF i
  <2>4. x = NoBefore(i + d)
    BY <1>5, <2>2, <2>3
  <2>5. QED
    BY <2>4 DEF i
<1>10. A + n + d = T
  <2> DEFINE i == A + n + d
  <2>1. i \in Nat /\ i + SeqCnt - 1 \in Int /\ T + SeqCnt - 1 \in Int
    BY <1>2, <1>7, SpaceFacts
  <2>2. -SeqCnt < i - T /\ i - T < SeqCnt
    BY <1>2, <1>6, <1>7, SpaceFacts
  <2>3. (i + SeqCnt - 1) - (T + SeqCnt - 1) = i - T
    BY <1>2, <2>1, SpaceFacts
  <2>4. (i + SeqCnt - 1) % SeqCnt = (T + SeqCnt - 1) % SeqCnt
    BY <1>2, <1>9 DEF NoBefore
  <2> HIDE DEF i
  <2>5. i + SeqCnt - 1 = T + SeqCnt - 1
    BY <2>1, <2>2, <2>3, <2>4, ResidueEqual
  <2>6. i = T
    BY <1>2, <2>1, <2>5, SpaceFacts
  <2>7. QED
    BY <2>6 DEF i
<1>11. QED
  BY <1>2, <1>3, <1>7, <1>8, <1>10 DEF n, A, T, x

LEMMA RecvAckStep ==
  ASSUME FlowInv, NEW p \in Node, NEW v \in status[Peer(p)], RecvAck(p, v)
  PROVE  FlowInv'
<1> DEFINE q == Peer(p)
           f == flow[p]
           n == Dist(v, f.ackedUpto)
           g == [f EXCEPT !.ackedUpto = v, !.remoteFreeWindow = @ + n]
<1>1. q \in Node /\ q # p /\ Peer(q) = p /\ Node = {p, q}
  BY PeerFacts
<1>2. FlowTypes /\ EndInv(p) /\ EndInv(q) /\ DirectionInv(p) /\ DirectionInv(q) /\ f \in FlowType
  BY <1>1 DEF FlowInv, FlowTypes
<1>3. /\ UNCHANGED <<listed, created, pending, app, reader, conn, reads, net, written, lastRead, open, faults>>
      /\ status' = [status EXCEPT ![q] = @ \ {v}]
      /\ flow' = [flow EXCEPT ![p] = IF listed[p] THEN Acknowledge(f, v) ELSE f]
  BY DEF RecvAck, threads, history
<1>4. n <= RecvWindow => /\ n \in Nat /\ v \in SeqNo /\ v = NoBefore(Acked(p) + n)
                         /\ Acked(p) + n <= Taken(q)
  BY StatusIsNew
<1>5. /\ Acked(p) \in Nat /\ Taken(q) \in Nat /\ Sent(p) \in Nat /\ Taken(q) <= Sent(p)
      /\ f.remoteFreeWindow \in Nat /\ RecvWindow \in Nat /\ Acked(p) = Sent(p) + f.remoteFreeWindow - RecvWindow
  BY <1>1, <1>2, CounterFacts, SpaceFacts DEF Acked, FlowType
<1>6. n <= RecvWindow => /\ g \in FlowType /\ g.ackedUpto = v /\ g.remoteFreeWindow = f.remoteFreeWindow + n
  <2>1. SUFFICES ASSUME n <= RecvWindow PROVE g \in FlowType /\ g.ackedUpto = v /\ g.remoteFreeWindow = f.remoteFreeWindow + n
    OBVIOUS
  <2>2. f.remoteFreeWindow + n \in 0 .. RecvWindow /\ v \in SeqNo
    BY <1>4, <1>5, <2>1
  <2> HIDE DEF n, f
  <2>3. [f EXCEPT !.ackedUpto = v] \in FlowType
    BY <1>2, <2>2 DEF FlowType
  <2>4. \A h \in FlowType : h.remoteFreeWindow + n \in 0 .. RecvWindow =>
           [h EXCEPT !.remoteFreeWindow = @ + n] \in FlowType
    BY DEF FlowType
  <2>5. [f EXCEPT !.ackedUpto = v].remoteFreeWindow = f.remoteFreeWindow
    BY <1>2 DEF FlowType
  <2>6. g \in FlowType
    BY <2>2, <2>3, <2>4, <2>5
  <2>7. QED
    BY <1>2, <2>6 DEF FlowType
<1>7. flow'[q] = flow[q] /\ (flow'[p] = f \/ (n <= RecvWindow /\ n \in Nat /\ flow'[p] = g))
  <2>1. v \in SeqNo /\ f.ackedUpto \in SeqNo
    BY <1>1, <1>2 DEF FlowTypes, FlowType
  <2>2. n \in Int /\ RecvWindow \in Int
    BY <2>1, DistSound, SpaceFacts DEF SeqNo
  <2>3. Acknowledge(f, v) = IF n > RecvWindow THEN f ELSE g
    BY DEF Acknowledge
  <2>4. flow'[q] = flow[q] /\ flow'[p] = IF listed[p] THEN Acknowledge(f, v) ELSE f
    BY <1>1, <1>2, <1>3 DEF FlowTypes
  <2> HIDE DEF n, g
  <2>5. QED
    BY <1>4, <2>2, <2>3, <2>4
<1>8. FlowTypes'
  <2>1. flow'[p] \in FlowType
    BY <1>2, <1>6, <1>7
  <2>2. flow' \in [Node -> FlowType]
    BY <1>1, <1>2, <1>3, <1>7, <2>1 DEF FlowTypes
  <2>3. status' \in [Node -> SUBSET SeqNo]
    BY <1>2, <1>3 DEF FlowTypes
  <2>4. QED
    BY <1>2, <1>3, <2>2, <2>3 DEF FlowTypes
<1>9. /\ UNCHANGED <<f.nextSeqNumber, f.rcvPktQueue, f.readUpto, f.availableUpTo, f.readSem,
                     f.closeInitiated, f.closed>>
      /\ status'[p] = status[p] /\ status'[q] \subseteq status[q]
  BY <1>1, <1>2, <1>3, <1>7 DEF FlowType, FlowTypes
<1>10. \A r \in Node : UNCHANGED <<Same(r), written[r]>> /\ status'[r] \subseteq status[r]
  BY <1>1, <1>3, <1>7, <1>9 DEF Same
<1>11. \A r \in Node : UNCHANGED <<FfnByApp(r), FfnSent(r), Sent(r), Taken(r), Ready(r)>>
  BY <1>10, SameCounters
<1>12. ASSUME NEW r \in Node PROVE EndInv(r)'
  <2>1. Peer(r) \in Node /\ EndInv(r)
    BY PeerFacts DEF FlowInv
  <2>2. StartInv(r)'
    BY <1>3, <2>1 DEF EndInv, StartInv
  <2>3. AnswerInv(r)'
    BY <1>10, <1>11, <2>1, AnswerFrame DEF EndInv
  <2>4. lastRead[Peer(r)] <= written'[Peer(r)]
    BY <1>10, <2>1 DEF EndInv, ReadInv
  <2>5. QED
    BY <1>10, <2>1, <2>2, <2>3, <2>4, EndFrame
<1>13. DirectionInv(q)'
  BY <1>1, <1>2, <1>3, <1>7, <1>9, <1>10, <1>11, DirectionFrame DEF f
<1>14. DirectionInv(p)'
  <2>1. CASE flow'[p] = f
    BY <1>1, <1>2, <1>3, <1>7, <1>10, <1>11, <2>1, DirectionFrame DEF f
  <2>2. CASE n <= RecvWindow /\ n \in Nat /\ flow'[p] = g
    <3>1. Acked(p)' = Acked(p) + n /\ flow'[p].ackedUpto = NoBefore(Acked(p) + n)
      BY <1>4, <1>5, <1>6, <1>11, <2>2 DEF Acked
    <3>2. Acked(p) + n \in 0 .. Taken(q)
      BY <1>4, <1>5, <2>2
    <3>3. WindowInv(p)'
      BY <1>1, <1>2, <1>11, <3>1, <3>2 DEF DirectionInv, WindowInv
    <3>4. \A m : Place(p, m)' = Place(p, m) /\ (IsPacketOf(p, m) => IsPacketOf(p, m)')
      BY <1>10, <1>11 DEF Place, IsPacketOf
    <3>5. NetInv(p)' /\ QueueInv(p)'
      BY <1>1, <1>2, <1>3, <1>7, <1>11, <3>4 DEF DirectionInv, NetInv, QueueInv
    <3>6. QED
      BY <3>3, <3>5 DEF DirectionInv
  <2>3. QED
    BY <1>7, <2>1, <2>2
<1>15. QED
  BY <1>1, <1>8, <1>12, <1>13, <1>14 DEF FlowInv

(***************************************************************************)
(* The invariant holds.                                                    *)
(***************************************************************************)
LEMMA FlowStep ==
  ASSUME FlowInv, Orderly, [Next]_vars
  PROVE  FlowInv'
<1>1. CASE UNCHANGED vars
  <2>1. UNCHANGED <<flow, listed, created, pending, app, reader, conn, reads, net, status, written, lastRead,
                    open, faults>>
    BY <1>1 DEF vars, threads, history
  <2>2. FlowTypes'
    BY <2>1 DEF FlowInv, FlowTypes
  <2>3. \A r \in Node : UNCHANGED <<Same(r), FfnByApp(r), FfnSent(r), Sent(r), Taken(r), Ready(r)>>
    BY <2>1, SameCounters DEF Same
  <2>4. ASSUME NEW r \in Node PROVE EndInv(r)' /\ DirectionInv(r)'
    <3>1. Peer(r) \in Node /\ EndInv(r) /\ DirectionInv(r)
      BY PeerFacts DEF FlowInv
    <3>2. StartInv(r)' /\ AnswerInv(r)'
      BY <2>1, <2>3, <3>1, AnswerFrame DEF EndInv, StartInv
    <3>3. lastRead[Peer(r)] <= written'[Peer(r)]
      BY <2>1, <3>1 DEF EndInv, ReadInv
    <3>4. EndInv(r)'
      BY <2>1, <2>3, <3>1, <3>2, <3>3, EndFrame
    <3>5. DirectionInv(r)'
      BY <2>1, <2>3, <3>1, DirectionFrame
    <3>6. QED
      BY <3>4, <3>5
  <2>5. QED
    BY <2>2, <2>4 DEF FlowInv
<1>2. CASE Next
  <2>1. ASSUME NEW p \in Node, Application(p) PROVE FlowInv'
    BY <2>1, GetNextSeqNoStep, CloseCheckStep, SendPacketToStep, CloseInitiatedStep, ClosedStep,
       ForgetStep DEF Application
  <2>2. ASSUME NEW p \in Node, Receiving(p) PROVE FlowInv'
    BY <2>2, RecvPacketFromStep, RecvAckStep, NumberAnswerStep, SendClosePacketStep DEF Receiving
  <2>3. QED
    BY <1>2, <2>1, <2>2, AddNewFlowStep, AcceptFlowStep, SendDataStep, CloseFlowStep, StartReadStep,
       ReadDataStep, GetReceiverStatusStep DEF Next
<1>3. QED
  BY <1>1, <1>2

THEOREM FlowInvariant == ASSUME Orderly PROVE Spec => []FlowInv
<1>1. Init => FlowInv
  BY FlowInitInv
<1>2. FlowInv /\ [Next]_vars => FlowInv'
  BY FlowStep
<1>3. QED
  BY <1>1, <1>2, PTL DEF Spec

(***************************************************************************)
(* What the invariant says of the asserts.                                 *)
(***************************************************************************)
LEMMA InWindow ==
  ASSUME FlowInv, NEW p \in Node, NEW m, IsPacketOf(Peer(p), m), Taken(p) <= Place(Peer(p), m)
  PROVE  Dist(m.seq, Plus(flow[p].readUpto, 1)) < RecvWindow
<1> DEFINE i == Place(Peer(p), m)
<1>1. i \in Nat /\ i < Sent(Peer(p)) /\ m.seq = i % SeqCnt
  BY PeerFacts, PlaceFacts
<1>2. /\ Taken(p) \in Nat /\ Sent(Peer(p)) \in Nat /\ Sent(Peer(p)) <= Taken(p) + RecvWindow
      /\ flow[p].readUpto = NoBefore(Taken(p))
  BY PeerFacts, CounterFacts, SpaceFacts
<1>3. Plus(flow[p].readUpto, 1) = Taken(p) % SeqCnt
  BY <1>2, NoBeforeFacts
<1>4. Dist(m.seq, Plus(flow[p].readUpto, 1)) = (i - Taken(p)) % SeqCnt
  BY <1>1, <1>2, <1>3, DistOfResidues
<1>5. 0 <= i - Taken(p) /\ i - Taken(p) < RecvWindow /\ i - Taken(p) < SeqCnt
  BY <1>1, <1>2, SpaceFacts
<1>6. QED
  BY <1>1, <1>2, <1>4, <1>5, ResidueNear

LEMMA WindowStep ==
  ASSUME FlowInv, Orderly
  PROVE  WindowRespected
<1>1. ASSUME NEW p \in Node, NEW m \in net[Peer(p)]
      PROVE  \/ Dist(m.seq, Plus(flow[p].readUpto, 1)) < RecvWindow
             \/ Dist(m.seq, Plus(flow[p].readUpto, 1)) > SeqCnt \div 4 + SeqCnt \div 2
  <2>1. Peer(p) \in Node /\ Peer(Peer(p)) = p
    BY PeerFacts
  <2>2. IsPacketOf(Peer(p), m) /\ ("duplicate" \notin FaultKinds => Taken(p) <= Place(Peer(p), m))
    BY <2>1 DEF FlowInv, DirectionInv, NetInv
  <2>3. Place(Peer(p), m) \in Nat /\ Taken(p) \in Nat
    BY <2>1, <2>2, PlaceFacts, CounterFacts
  <2>4. CASE Taken(p) <= Place(Peer(p), m)
    BY <2>2, <2>4, InWindow
  <2>5. CASE Place(Peer(p), m) < Taken(p)
    <3>1. "duplicate" \in FaultKinds
      BY <2>2, <2>3, <2>5
    <3>2. QED
      BY <2>2, <2>5, <3>1, BehindWindow DEF Orderly
  <2>6. QED
    BY <2>3, <2>4, <2>5
<1>2. ASSUME NEW p \in Node, NEW s \in SeqNo, flow[p].rcvPktQueue[s] # Null
      PROVE  Dist(s, Plus(flow[p].readUpto, 1)) < RecvWindow
  <2> DEFINE m == flow[p].rcvPktQueue[s]
  <2>1. Peer(p) \in Node /\ Peer(Peer(p)) = p
    BY PeerFacts
  <2>2. IsPacketOf(Peer(p), m) /\ m.seq = s /\ Taken(p) <= Place(Peer(p), m)
    BY <1>2, <2>1 DEF FlowInv, DirectionInv, QueueInv
  <2> HIDE DEF m
  <2>3. QED
    BY <2>2, InWindow
<1>3. QED
  BY <1>1, <1>2 DEF WindowRespected

LEMMA ReaderStep ==
  ASSUME FlowInv
  PROVE  ReaderFindsPacket
<1>1. ASSUME NEW p \in Node, NEW k \in 1 .. Ready(p)
      PROVE  flow[p].rcvPktQueue[Plus(flow[p].readUpto, k)] # Null
  <2>1. ReadInv(p) /\ Taken(p) \in Nat /\ k \in Int
    BY CounterFacts DEF FlowInv, EndInv
  <2>2. Plus(flow[p].readUpto, k) = (Taken(p) + k - 1) % SeqCnt
    BY <2>1, NoBeforeFacts DEF ReadInv
  <2>3. QED
    BY <2>1, <2>2 DEF ReadInv
<1>2. QED
  BY <1>1 DEF ReaderFindsPacket, FlowInv, EndInv, ReadInv, Ready

(***************************************************************************)
(* Whatever is lost and overtaken, and however often the numbers wrap, a   *)
(* packet on its way or kept fits the receive window, or is recognised as  *)
(* a copy: the assert of recvPacketFrom holds.                             *)
(***************************************************************************)
THEOREM WindowIsRespected == ASSUME Orderly PROVE Spec => []WindowRespected
<1>1. FlowInv => WindowRespected
  BY WindowStep
<1>2. QED
  BY <1>1, FlowInvariant, PTL

(***************************************************************************)
(* A reader that readSem lets through finds a packet: the asserts of       *)
(* readPacket hold.                                                        *)
(***************************************************************************)
THEOREM ReaderIsServed == ASSUME Orderly PROVE Spec => []ReaderFindsPacket
<1>1. FlowInv => ReaderFindsPacket
  BY ReaderStep
<1>2. QED
  BY <1>1, FlowInvariant, PTL

(***************************************************************************)
(* Every step of a flow is one of Stream, or changes nothing it is about.  *)
(***************************************************************************)
LEMMA StreamStutters ==
  ASSUME FlowInv, UNCHANGED <<written, lastRead, open>>,
         \A p \in Node : reader'[p] = "ended" <=> reader[p] = "ended"
  PROVE  UNCHANGED Streams!vars
<1> DEFINE ended == [p \in Node |-> reader[Peer(p)] = "ended"]
<1>1. \A p \in Node : Peer(p) \in Node
  BY PeerFacts
<1>2. ended' = ended
  BY <1>1, Zenon
<1>3. QED
  BY <1>2 DEF Streams!vars

LEMMA SendIsWrite ==
  ASSUME FlowInv, NEW p \in Node, SendPacketTo(p)
  PROVE  [Streams!Next]_(Streams!vars)
<1>1. AppInv(p) /\ written \in [Node -> Nat]
  BY DEF FlowInv, EndInv, FlowTypes
<1>2. UNCHANGED <<reader, lastRead, open>>
  BY DEF SendPacketTo
<1>3. CASE app[p].ffn
  <2>1. written' = written
    BY <1>1, <1>3 DEF SendPacketTo
  <2>2. QED
    BY <1>2, <2>1, StreamStutters
<1>4. CASE ~app[p].ffn
  <2>1. open[p] /\ written' = [written EXCEPT ![p] = @ + 1]
    BY <1>1, <1>4 DEF SendPacketTo, AppInv
  <2>2. Streams!Write(p)
    BY <1>2, <2>1 DEF Streams!Write
  <2>3. QED
    BY <2>2 DEF Streams!Next
<1>5. QED
  BY <1>3, <1>4

LEMMA CloseIsClose ==
  ASSUME FlowInv, NEW p \in Node, CloseFlow(p)
  PROVE  [Streams!Next]_(Streams!vars)
<1>1. Streams!Close(p)
  BY DEF CloseFlow, Streams!Close
<1>2. QED
  BY <1>1 DEF Streams!Next

LEMMA ReadIsRead ==
  ASSUME FlowInv, NEW p \in Node, ReadData(p)
  PROVE  [Streams!Next]_(Streams!vars)
<1> DEFINE q == Peer(p)
           f == flow[p]
           m == f.rcvPktQueue[Plus(f.readUpto, 1)]
           byClose == f.closeInitiated /\ f.closed
           over == byClose \/ m.ffn
           ended == [r \in Node |-> reader[Peer(r)] = "ended"]
<1>1. q \in Node /\ q # p /\ Peer(q) = p /\ Node = {p, q}
  BY PeerFacts
<1>2. AppInv(p) /\ AppInv(q) /\ AnswerInv(q)
  BY <1>1 DEF FlowInv, EndInv
<1>3. /\ Taken(p) = lastRead[q] /\ IsPacketOf(q, m) /\ Place(q, m) = Taken(p)
  BY ReadFacts
<1>4. /\ lastRead \in [Node -> Nat] /\ written \in [Node -> Nat] /\ reader \in [Node -> ReaderType]
  BY DEF FlowInv, FlowTypes
<1>5. /\ reader[p] = "waiting" /\ UNCHANGED <<written, open>>
      /\ reader' = [reader EXCEPT ![p] = IF over THEN "ended" ELSE "reading"]
      /\ lastRead' = [lastRead EXCEPT ![q] = IF over THEN @ ELSE m.id]
  BY DEF ReadData
<1>6. ended \in [Node -> BOOLEAN] /\ ended[q] = (reader[p] = "ended") /\ ended[p] = (reader[q] = "ended")
  BY <1>1
<1>7. ended' = [r \in Node |-> reader'[Peer(r)] = "ended"]
  OBVIOUS
<1> HIDE DEF m, over
<1>8. CASE ~over
  <2>1. ~m.ffn /\ m.id \in 1 .. written[q] /\ m.id - 1 = lastRead[q]
    BY <1>3, <1>8 DEF over, IsPacketOf, Place
  <2>2. lastRead' = [lastRead EXCEPT ![q] = @ + 1] /\ lastRead[q] < written[q]
    <3>1. m.id = lastRead[q] + 1 /\ lastRead[q] < written[q]
      BY <1>1, <1>4, <2>1
    <3>2. lastRead' = [lastRead EXCEPT ![q] = m.id]
      BY <1>5, <1>8
    <3>3. QED
      BY <3>1, <3>2
  <2>3. ~ended[q] /\ \A r \in Node : reader'[r] = "ended" <=> reader[r] = "ended"
    BY <1>1, <1>4, <1>5, <1>6, <1>8
  <2>4. ended' = ended
    BY <1>1, <1>7, <2>3, PeerFacts, Zenon
  <2>5. Streams!Read(q)
    BY <1>5, <2>2, <2>3, <2>4 DEF Streams!Read
  <2>6. QED
    BY <1>1, <2>5 DEF Streams!Next
<1>9. CASE over
  <2>1. lastRead' = lastRead
    BY <1>1, <1>4, <1>5, <1>9
  <2>2. ended' = [ended EXCEPT ![q] = TRUE]
    <3>1. reader'[p] = "ended" /\ reader'[q] = reader[q]
      BY <1>1, <1>4, <1>5, <1>9
    <3>2. ASSUME NEW r \in Node
          PROVE  (reader'[Peer(r)] = "ended") = (IF r = q THEN TRUE ELSE reader[Peer(r)] = "ended")
      BY <1>1, <3>1
    <3>3. [ended EXCEPT ![q] = TRUE] = [r \in Node |-> IF r = q THEN TRUE ELSE reader[Peer(r)] = "ended"]
      BY <1>1, Zenon
    <3>4. QED
      BY <1>7, <3>2, <3>3, Zenon
  <2>3. (~open[q] /\ lastRead[q] = written[q]) \/ (\E r \in Node \ {q} : ~open[r])
    <3>1. CASE byClose
      <4>1. ~open[p]
        BY <1>2, <3>1 DEF AppInv, FfnByApp
      <4>2. QED
        BY <1>1, <4>1
    <3>2. CASE m.ffn
      <4>1. FfnSent(q) /\ written[q] = lastRead[q]
        BY <1>3, <3>2 DEF IsPacketOf, Place
      <4>2. CASE FfnByApp(q)
        BY <1>2, <4>1, <4>2 DEF AppInv, FfnByApp
      <4>3. CASE FfnByConn(q)
        <5>1. FfnByApp(p) /\ AppInv(p)
          BY <1>1, <1>2, <4>3 DEF FfnByConn, AnswerInv
        <5>2. ~open[p]
          BY <5>1 DEF AppInv, FfnByApp
        <5>3. QED
          BY <1>1, <5>2
      <4>4. QED
        BY <4>1, <4>2, <4>3 DEF FfnSent
    <3>3. QED
      BY <1>9, <3>1, <3>2 DEF over
  <2>4. Streams!End(q)
    BY <1>5, <2>1, <2>2, <2>3 DEF Streams!End
  <2>5. QED
    BY <1>1, <2>4 DEF Streams!Next
<1>10. QED
  BY <1>8, <1>9

LEMMA StreamStep ==
  ASSUME FlowInv, [Next]_vars
  PROVE  [Streams!Next]_(Streams!vars)
<1>1. reader \in [Node -> ReaderType]
  BY DEF FlowInv, FlowTypes
<1>2. CASE UNCHANGED vars
  <2>1. UNCHANGED <<written, lastRead, open, reader>>
    BY <1>2 DEF vars, threads, history
  <2>2. QED
    BY <2>1, StreamStutters
<1>3. ASSUME NEW p \in Node,
             AddNewFlow(p) \/ AcceptFlow(p) \/ SendData(p) \/ StartRead(p) \/ GetReceiverStatus(p)
      PROVE  [Streams!Next]_(Streams!vars)
  <2>1. StartInv(p)
    BY DEF FlowInv, EndInv
  <2>2. UNCHANGED <<written, lastRead, open>>
    BY <1>3 DEF AddNewFlow, AcceptFlow, SendData, StartRead, GetReceiverStatus, threads, history
  <2>3. \A r \in Node : reader'[r] = "ended" <=> reader[r] = "ended"
    BY <1>1, <1>3, <2>1 DEF AddNewFlow, AcceptFlow, SendData, StartRead, GetReceiverStatus, StartInv, threads
  <2>4. QED
    BY <2>2, <2>3, StreamStutters
<1>4. ASSUME NEW p \in Node, Application(p) PROVE [Streams!Next]_(Streams!vars)
  <2>1. CASE SendPacketTo(p)
    BY <2>1, SendIsWrite
  <2>2. CASE GetNextSeqNo(p) \/ CloseCheck(p) \/ CloseInitiated(p) \/ Closed(p) \/ Forget(p)
    <3>1. UNCHANGED <<written, lastRead, open, reader>>
      BY <2>2 DEF GetNextSeqNo, CloseCheck, CloseInitiated, Closed, Forget, history
    <3>2. QED
      BY <3>1, StreamStutters
  <2>3. QED
    BY <1>4, <2>1, <2>2 DEF Application
<1>5. ASSUME NEW p \in Node, Receiving(p) PROVE [Streams!Next]_(Streams!vars)
  <2>1. UNCHANGED <<written, lastRead, open, reader>>
    BY <1>5 DEF Receiving, RecvPacketFrom, RecvAck, NumberAnswer, SendClosePacket, threads, history
  <2>2. QED
    BY <2>1, StreamStutters
<1>6. QED
  BY <1>2, <1>3, <1>4, <1>5, CloseIsClose, ReadIsRead DEF Next

(***************************************************************************)
(* The flow implements Stream: each packet is read once, in order, and the *)
(* end of the stream is reported only when it may be.                      *)
(***************************************************************************)
THEOREM FlowImplementsStream == ASSUME Orderly PROVE Spec => ImplementsStream
<1>1. Init => Streams!Init
  <2>1. ASSUME Init PROVE Streams!Init
    <3>1. [p \in Node |-> reader[Peer(p)] = "ended"] = [p \in Node |-> FALSE]
      BY <2>1, PeerFacts DEF Init
    <3>2. QED
      BY <2>1, <3>1 DEF Init, Streams!Init
  <2>2. QED
    BY <2>1
<1>2. FlowInv /\ [Next]_vars => [Streams!Next]_(Streams!vars)
  BY StreamStep
<1>3. QED
  BY <1>1, <1>2, FlowInvariant, PTL DEF Spec, ImplementsStream, Streams!Spec

(***************************************************************************)
(* A flow is made once (NoGhostFlow), as long as the channels deliver each *)
(* packet once: when an end forgets a flow, everything that was sent to it *)
(* has arrived.                                                            *)
(***************************************************************************)
Begun(p) == (p = Opener /\ reader[p] # "new") \/ (p # Opener /\ created[p] # 0)

\* A flow that is closed has everything that the peer sent, and so has one
\* that began and is not listed any more. Nothing comes from an end that has
\* not begun, or from the opener's peer before the opener began.
OnceInv(p) ==
  /\ created[p] <= IF p = Opener THEN 0 ELSE 1
  /\ listed[p] => Begun(p)
  /\ ~Begun(p) => conn[p].pc = "idle" /\ net[p] = {} /\ (p = Opener => ~Begun(Peer(p)))
  /\ flow[p].closeSemaphore > 0 \/ app[p].pc = "forget" => flow[p].closed
  /\ flow[p].closed => FfnSent(Peer(p)) /\ Taken(p) + Ready(p) = Sent(Peer(p))
  /\ Begun(p) /\ ~listed[p] => FfnSent(Peer(p)) /\ net[Peer(p)] = {}

GhostInv == \A p \in Node : OnceInv(p)

Once == Orderly /\ "duplicate" \notin FaultKinds

(***************************************************************************)
(* availableUpTo tells the place behind the last available packet.         *)
(***************************************************************************)
LEMMA PlacesEqual ==
  ASSUME NEW i \in Nat, NEW j \in Nat, NoBefore(i) = NoBefore(j), -SeqCnt < i - j, i - j < SeqCnt
  PROVE  i = j
<1>1. i + SeqCnt - 1 \in Int /\ j + SeqCnt - 1 \in Int
  BY SpaceFacts
<1>2. (i + SeqCnt - 1) - (j + SeqCnt - 1) = i - j
  BY SpaceFacts
<1>3. (i + SeqCnt - 1) % SeqCnt = (j + SeqCnt - 1) % SeqCnt
  BY DEF NoBefore
<1>4. i + SeqCnt - 1 = j + SeqCnt - 1
  BY <1>1, <1>2, <1>3, ResidueEqual
<1>5. QED
  BY <1>4, SpaceFacts

PlacesKnown(p) ==
  /\ Taken(p) \in Nat /\ Ready(p) \in Nat /\ Taken(p) + Ready(p) <= Sent(Peer(p))
  /\ Acked(Peer(p)) <= Taken(p) /\ flow[p].availableUpTo = NoBefore(Taken(p) + Ready(p))

LEMMA PlacesNext == ASSUME NEW p \in Node PROVE FlowInv' => PlacesKnown(p)'
<1>1. FlowInv => PlacesKnown(p)
  BY PeerFacts, CounterFacts DEF PlacesKnown
<1>2. QED
  BY <1>1, PTL

\* When everything that was sent is available, nothing is under way.
LEMMA Drained ==
  ASSUME FlowInv, Once, NEW p \in Node, Taken(p) + Ready(p) = Sent(Peer(p))
  PROVE  net[Peer(p)] = {}
<1> DEFINE q == Peer(p)
<1>1. q \in Node /\ Peer(q) = p
  BY PeerFacts
<1>2. NetInv(q) /\ ReadInv(p)
  BY <1>1 DEF FlowInv, EndInv, DirectionInv
<1>3. Taken(p) \in Nat /\ Ready(p) \in Nat
  BY CounterFacts
<1>4. ASSUME NEW m \in net[q] PROVE FALSE
  <2>1. IsPacketOf(q, m) /\ Taken(p) <= Place(q, m) /\ flow[p].rcvPktQueue[m.seq] = Null
    BY <1>1, <1>2 DEF NetInv, Once
  <2>2. Place(q, m) \in Nat /\ Place(q, m) < Sent(q) /\ m.seq = Place(q, m) % SeqCnt
    BY <1>1, <2>1, PlaceFacts
  <2> DEFINE k == Place(q, m) - Taken(p) + 1
  <2>3. k \in 1 .. Ready(p) /\ Taken(p) + k - 1 = Place(q, m)
    BY <1>3, <2>1, <2>2
  <2> HIDE DEF k
  <2>4. flow[p].rcvPktQueue[(Taken(p) + k - 1) % SeqCnt] # Null
    BY <1>2, <2>3 DEF ReadInv
  <2>5. QED
    BY <2>1, <2>2, <2>3, <2>4
<1>5. QED
  BY <1>4

\* A thread that is about to send has not closed, so its peer knows of no end.
LEMMA SenderIsOpen ==
  ASSUME FlowInv, Once, GhostInv, NEW p \in Node, app[p].pc = "window" \/ conn[p].pc = "window"
  PROVE  /\ ~FfnSent(p) /\ Begun(p) /\ ~flow[Peer(p)].closed
         /\ Begun(Peer(p)) => listed[Peer(p)]
<1> DEFINE q == Peer(p)
<1>1. q \in Node /\ Peer(q) = p
  BY PeerFacts
<1>2. StartInv(p) /\ AnswerInv(p) /\ OnceInv(p) /\ OnceInv(q)
  BY <1>1 DEF FlowInv, EndInv, GhostInv
<1>3. Begun(p)
  BY <1>2 DEF Begun, StartInv, OnceInv
<1>4. CASE app[p].pc = "window"
  <2>1. ~FfnByApp(p)
    BY <1>4 DEF FfnByApp
  <2>2. ~FfnByConn(p)
    BY <1>2, <1>4, PeerIsQuiet DEF FfnByConn, AnswerInv, Once
  <2>3. QED
    BY <1>1, <1>2, <1>3, <2>1, <2>2 DEF FfnSent, OnceInv
<1>5. CASE conn[p].pc = "window"
  <2>1. ~FfnByConn(p) /\ q \in Closers
    BY <1>2, <1>5 DEF FfnByConn, AnswerInv
  <2>2. ~FfnByApp(p)
    BY <2>1, PeerIsQuiet DEF Once
  <2>3. QED
    BY <1>1, <1>2, <1>3, <2>1, <2>2 DEF FfnSent, OnceInv
<1>6. QED
  BY <1>4, <1>5

(***************************************************************************)
(* An end, for which nothing changes that matters here.                    *)
(***************************************************************************)
LEMMA OnceFrame ==
  ASSUME NEW p \in Node, OnceInv(p), UNCHANGED <<created[p], listed[p], net[p], net[Peer(p)]>>,
         UNCHANGED Begun(p), p = Opener => UNCHANGED Begun(Peer(p)),
         ~Begun(p) => conn'[p].pc = "idle",
         UNCHANGED flow[p].closed,
         flow'[p].closeSemaphore > 0 \/ app'[p].pc = "forget" => flow[p].closed,
         UNCHANGED <<FfnSent(Peer(p)), Sent(Peer(p)), Taken(p), Ready(p)>>
  PROVE  OnceInv(p)'
BY DEF OnceInv

\* A step of an application or connection thread that sends nothing and
\* closes nothing.
LEMMA QuietOnce ==
  ASSUME FlowInv, GhostInv, NEW p \in Node,
         UNCHANGED <<listed, created, net, written, lastRead>>, UNCHANGED FfnByApp(p),
         flow' = [flow EXCEPT ![p] = flow'[p]], app' = [app EXCEPT ![p] = app'[p]],
         reader' = [reader EXCEPT ![p] = reader'[p]], conn' = [conn EXCEPT ![p] = conn'[p]],
         UNCHANGED <<flow[p].closed, flow[p].readUpto, flow[p].availableUpTo>>,
         UNCHANGED <<reader[p] = "ended", Begun(p)>>, ~Begun(p) => conn'[p].pc = "idle",
         flow'[p].closeSemaphore > 0 \/ app'[p].pc = "forget" => flow[p].closed
  PROVE  GhostInv'
<1> DEFINE q == Peer(p)
<1>1. q \in Node /\ Peer(q) = p /\ q # p /\ Node = {p, q}
  BY PeerFacts
<1>2. UNCHANGED <<flow[q], app[q], reader[q], conn[q]>>
  BY <1>1 DEF FlowInv, FlowTypes
<1>3. OnceInv(p) /\ OnceInv(q)
  BY <1>1 DEF GhostInv
<1>4. UNCHANGED <<FfnSent(p), Sent(p)>>
  BY DEF FfnSent, FfnByConn, Sent
<1>5. UNCHANGED <<FfnSent(q), Sent(q)>>
  BY <1>2 DEF FfnSent, FfnByApp, FfnByConn, Sent
<1>6. UNCHANGED <<Taken(p), Ready(p), Taken(q), Ready(q)>>
  BY <1>2 DEF Taken, TookFfn, Ready
<1>7. UNCHANGED Begun(q)
  BY <1>2 DEF Begun
<1>8. OnceInv(p)'
  BY <1>1, <1>3, <1>5, <1>6, <1>7, OnceFrame
<1>9. OnceInv(q)'
  <2>1. ~Begun(q) => conn'[q].pc = "idle"
    BY <1>2, <1>3 DEF OnceInv
  <2>2. flow'[q].closeSemaphore > 0 \/ app'[q].pc = "forget" => flow[q].closed
    BY <1>2, <1>3 DEF OnceInv
  <2>3. QED
    BY <1>1, <1>2, <1>3, <1>4, <1>6, <1>7, <2>1, <2>2, OnceFrame
<1>10. QED
  BY <1>1, <1>8, <1>9 DEF GhostInv

LEMMA QuietApplication ==
  ASSUME FlowInv, GhostInv, NEW p \in Node,
         SendData(p) \/ CloseFlow(p) \/ GetNextSeqNo(p) \/ CloseCheck(p) \/ CloseInitiated(p) \/ Closed(p)
  PROVE  GhostInv'
<1>1. AppInv(p) /\ StartInv(p) /\ OnceInv(p) /\ app[p] \in AppType /\ flow[p] \in FlowType
  BY DEF FlowInv, EndInv, FlowTypes, GhostInv
<1>2. flow \in [Node -> FlowType] /\ app \in [Node -> AppType]
  BY DEF FlowInv, FlowTypes
<1>3. UNCHANGED <<listed, created, net, written, lastRead, reader, conn>>
  BY DEF SendData, CloseFlow, GetNextSeqNo, CloseCheck, CloseInitiated, Closed, history
<1>4. /\ flow' = [flow EXCEPT ![p] = flow'[p]] /\ app' = [app EXCEPT ![p] = app'[p]]
      /\ reader' = [reader EXCEPT ![p] = reader'[p]] /\ conn' = [conn EXCEPT ![p] = conn'[p]]
  <2>1. reader \in [Node -> ReaderType] /\ conn \in [Node -> ConnType]
    BY DEF FlowInv, FlowTypes
  <2>2. flow' = [flow EXCEPT ![p] = flow'[p]]
    BY <1>2 DEF SendData, CloseFlow, GetNextSeqNo, CloseCheck, CloseInitiated, Closed
  <2>3. app' = [app EXCEPT ![p] = app'[p]]
    BY <1>2 DEF SendData, CloseFlow, GetNextSeqNo, CloseCheck, CloseInitiated, Closed
  <2>4. QED
    BY <1>3, <2>1, <2>2, <2>3
<1>5. UNCHANGED <<flow[p].closed, flow[p].readUpto, flow[p].availableUpTo>>
  BY <1>1, <1>2 DEF FlowType, SendData, CloseFlow, GetNextSeqNo, CloseCheck, CloseInitiated, Closed
<1>6. UNCHANGED FfnByApp(p)
  BY <1>1, <1>2 DEF FfnByApp, AppType, AppInv, SendData, CloseFlow, GetNextSeqNo, CloseCheck,
                    CloseInitiated, Closed
<1>7. UNCHANGED <<reader[p] = "ended", Begun(p)>>
  BY <1>3 DEF Begun
<1>8. ~Begun(p) => conn'[p].pc = "idle"
  BY <1>1, <1>3 DEF OnceInv
<1>9. flow'[p].closeSemaphore > 0 \/ app'[p].pc = "forget" => flow[p].closed
  <2>1. flow'[p].closeSemaphore > 0 => flow[p].closeSemaphore > 0
    <3>1. CASE Closed(p)
      BY <3>1 DEF Closed
    <3>2. CASE ~Closed(p)
      <4>1. UNCHANGED flow[p].closeSemaphore
        BY <1>1, <1>2, <3>2 DEF FlowType, SendData, CloseFlow, GetNextSeqNo, CloseCheck, CloseInitiated
      <4>2. QED
        BY <4>1
    <3>3. QED
      BY <3>1, <3>2
  <2>2. app'[p].pc = "forget" => flow[p].closed
    BY <1>1, <1>2 DEF OnceInv, AppType, SendData, CloseFlow, GetNextSeqNo, CloseCheck, CloseInitiated, Closed
  <2>3. QED
    BY <1>1, <2>1, <2>2 DEF OnceInv
<1>10. QED
  BY <1>3, <1>4, <1>5, <1>6, <1>7, <1>8, <1>9, QuietOnce

LEMMA QuietReceiver ==
  ASSUME FlowInv, GhostInv, NEW p \in Node,
         \/ AcceptFlow(p) \/ NumberAnswer(p) \/ StartRead(p) \/ GetReceiverStatus(p)
         \/ \E v \in status[Peer(p)] : RecvAck(p, v)
  PROVE  GhostInv'
<1>1. AppInv(p) /\ StartInv(p) /\ OnceInv(p) /\ app[p] \in AppType /\ flow[p] \in FlowType
  BY DEF FlowInv, EndInv, FlowTypes, GhostInv
<1>2. /\ flow \in [Node -> FlowType] /\ app \in [Node -> AppType]
      /\ reader \in [Node -> ReaderType] /\ conn \in [Node -> ConnType]
  BY DEF FlowInv, FlowTypes
<1>3. UNCHANGED <<listed, created, net, written, lastRead>>
  BY DEF AcceptFlow, NumberAnswer, StartRead, GetReceiverStatus, RecvAck, history
<1>4. /\ flow' = [flow EXCEPT ![p] = flow'[p]] /\ app' = [app EXCEPT ![p] = app'[p]]
      /\ reader' = [reader EXCEPT ![p] = reader'[p]] /\ conn' = [conn EXCEPT ![p] = conn'[p]]
  <2>1. flow' = [flow EXCEPT ![p] = flow'[p]]
    BY <1>2 DEF AcceptFlow, NumberAnswer, StartRead, GetReceiverStatus, RecvAck
  <2>2. app' = [app EXCEPT ![p] = app'[p]]
    BY <1>2 DEF AcceptFlow, NumberAnswer, StartRead, GetReceiverStatus, RecvAck, threads
  <2>3. reader' = [reader EXCEPT ![p] = reader'[p]] /\ conn' = [conn EXCEPT ![p] = conn'[p]]
    BY <1>2 DEF AcceptFlow, NumberAnswer, StartRead, GetReceiverStatus, RecvAck, threads
  <2>4. QED
    BY <2>1, <2>2, <2>3
<1>5. UNCHANGED <<flow[p].closed, flow[p].readUpto, flow[p].availableUpTo, flow[p].closeSemaphore>>
  <2>1. CASE NumberAnswer(p)
    BY <1>1, <1>2, <2>1 DEF FlowType, NumberAnswer
  <2>2. ASSUME NEW v \in status[Peer(p)], RecvAck(p, v)
        PROVE  UNCHANGED <<flow[p].closed, flow[p].readUpto, flow[p].availableUpTo, flow[p].closeSemaphore>>
    <3> DEFINE n == Dist(v, flow[p].ackedUpto)
               g == [flow[p] EXCEPT !.ackedUpto = v, !.remoteFreeWindow = @ + n]
    <3>1. flow'[p] = flow[p] \/ flow'[p] = g
      BY <1>2, <2>2 DEF RecvAck, Acknowledge
    <3>2. /\ g.closed = flow[p].closed /\ g.readUpto = flow[p].readUpto
          /\ g.availableUpTo = flow[p].availableUpTo /\ g.closeSemaphore = flow[p].closeSemaphore
      BY <1>1 DEF FlowType
    <3> HIDE DEF g
    <3>3. QED
      BY <3>1, <3>2
  <2>3. CASE AcceptFlow(p) \/ StartRead(p) \/ GetReceiverStatus(p)
    BY <2>3 DEF AcceptFlow, StartRead, GetReceiverStatus
  <2>4. QED
    BY <2>1, <2>2, <2>3
<1>6. UNCHANGED FfnByApp(p) /\ (app'[p].pc = "forget" => app[p].pc = "forget")
  BY <1>1, <1>2 DEF FfnByApp, AppType, StartInv, AcceptFlow, NumberAnswer, StartRead, GetReceiverStatus,
                    RecvAck, threads
<1>7. UNCHANGED (reader[p] = "ended") /\ UNCHANGED Begun(p)
  <2>1. UNCHANGED (reader[p] = "ended")
    BY <1>1, <1>2 DEF StartInv, AcceptFlow, NumberAnswer, StartRead, GetReceiverStatus, RecvAck, threads
  <2>2. CASE p = Opener
    <3>1. UNCHANGED (reader[p] = "new")
      BY <1>1, <1>2, <2>2 DEF StartInv, AcceptFlow, NumberAnswer, StartRead, GetReceiverStatus, RecvAck, threads
    <3>2. QED
      BY <2>1, <2>2, <3>1 DEF Begun
  <2>3. CASE p # Opener
    BY <1>3, <2>1, <2>3 DEF Begun
  <2>4. QED
    BY <2>1, <2>2, <2>3
<1>8. ~Begun(p) => conn'[p].pc = "idle"
  BY <1>1, <1>2 DEF OnceInv, AcceptFlow, NumberAnswer, StartRead, GetReceiverStatus, RecvAck, threads
<1>9. flow'[p].closeSemaphore > 0 \/ app'[p].pc = "forget" => flow[p].closed
  BY <1>1, <1>5, <1>6 DEF OnceInv
<1>10. QED
  BY <1>3, <1>4, <1>5, <1>6, <1>7, <1>8, <1>9, QuietOnce

(***************************************************************************)
(* The steps that begin a flow, forget it or send on it.                   *)
(***************************************************************************)
LEMMA AddNewFlowOnce ==
  ASSUME FlowInv, GhostInv, NEW p \in Node, AddNewFlow(p)
  PROVE  GhostInv'
<1> DEFINE q == Peer(p)
<1> USE DEF AddNewFlow
<1>1. q \in Node /\ Peer(q) = p /\ q # p /\ Node = {p, q}
  BY PeerFacts
<1>2. /\ AppInv(p) /\ StartInv(p) /\ OnceInv(p) /\ OnceInv(q) /\ app \in [Node -> AppType]
      /\ reader \in [Node -> ReaderType] /\ listed \in [Node -> BOOLEAN]
  BY <1>1 DEF FlowInv, EndInv, FlowTypes, GhostInv
<1>3. /\ UNCHANGED <<flow, created, conn, net, written, lastRead, app[q], reader[q], listed[q]>>
      /\ app'[p].pc = "idle" /\ reader[p] = "new" /\ reader'[p] = "reading" /\ listed'[p]
  BY <1>1, <1>2 DEF history, StartInv, AppType
<1>4. \A r \in Node : UNCHANGED <<FfnSent(r), Sent(r), Taken(r), Ready(r)>>
  <2>1. UNCHANGED <<FfnByApp(p), FfnByApp(q)>>
    BY <1>3 DEF FfnByApp
  <2>2. UNCHANGED <<TookFfn(p), TookFfn(q)>>
    BY <1>3 DEF TookFfn
  <2>3. QED
    BY <1>1, <1>3, <2>1, <2>2 DEF FfnSent, FfnByConn, Sent, Taken, Ready
<1>5. OnceInv(p)'
  BY <1>1, <1>2, <1>3, <1>4 DEF OnceInv, Begun
<1>6. OnceInv(q)'
  <2>1. q # Opener /\ UNCHANGED Begun(q)
    BY <1>1, <1>3 DEF Begun
  <2>2. (~Begun(q) => conn'[q].pc = "idle")
        /\ (flow'[q].closeSemaphore > 0 \/ app'[q].pc = "forget" => flow[q].closed)
    BY <1>2, <1>3 DEF OnceInv
  <2>3. QED
    BY <1>1, <1>2, <1>3, <1>4, <2>1, <2>2, OnceFrame
<1>7. QED
  BY <1>1, <1>5, <1>6 DEF GhostInv

LEMMA ForgetOnce ==
  ASSUME FlowInv, Once, GhostInv, NEW p \in Node, Forget(p)
  PROVE  GhostInv'
<1> DEFINE q == Peer(p)
<1> USE DEF Forget
<1>1. q \in Node /\ Peer(q) = p /\ q # p /\ Node = {p, q}
  BY PeerFacts
<1>2. /\ OnceInv(p) /\ OnceInv(q) /\ app \in [Node -> AppType] /\ listed \in [Node -> BOOLEAN]
  BY <1>1 DEF FlowInv, FlowTypes, GhostInv
<1>3. /\ UNCHANGED <<flow, created, reader, conn, net, written, lastRead, app[q], listed[q]>>
      /\ app[p].pc = "forget" /\ app'[p].pc = "done" /\ app'[p].ffn = app[p].ffn /\ ~listed'[p]
  BY <1>1, <1>2 DEF history, AppType
<1>4. \A r \in Node : UNCHANGED <<FfnSent(r), Sent(r), Taken(r), Ready(r), Begun(r)>>
  <2>1. UNCHANGED <<FfnByApp(p), FfnByApp(q)>>
    BY <1>3 DEF FfnByApp
  <2>2. QED
    BY <1>1, <1>3, <2>1 DEF FfnSent, FfnByConn, Sent, Taken, TookFfn, Ready, Begun
<1>5. FfnSent(q) /\ net[q] = {}
  BY <1>2, <1>3, Drained DEF OnceInv
<1>6. OnceInv(p)'
  BY <1>1, <1>2, <1>3, <1>4, <1>5 DEF OnceInv
<1>7. OnceInv(q)'
  <2>1. (~Begun(q) => conn'[q].pc = "idle")
        /\ (flow'[q].closeSemaphore > 0 \/ app'[q].pc = "forget" => flow[q].closed)
    BY <1>2, <1>3 DEF OnceInv
  <2>2. QED
    BY <1>1, <1>2, <1>3, <1>4, <2>1, OnceFrame
<1>8. QED
  BY <1>1, <1>6, <1>7 DEF GhostInv

LEMMA SendPacketToOnce ==
  ASSUME FlowInv, Once, GhostInv, NEW p \in Node, SendPacketTo(p)
  PROVE  GhostInv'
<1> DEFINE q == Peer(p)
<1> USE DEF SendPacketTo
<1>1. q \in Node /\ Peer(q) = p /\ q # p /\ Node = {p, q}
  BY PeerFacts
<1>2. /\ OnceInv(p) /\ OnceInv(q) /\ app \in [Node -> AppType] /\ flow \in [Node -> FlowType]
      /\ net \in [Node -> SUBSET Packet] /\ written \in [Node -> Nat]
  BY <1>1 DEF FlowInv, FlowTypes, GhostInv
<1>3. /\ UNCHANGED <<listed, created, reader, conn, lastRead, net[q], written[q], app[q], flow[q]>>
      /\ UNCHANGED <<flow[p].closed, flow[p].closeSemaphore, flow[p].readUpto, flow[p].availableUpTo>>
      /\ app[p].pc = "window" /\ app'[p].pc # "forget"
  BY <1>1, <1>2 DEF AppType, FlowType
<1>4. ~FfnSent(p) /\ Begun(p) /\ ~flow[q].closed /\ (Begun(q) => listed[q])
  BY <1>3, SenderIsOpen
<1>5. \A r \in Node : UNCHANGED <<Taken(r), Ready(r), Begun(r)>>
  BY <1>1, <1>3 DEF Taken, TookFfn, Ready, Begun
<1>6. UNCHANGED <<FfnSent(q), Sent(q)>>
  BY <1>3 DEF FfnSent, FfnByApp, FfnByConn, Sent
<1>7. OnceInv(p)'
  BY <1>1, <1>2, <1>3, <1>4, <1>5, <1>6 DEF OnceInv
<1>8. OnceInv(q)'
  BY <1>1, <1>2, <1>3, <1>4, <1>5 DEF OnceInv
<1>9. QED
  BY <1>1, <1>7, <1>8 DEF GhostInv

LEMMA SendClosePacketOnce ==
  ASSUME FlowInv, Once, GhostInv, NEW p \in Node, SendClosePacket(p)
  PROVE  GhostInv'
<1> DEFINE q == Peer(p)
<1> USE DEF SendClosePacket
<1>1. q \in Node /\ Peer(q) = p /\ q # p /\ Node = {p, q}
  BY PeerFacts
<1>2. /\ OnceInv(p) /\ OnceInv(q) /\ AnswerInv(p) /\ flow \in [Node -> FlowType]
      /\ conn \in [Node -> ConnType] /\ net \in [Node -> SUBSET Packet]
  BY <1>1 DEF FlowInv, EndInv, FlowTypes, GhostInv
<1>3. /\ UNCHANGED <<listed, created, app, reader, lastRead, written, net[q], conn[q], flow[q]>>
      /\ UNCHANGED <<flow[p].closeSemaphore, flow[p].readUpto, flow[p].availableUpTo>>
      /\ conn[p].pc = "window" /\ conn'[p].pc = "idle" /\ flow'[p].closed
  BY <1>1, <1>2 DEF FlowType, history
<1>4. ~FfnSent(p) /\ Begun(p) /\ ~flow[q].closed /\ (Begun(q) => listed[q])
  BY <1>3, SenderIsOpen
<1>5. \A r \in Node : UNCHANGED <<Taken(r), Ready(r), Begun(r)>>
  BY <1>1, <1>3 DEF Taken, TookFfn, Ready, Begun
<1>6. UNCHANGED <<FfnSent(q), Sent(q)>>
  BY <1>3 DEF FfnSent, FfnByApp, FfnByConn, Sent
<1>7. FfnSent(q) /\ Taken(p) + Ready(p) = Sent(q)
  BY <1>2, <1>3 DEF AnswerInv, FfnSent
<1>8. OnceInv(p)'
  BY <1>1, <1>2, <1>3, <1>4, <1>5, <1>6, <1>7 DEF OnceInv
<1>9. OnceInv(q)'
  BY <1>1, <1>2, <1>3, <1>4, <1>5 DEF OnceInv
<1>10. QED
  BY <1>1, <1>8, <1>9 DEF GhostInv

(***************************************************************************)
(* Reading. A flow is forgotten at the end of the stream, FLAG_FFN, or     *)
(* after a close.                                                          *)
(***************************************************************************)
LEMMA ReadOverDrained ==
  ASSUME FlowInv, Once, GhostInv, NEW p \in Node, ReadData(p),
         (flow[p].closeInitiated /\ flow[p].closed) \/ flow[p].rcvPktQueue[Plus(flow[p].readUpto, 1)].ffn
  PROVE  FfnSent(Peer(p)) /\ net[Peer(p)] = {}
<1> DEFINE q == Peer(p)
           m == flow[p].rcvPktQueue[Plus(flow[p].readUpto, 1)]
<1>1. q \in Node /\ OnceInv(p) /\ Peer(q) = p
  BY PeerFacts DEF GhostInv
<1>2. CASE flow[p].closed
  BY <1>1, <1>2, Drained DEF OnceInv
<1>3. CASE m.ffn
  <2>1. Ready(p) > 0 /\ IsPacketOf(q, m) /\ Place(q, m) = Taken(p)
    BY ReadFacts
  <2>2. FfnSent(q) /\ Taken(p) = written[q]
    BY <1>3, <2>1 DEF IsPacketOf, Place
  <2>3. Sent(q) = Taken(p) + 1
    BY <2>2 DEF Sent
  <2>4. Taken(p) \in Nat /\ Ready(p) \in Nat /\ Taken(p) + Ready(p) <= Sent(q)
    BY <1>1, CounterFacts
  <2>5. Taken(p) + Ready(p) = Sent(q)
    BY <2>1, <2>3, <2>4
  <2>6. QED
    BY <2>2, <2>5, Drained
<1>4. QED
  BY <1>2, <1>3

LEMMA ReadDataOnce ==
  ASSUME FlowInv, FlowInv', Once, GhostInv, NEW p \in Node, ReadData(p)
  PROVE  GhostInv'
<1> DEFINE q == Peer(p)
           over == \/ flow[p].closeInitiated /\ flow[p].closed
                   \/ flow[p].rcvPktQueue[Plus(flow[p].readUpto, 1)].ffn
<1>1. q \in Node /\ Peer(q) = p /\ q # p /\ Node = {p, q}
  BY PeerFacts
<1>2. /\ OnceInv(p) /\ OnceInv(q) /\ flow \in [Node -> FlowType] /\ reader \in [Node -> ReaderType]
      /\ listed \in [Node -> BOOLEAN] /\ lastRead \in [Node -> Nat]
  BY <1>1 DEF FlowInv, FlowTypes, GhostInv
<1>3. /\ UNCHANGED <<created, app, conn, net, written, lastRead[p], reader[q], listed[q], flow[q]>>
      /\ UNCHANGED <<flow[p].closed, flow[p].closeSemaphore, flow[p].availableUpTo>>
      /\ UNCHANGED <<flow[p].remoteFreeWindow, flow[q].remoteFreeWindow>>
  BY <1>1, <1>2 DEF ReadData, FlowType
<1>4. reader[p] = "waiting" /\ reader'[p] \in {"reading", "ended"} /\ listed'[p] = (listed[p] /\ ~over)
  BY <1>2 DEF ReadData
<1>5. over => FfnSent(q) /\ net[q] = {}
  BY ReadOverDrained
<1> HIDE DEF over
<1>6. \A r \in Node : UNCHANGED <<FfnSent(r), Sent(r)>>
  BY <1>1, <1>3 DEF FfnSent, FfnByApp, FfnByConn, Sent
<1>7. UNCHANGED <<Taken(q), Ready(q)>>
  BY <1>1, <1>3 DEF Taken, TookFfn, Ready
<1>8. (Taken(p) + Ready(p))' = Taken(p) + Ready(p)
  <2> DEFINE i == Taken(p) + Ready(p)
             j == Taken(p)' + Ready(p)'
  <2>1. /\ Taken(p) \in Nat /\ Ready(p) \in Nat /\ i <= Sent(q) /\ Acked(q) <= Taken(p)
        /\ Acked(q) \in Nat /\ Sent(q) \in Nat /\ Sent(q) <= Acked(q) + RecvWindow
        /\ flow[p].availableUpTo = NoBefore(i)
    BY <1>1, CounterFacts
  <2>2. /\ Taken(p)' \in Nat /\ Ready(p)' \in Nat /\ j <= Sent(q)' /\ Acked(q)' <= Taken(p)'
        /\ flow'[p].availableUpTo = NoBefore(j)
    BY PlacesNext DEF PlacesKnown
  <2>3. Sent(q)' = Sent(q) /\ Acked(q)' = Acked(q)
    BY <1>1, <1>3, <1>6 DEF Acked
  <2>4. i \in Nat /\ j \in Nat /\ -SeqCnt < j - i /\ j - i < SeqCnt
    BY <2>1, <2>2, <2>3, SpaceFacts
  <2>5. NoBefore(j) = NoBefore(i)
    BY <1>3, <2>1, <2>2
  <2> HIDE DEF i, j
  <2>6. j = i
    BY <2>4, <2>5, PlacesEqual
  <2>7. QED
    BY <2>6 DEF i, j
<1>9. \A r \in Node : UNCHANGED Begun(r)
  BY <1>1, <1>3, <1>4 DEF Begun
<1>10. OnceInv(p)'
  BY <1>1, <1>2, <1>3, <1>4, <1>5, <1>6, <1>8, <1>9 DEF OnceInv
<1>11. OnceInv(q)'
  BY <1>1, <1>2, <1>3, <1>6, <1>7, <1>9 DEF OnceInv
<1>12. QED
  BY <1>1, <1>10, <1>11 DEF GhostInv

(***************************************************************************)
(* A packet arrives: at an end that knows the flow, or that has never      *)
(* heard of it.                                                            *)
(***************************************************************************)
LEMMA ArrivesAtFlow ==
  ASSUME FlowInv, Once, GhostInv, NEW p \in Node, net[Peer(p)] # {}
  PROVE  /\ listed[p] \/ (p # Opener /\ created[p] = 0)
         /\ Begun(Peer(p)) /\ ~flow[p].closed
<1> DEFINE q == Peer(p)
<1>1. q \in Node /\ Peer(q) = p
  BY PeerFacts
<1>2. OnceInv(p) /\ OnceInv(q)
  BY <1>1 DEF GhostInv
<1>3. Begun(q)
  BY <1>1, <1>2 DEF OnceInv
<1>4. Begun(p) => listed[p]
  BY <1>2 DEF OnceInv
<1>5. p = Opener => Begun(p)
  BY <1>2, <1>3 DEF OnceInv
<1>6. ~flow[p].closed
  BY <1>2, Drained DEF OnceInv
<1>7. QED
  BY <1>3, <1>4, <1>5, <1>6 DEF Begun

LEMMA AcceptCloses ==
  ASSUME NEW f \in FlowType, NEW m
  PROVE  /\ Accept(f, m).closed <=> f.closed \/ (ReachedFfn(f, m) /\ f.closeInitiated)
         /\ ~f.closed /\ Accept(f, m).closeSemaphore > 0 => f.closeSemaphore > 0 \/ Accept(f, m).closed
         /\ Accept(f, m).readUpto = f.readUpto
<1> DEFINE s == Store(f, m)
<1>1. /\ DOMAIN s = DOMAIN f /\ s.closed = f.closed /\ s.closeSemaphore = f.closeSemaphore
      /\ s.readUpto = f.readUpto
  BY DEF Store, FlowType
<1>2. CASE ~ReachedFfn(f, m)
  BY <1>1, <1>2 DEF Accept
<1>3. CASE ReachedFfn(f, m) /\ f.closeInitiated
  <2>1. Accept(f, m) = [s EXCEPT !.closed = TRUE, !.closeSemaphore = @ + 1]
    BY <1>3 DEF Accept
  <2> HIDE DEF s
  <2>2. Accept(f, m).closed /\ Accept(f, m).readUpto = f.readUpto
    BY <1>1, <2>1 DEF FlowType
  <2>3. QED
    BY <1>3, <2>2
<1>4. CASE ReachedFfn(f, m) /\ ~f.closeInitiated
  <2>1. Accept(f, m) = [s EXCEPT !.readSem = @ - 1]
    BY <1>4 DEF Accept
  <2> HIDE DEF s
  <2>2. /\ Accept(f, m).closed = s.closed /\ Accept(f, m).closeSemaphore = s.closeSemaphore
        /\ Accept(f, m).readUpto = f.readUpto
    BY <1>1, <2>1 DEF FlowType
  <2>3. QED
    BY <1>1, <1>4, <2>2
<1>5. QED
  BY <1>2, <1>3, <1>4

LEMMA RecvPacketFromOnce ==
  ASSUME FlowInv, Once, GhostInv, NEW p \in Node, NEW m \in net[Peer(p)], RecvPacketFrom(p, m)
  PROVE  GhostInv'
<1> DEFINE q == Peer(p)
           f == flow[p]
           g == Accept(f, m)
<1>1. q \in Node /\ Peer(q) = p /\ q # p /\ Node = {p, q}
  BY PeerFacts
<1>2. /\ OnceInv(p) /\ OnceInv(q) /\ AppInv(p) /\ flow \in [Node -> FlowType] /\ conn \in [Node -> ConnType]
      /\ listed \in [Node -> BOOLEAN] /\ created \in [Node -> Nat] /\ net \in [Node -> SUBSET Packet]
  BY <1>1 DEF FlowInv, EndInv, FlowTypes, GhostInv
<1>3. /\ listed[p] \/ (p # Opener /\ created[p] = 0)
      /\ Begun(q) /\ ~f.closed
  BY ArrivesAtFlow
<1>4. /\ UNCHANGED <<app, reader, written, lastRead, net[p], flow[q], conn[q], listed[q], created[q]>>
      /\ net'[q] \subseteq net[q]
      /\ listed'[p] /\ created'[p] = IF listed[p] THEN created[p] ELSE 1
  <2>1. /\ UNCHANGED <<app, reader, written, lastRead, net[p], listed[q], created[q]>>
        /\ net'[q] \subseteq net[q]
    BY <1>1, <1>2 DEF RecvPacketFrom, history
  <2>2. UNCHANGED <<flow[q], conn[q]>>
    BY <1>1, <1>2 DEF RecvPacketFrom
  <2>3. listed'[p] /\ created'[p] = IF listed[p] THEN created[p] ELSE 1
    <3>1. created'[p] = IF listed[p] THEN created[p] ELSE 1
      BY <1>2, <1>3 DEF RecvPacketFrom
    <3>2. listed'[p] = (listed[p] \/ (~listed[p] /\ p # Opener /\ created[p] = 0))
      BY <1>2 DEF RecvPacketFrom
    <3>3. QED
      BY <1>3, <3>1, <3>2
  <2>4. QED
    BY <2>1, <2>2, <2>3
<1>5. Begun(p)' /\ UNCHANGED Begun(q) /\ created'[p] <= IF p = Opener THEN 0 ELSE 1
  BY <1>1, <1>2, <1>3, <1>4 DEF Begun, OnceInv
<1>6. UNCHANGED <<FfnSent(q), Sent(q), Taken(q), Ready(q)>>
  BY <1>1, <1>4 DEF FfnSent, FfnByApp, FfnByConn, Sent, Taken, TookFfn, Ready
<1>7. /\ ~f.closed /\ flow'[p].readUpto = f.readUpto
      /\ flow'[p].closed => FfnByApp(p) /\ FfnSent(q) /\ (Taken(p) + Ready(p))' = Sent(q)
      /\ flow'[p].closeSemaphore > 0 => flow'[p].closed
  <2>1. CASE UNCHANGED flow
    BY <1>2, <1>3, <2>1 DEF OnceInv
  <2>2. CASE ~IsDuplicate(f, m) /\ flow' = [flow EXCEPT ![p] = g]
    <3>1. flow'[p] = g /\ f \in FlowType
      BY <1>2, <2>2
    <3>2. /\ g.closed => ReachedFfn(f, m) /\ f.closeInitiated
          /\ g.closeSemaphore > 0 => f.closeSemaphore > 0 \/ g.closed
          /\ g.readUpto = f.readUpto
      BY <1>3, <3>1, AcceptCloses
    <3>3. ~(f.closeSemaphore > 0)
      BY <1>2, <1>3 DEF OnceInv
    <3>4. ASSUME g.closed PROVE FfnByApp(p) /\ FfnSent(q) /\ (Taken(p) + Ready(p))' = Sent(q)
      <4>1. FfnByApp(p)
        BY <1>2, <3>2, <3>4 DEF AppInv
      <4>2. /\ FfnSent(q) /\ Taken(p) + Ready(p) + RunOf(f, m) = Sent(q)
            /\ Dist(g.availableUpTo, f.readUpto) = Ready(p) + RunOf(f, m)
            /\ RunOf(f, m) \in Nat /\ Taken(p) \in Nat /\ Ready(p) \in Nat
        BY <2>2, <3>2, <3>4, FiledFacts, CounterFacts DEF Once
      <4>3. Ready(p)' = Ready(p) + RunOf(f, m)
        BY <3>1, <3>2, <4>2 DEF Ready
      <4>4. Taken(p)' = Taken(p)
        BY <1>4, <3>1, <3>2 DEF Taken, TookFfn
      <4>5. QED
        BY <4>1, <4>2, <4>3, <4>4
    <3>5. QED
      BY <1>3, <3>1, <3>2, <3>3, <3>4
  <2>3. QED
    BY <2>1, <2>2 DEF RecvPacketFrom
<1>8. UNCHANGED <<FfnSent(p), Sent(p)>>
  <2>1. UNCHANGED FfnByApp(p)
    BY <1>4 DEF FfnByApp
  <2>2. FfnSent(p)' <=> FfnSent(p)
    BY <1>3, <1>7, <2>1 DEF FfnSent, FfnByConn
  <2>3. UNCHANGED FfnSent(p)
    BY <2>2 DEF FfnSent, FfnByApp, FfnByConn
  <2>4. QED
    BY <1>4, <2>2, <2>3 DEF Sent
<1>9. OnceInv(p)'
  <2>1. app'[p].pc # "forget"
    BY <1>2, <1>3, <1>4 DEF OnceInv
  <2>2. QED
    BY <1>1, <1>4, <1>5, <1>6, <1>7, <2>1 DEF OnceInv
<1>10. OnceInv(q)'
  BY <1>1, <1>2, <1>3, <1>4, <1>5, <1>6, <1>8 DEF OnceInv
<1>11. QED
  BY <1>1, <1>9, <1>10 DEF GhostInv

(***************************************************************************)
(* The invariant holds.                                                    *)
(***************************************************************************)
LEMMA GhostInit == ASSUME Init PROVE GhostInv
<1>1. ASSUME NEW p \in Node PROVE OnceInv(p)
  <2>1. Peer(p) \in Node
    BY PeerFacts
  <2>2. /\ created[p] = 0 /\ ~listed[p] /\ reader[p] = "new" /\ created[Peer(p)] = 0
        /\ reader[Peer(p)] = "new" /\ conn[p].pc = "idle" /\ net[p] = {} /\ app[p].pc = "new"
        /\ flow[p] = NewFlow
    BY <2>1 DEF Init
  <2>3. ~flow[p].closed /\ flow[p].closeSemaphore = 0
    BY <2>2 DEF NewFlow
  <2>4. ~Begun(p) /\ ~Begun(Peer(p))
    BY <2>2 DEF Begun
  <2>5. QED
    BY <2>2, <2>3, <2>4 DEF OnceInv
<1>2. QED
  BY <1>1 DEF GhostInv

LEMMA GhostStep ==
  ASSUME FlowInv, FlowInv', Once, GhostInv, [Next]_vars
  PROVE  GhostInv'
<1>1. CASE UNCHANGED vars
  <2>1. UNCHANGED <<flow, listed, created, app, reader, conn, net, written, lastRead>>
    BY <1>1 DEF vars, threads, history
  <2>2. \A p \in Node : UNCHANGED <<FfnSent(p), Sent(p), Taken(p), Ready(p), Begun(p)>>
    BY <2>1 DEF FfnSent, FfnByApp, FfnByConn, Sent, Taken, TookFfn, Ready, Begun
  <2>3. ASSUME NEW p \in Node PROVE OnceInv(p)'
    BY <2>1, <2>2, PeerFacts DEF GhostInv, OnceInv
  <2>4. QED
    BY <2>3 DEF GhostInv
<1>2. CASE Next
  <2>1. ASSUME NEW p \in Node, Application(p) PROVE GhostInv'
    BY <2>1, QuietApplication, SendPacketToOnce, ForgetOnce DEF Application
  <2>2. ASSUME NEW p \in Node, Receiving(p) PROVE GhostInv'
    BY <2>2, RecvPacketFromOnce, QuietReceiver, SendClosePacketOnce DEF Receiving
  <2>3. QED
    BY <1>2, <2>1, <2>2, AddNewFlowOnce, QuietReceiver, QuietApplication, ReadDataOnce DEF Next
<1>3. QED
  BY <1>1, <1>2

(***************************************************************************)
(* A flow is made once: no packet comes for a flow that the multiplexer    *)
(* has forgotten. If a channel delivers a packet twice, this is not so.    *)
(***************************************************************************)
THEOREM NoGhosts == ASSUME Once PROVE Spec => []NoGhostFlow
<1>1. Init => GhostInv
  BY GhostInit
<1>2. FlowInv /\ FlowInv' /\ GhostInv /\ [Next]_vars => GhostInv'
  BY GhostStep
<1>3. Orderly
  BY DEF Once
<1>4. Spec => []FlowInv
  BY <1>3, FlowInvariant
<1>5. GhostInv => NoGhostFlow
  BY DEF GhostInv, OnceInv, NoGhostFlow
<1>6. QED
  BY <1>1, <1>2, <1>4, <1>5, PTL DEF Spec
=============================================================================
