---------------------------- MODULE BasicChannel ----------------------------
(***************************************************************************)
(* The channel handlers that CHANNEL_HANDLER=BASIC and =SACK select        *)
(* (NewChannelScheculer::addChannel): one direction, a sender and a        *)
(* receiver.  Everything but the hand-over of a dead channel's packets     *)
(* runs under packetLock, so that one step of the model is one call.       *)
(*                                                                         *)
(* Packets are numbered as they are added; the first is the one startUp    *)
(* sends.  Timers are kept in the order they run out in, with one RTO for  *)
(* all; cwnd is kept in units of 1 / Unit.                                 *)
(***************************************************************************)
EXTENDS Naturals, Sequences, FiniteSets, FiniteSetsExt, SequencesExt

CONSTANTS SeqCnt,       \* APP_INT16_CNT (65536)
          Unit,
          MaxCwnd,      \* MAX_CONG_WINDOW, SeqCnt / 2
          InitSsthresh, \* INITIAL_SSTHRESH, or MAX_CONG_WINDOW / 2
          MaxRetries,   \* timeouts of sequence number 0 (2)
          MaxPackets,   \* bound on packets
          PathFaults,   \* what else may happen, see the actions that name it
          MaxPathFaults \* bound: how often

BasicChannelAssumption ==
  /\ SeqCnt \in Nat /\ SeqCnt % 4 = 0 /\ SeqCnt > 0
  /\ Unit \in Nat \ {0} /\ MaxCwnd \in 1 .. SeqCnt \div 2 /\ InitSsthresh \in Nat
  /\ MaxRetries \in Nat /\ MaxPackets \in Nat /\ MaxPathFaults \in Nat
  /\ PathFaults \subseteq {"lose", "duplicate", "reorder", "early", "close", "lateAck"}
ASSUME BasicChannelAssumption

SeqNo == 0 .. SeqCnt - 1
Dist(a, b) == (b + SeqCnt - a) % SeqCnt        \* appInt16 b - a
Next16(a, k) == (a + k) % SeqCnt

VARIABLES sack,         \* a SackNewRenoChannelHandler
          sndr,         \* senderBuffer and the members of the handler
          rcvr,         \* recieverBuff
          fwd, bwd,     \* packets and acknowledgements on their way
          passed,       \* packets passed up (accepted)
          freed,        \* packets freed as acknowledged
          back,         \* packets given back to the scheduler
          forward,      \* forwardPacketsToIfcScheduler: what it has still to do
          pathFaults

bchVars == <<sack, sndr, rcvr, fwd, bwd, passed, freed, back, forward, pathFaults>>

NewSender ==
  [lastAcked |-> SeqCnt - 1, maxPacket |-> SeqCnt - 1, maxSent |-> SeqCnt - 1,
   slot |-> [s \in SeqNo |-> 0], retry |-> [s \in SeqNo |-> 0], timerList |-> <<>>,
   window |-> 1, cwnd |-> Unit, ssthresh |-> InitSsthresh, dup |-> 0, recover |-> 0,
   recoverIndex |-> 0, multi |-> 0, status |-> "SLOW_START",
   started |-> FALSE, dead |-> FALSE, closed |-> FALSE,
   out |-> <<>>,       \* what the call sends
   acked |-> {},       \* what it frees
   ok |-> TRUE]        \* no APP_ASSERT failed

NoForward == [pc |-> "off", next |-> 0, cnt |-> 0]

BasicInit ==
  /\ sack \in BOOLEAN /\ sndr = NewSender
  /\ rcvr = [expected |-> 0, bits |-> {}, started |-> FALSE]
  /\ fwd = <<>> /\ bwd = <<>>
  /\ passed = {} /\ freed = {} /\ back = {} /\ forward = NoForward
  /\ pathFaults = MaxPathFaults

-----------------------------------------------------------------------------
(* The sender's helpers, on the record S of its members.                     *)

\* f of the value of S, computed once.
With(S, f(_)) == CHOOSE T \in {f(V) : V \in {S}} : TRUE

InFlight(S) == Dist(S.lastAcked, S.maxSent)
Window(S) == LET c == (2 * S.cwnd + Unit) \div (2 * Unit)
             IN IF S.window < c THEN S.window ELSE c

\* startTimer and stopTimer of a sequence of numbers, with their asserts.
StopTimers(S, set) ==
  [S EXCEPT !.timerList = SelectSeq(@, LAMBDA t : t \notin set),
            !.ok = @ /\ set \subseteq ToSet(S.timerList)]

StartTimers(S, seq) ==
  [S EXCEPT !.timerList = @ \o seq, !.ok = @ /\ ToSet(seq) \cap ToSet(S.timerList) = {}]

\* sendSeq of a sequence of numbers; a slot must not be empty.
SendSeqs(S, seq) ==
  [StartTimers(S, seq) EXCEPT
     !.out = @ \o [i \in DOMAIN seq |-> [seq |-> seq[i], n |-> S.slot[seq[i]]]],
     !.ok = @ /\ \A i \in DOMAIN seq : S.slot[seq[i]] # 0]

Following(s, k) == [i \in 1 .. k |-> Next16(s, i)]

SendNew(S, cnt) ==
  LET unsent == Dist(S.maxSent, S.maxPacket)
      room == IF InFlight(S) < Window(S) THEN Window(S) - InFlight(S) ELSE 0
      sent == Min({cnt, unsent, room})
      Send(n) == [SendSeqs(S, Following(S.maxSent, n)) EXCEPT !.maxSent = Next16(@, n)]
  IN With(sent, Send)

\* updateCwnd
SetTo(S, c) == [S EXCEPT !.cwnd = Max({Unit, Min({c, MaxCwnd * Unit})})]
MultiplicativeIncrease(S) == SetTo(S, S.cwnd + Unit)
AdditiveIncrease(S) == SetTo(S, S.cwnd + (Unit * Unit) \div S.cwnd)

\* stopTimer, freePacket and reset.  Mutant of Release: the timer stays in the list.
ReleaseKeepsTimer(S, set) ==
  [S EXCEPT !.acked = @ \cup {S.slot[s] : s \in set},
            !.slot = [s \in SeqNo |-> IF s \in set THEN 0 ELSE @[s]],
            !.retry = [s \in SeqNo |-> IF s \in set THEN 0 ELSE @[s]]]

Release(S, set) ==
  [StopTimers(S, set) EXCEPT !.acked = @ \cup {S.slot[s] : s \in set},
                             !.slot = [s \in SeqNo |-> IF s \in set THEN 0 ELSE @[s]],
                             !.retry = [s \in SeqNo |-> IF s \in set THEN 0 ELSE @[s]]]

\* The SACK handler skips slots it has emptied before.
Kept(S, seq) == SelectSeq(seq, LAMBDA s : ~sack \/ S.slot[s] # 0)

FreeUpTo(S, k) == Release(S, ToSet(Kept(S, Following(S.lastAcked, k))))

-----------------------------------------------------------------------------
(* ackRecv.                                                                  *)

Grown(S) ==
  IF S.cwnd <= S.ssthresh * Unit
    THEN [MultiplicativeIncrease(S) EXCEPT !.status = "SLOW_START"]
    ELSE [AdditiveIncrease(S) EXCEPT !.status = "CONG_AVOIDANCE"]

NewAck(S, k) ==
  LET Acked == [FreeUpTo(S, k) EXCEPT !.lastAcked = Next16(@, k), !.dup = 0, !.recover = 0]
      More(T) == SendNew(T, 2 * k)
  IN With(With(Acked, Grown), More)

\* Timers of what is left of the flight start anew; the SACK handler sends the first
\* of them again, once.
Restart(S, seq) == StartTimers(StopTimers(S, ToSet(seq)), seq)
Retransmit(S, seq) == SendSeqs(StopTimers(S, ToSet(seq)), seq)

PartialAck(S, k) ==
  LET Acked == [FreeUpTo(S, k) EXCEPT !.lastAcked = Next16(@, k), !.dup = 0, !.recover = @ - k]
      Rest(T) == Restart(T, Kept(T, Following(T.lastAcked, T.recover)))
      First(T) == [Retransmit(T, Following(T.lastAcked, 1)) EXCEPT
                     !.status = "MULTI_RECOVERY", !.multi = Next16(T.lastAcked, 2), !.dup = 3]
      Deflate(T) == SetTo(T, IF T.cwnd + Unit > k * Unit THEN T.cwnd + Unit - k * Unit ELSE 0)
      More(T) == With(SendNew(T, 1), Deflate)
  IN With(With(Acked, Rest),
          LAMBDA T : IF sack /\ T.status = "FAST_RECOVERY" THEN First(T) ELSE More(T))

TripleDuplicate(S) ==
  LET half == Max({InFlight(S) \div 2, 2})
      Enter(T) == [SetTo(T, (half + 3) * Unit) EXCEPT
             !.recover = InFlight(S), !.recoverIndex = S.maxSent, !.ssthresh = half,
             !.status = IF @ \in {"SLOW_START", "CONG_AVOIDANCE"} THEN "FAST_RECOVERY" ELSE @]
  IN With(Retransmit(S, Following(S.lastAcked, 1)),
          LAMBDA T : IF S.status = "FAST_RECOVERY" THEN T ELSE Enter(T))

\* The search of MULTI_RECOVERY stops at a packet, but only an empty slot would be
\* sent: nothing ever is.
Searched(S) ==
  Next16(S.multi, CHOOSE k \in 0 .. SeqCnt :
    LET Stops(i) == S.slot[Next16(S.multi, i)] # 0 \/ Next16(S.multi, i) > S.recoverIndex
    IN Stops(k) /\ \A i \in 0 .. k - 1 : ~Stops(i))

DuplicateAck(S) ==
  LET T == [S EXCEPT !.dup = @ + 1]
      More(U) == SendNew(U, 1)
  IN CASE S.status = "MULTI_RECOVERY" ->
            With(MultiplicativeIncrease([T EXCEPT !.multi = Searched(S)]), More)
       [] S.status # "MULTI_RECOVERY" /\ T.dup = 3 -> With(T, TripleDuplicate)
       [] S.status = "FAST_RECOVERY" /\ T.dup # 3 -> With(MultiplicativeIncrease(T), More)
       [] OTHER -> With(T, More)

\* The acknowledged packet itself, if it is ahead of what is acknowledged.  Mutant of
\* SackOne: the slot after it.
SackOneNext(S, m) ==
  IF sack /\ m.ack # m.orig /\ S.slot[Next16(m.orig, 1)] # 0
     /\ Next16(m.orig, 1) \in ToSet(S.timerList) THEN Release(S, {Next16(m.orig, 1)}) ELSE S

SackOne(S, m) ==
  IF sack /\ m.ack # m.orig /\ S.slot[m.orig] # 0 THEN Release(S, {m.orig}) ELSE S

Recovering(S) == S.status = "FAST_RECOVERY" \/ (sack /\ S.status = "MULTI_RECOVERY")

AckOf(S, k) ==
  CASE k > SeqCnt \div 2 -> S
    [] k \in 1 .. SeqCnt \div 2 /\ Recovering(S) /\ k < S.recover -> PartialAck(S, k)
    [] k \in 1 .. SeqCnt \div 2 /\ ~(Recovering(S) /\ k < S.recover) -> NewAck(S, k)
    [] k = 0 /\ S.lastAcked # S.maxSent -> DuplicateAck(S)
    [] OTHER -> S

AckRecv(S, m) == With(SackOne(S, m), LAMBDA T : AckOf(T, Dist(T.lastAcked, m.ack)))

-----------------------------------------------------------------------------
(* The calls.  Put S, with what it sends and frees, back.                    *)

Commit(V) == \E S \in {V} :
  /\ sndr' = [S EXCEPT !.out = <<>>, !.acked = {}]
  /\ fwd' = fwd \o S.out
  /\ freed' = freed \cup S.acked

Added == Cardinality(freed) + Cardinality(back) + Cardinality({s \in SeqNo : sndr.slot[s] # 0})

AddBuffer(S) ==
  LET s == Next16(S.maxPacket, 1) IN
  [S EXCEPT !.maxPacket = s, !.slot[s] = Added + 1, !.ok = @ /\ S.slot[s] = 0]

\* sendPacket; the first call is startUp's, for the others the scheduler asks
\* haveCell first.  Packets go out at once only when nothing else is under way.
HaveCell(S) == S.started /\ Dist(S.lastAcked, S.maxPacket) < 2 * Window(S)

SendPacket ==
  /\ Added < MaxPackets /\ ~sndr.closed /\ ~sndr.dead
  /\ Added = 0 \/ HaveCell(sndr)
  /\ Dist(sndr.lastAcked, sndr.maxPacket) < SeqCnt \div 2
  /\ Commit(With(AddBuffer(sndr), LAMBDA S : IF sndr.lastAcked = sndr.maxPacket
                                               THEN SendNew(S, 1) ELSE S))
  /\ UNCHANGED <<sack, rcvr, bwd, passed, back, forward, pathFaults>>

\* timeoutEvent: the timers that ran out are a prefix of the list.  They run out
\* only when everything under way has arrived or is lost, or "early".
Expire(S, expired) ==
  LET dies == {i \in DOMAIN expired : expired[i] = 0 /\ S.retry[0] > MaxRetries}
      again == IF dies = {} THEN expired ELSE SubSeq(expired, 1, Min(dies) - 1)
      T == [Retransmit(S, again) EXCEPT
              !.retry = [s \in SeqNo |-> IF s \in ToSet(again) THEN (@[s] + 1) % 16 ELSE @[s]],
              !.dead = dies # {}]
  IN IF again = <<>> THEN T
     ELSE [SetTo(T, 0) EXCEPT !.ssthresh = Max({2, S.cwnd \div (2 * Unit)})]

TimeoutEvent(j) ==
  /\ ~sndr.closed /\ ~sndr.dead
  /\ \/ fwd = <<>> /\ bwd = <<>> /\ pathFaults' = pathFaults
     \/ "early" \in PathFaults /\ pathFaults > 0 /\ pathFaults' = pathFaults - 1
  /\ Commit(Expire(sndr, SubSeq(sndr.timerList, 1, j)))
  /\ forward' = IF sndr'.dead THEN [NoForward EXCEPT !.pc = "begin"] ELSE forward
  /\ UNCHANGED <<sack, rcvr, bwd, passed, back>>

\* recv: every acknowledgement carries a window of SeqCnt / 2.  On a dead channel
\* ackRecv finds neither timers nor lock the hand-over ("lateAck").
RecvAck ==
  /\ bwd # <<>> /\ bwd' = Tail(bwd)
  /\ "lateAck" \in PathFaults \/ ~sndr.dead
  /\ LET S == [sndr EXCEPT !.window = SeqCnt \div 2, !.started = TRUE]
     IN Commit(AckRecv(S, Head(bwd)))
  /\ UNCHANGED <<sack, rcvr, passed, back, forward, pathFaults>>

\* forwardPacketsToIfcScheduler, on a worker and without packetLock.
BeginForward ==
  /\ forward.pc = "begin"
  /\ forward' = [pc |-> "give", next |-> Next16(sndr.lastAcked, 1),
                 cnt |-> Dist(sndr.lastAcked, sndr.maxPacket)]
  /\ sndr' = [sndr EXCEPT !.timerList = <<>>]
  /\ UNCHANGED <<sack, rcvr, fwd, bwd, passed, freed, back, pathFaults>>

GiveBack ==
  /\ forward.pc = "give" /\ forward.cnt > 0
  /\ forward' = [forward EXCEPT !.next = Next16(@, 1), !.cnt = @ - 1]
  /\ sndr' = [sndr EXCEPT !.slot[forward.next] = 0, !.retry[forward.next] = 0]
  /\ back' = back \cup ({sndr.slot[forward.next]} \ {0})
  /\ UNCHANGED <<sack, rcvr, fwd, bwd, passed, freed, pathFaults>>

-----------------------------------------------------------------------------
(* The receiver: pktRecv, sendAck.                                           *)

Consumed(bits, e) == Max({k \in 0 .. Cardinality(bits) : \A i \in 0 .. k - 1 : Next16(e, i) \in bits})

Ahead(s) == Dist(rcvr.expected, s) < SeqCnt \div 2
Behind(s) == Dist(rcvr.expected, s) > SeqCnt \div 2 + SeqCnt \div 4

PktRecv(m) ==
  LET started == rcvr.started \/ m.seq = 0        \* FLAG_CHS
      bits == rcvr.bits \cup {m.seq}
      k == Consumed(bits, rcvr.expected)
      next == Next16(rcvr.expected, k)
      ack(e) == Append(bwd, [ack |-> Next16(e, SeqCnt - 1), orig |-> m.seq])
  IN IF started /\ Ahead(m.seq)
       THEN /\ rcvr' = [expected |-> next, started |-> TRUE,
                        bits |-> bits \ {Next16(rcvr.expected, i) : i \in 0 .. k - 1}]
            /\ bwd' = ack(next) /\ passed' = passed \cup {m.n}
       ELSE /\ rcvr' = [rcvr EXCEPT !.started = started] /\ passed' = passed
            /\ bwd' = IF started /\ Behind(m.seq) THEN ack(rcvr.expected) ELSE bwd

RecvPkt ==
  /\ fwd # <<>>
  /\ PktRecv(Head(fwd))
  /\ \/ fwd' = Tail(fwd) /\ pathFaults' = pathFaults
     \/ "duplicate" \in PathFaults /\ pathFaults > 0 /\ pathFaults' = pathFaults - 1 /\ fwd' = fwd
  /\ UNCHANGED <<sack, sndr, freed, back, forward>>

Disturb(kind) == kind \in PathFaults /\ pathFaults > 0 /\ pathFaults' = pathFaults - 1
Swapped(q) == <<q[2], q[1]>> \o SubSeq(q, 3, Len(q))

Lose ==
  /\ Disturb("lose")
  /\ \/ fwd # <<>> /\ fwd' = Tail(fwd) /\ bwd' = bwd
     \/ bwd # <<>> /\ bwd' = Tail(bwd) /\ fwd' = fwd
  /\ UNCHANGED <<sack, sndr, rcvr, passed, freed, back, forward>>

Reorder ==
  /\ Disturb("reorder")
  /\ \/ Len(fwd) > 1 /\ fwd' = Swapped(fwd) /\ bwd' = bwd
     \/ Len(bwd) > 1 /\ bwd' = Swapped(bwd) /\ fwd' = fwd
  /\ UNCHANGED <<sack, sndr, rcvr, passed, freed, back, forward>>

ShutDown ==
  /\ Disturb("close") /\ ~sndr.closed /\ sndr' = [sndr EXCEPT !.closed = TRUE]
  /\ UNCHANGED <<sack, rcvr, fwd, bwd, passed, freed, back, forward>>

-----------------------------------------------------------------------------
BasicRun ==
  \/ SendPacket \/ RecvPkt \/ RecvAck \/ BeginForward \/ GiveBack
  \/ \E j \in 1 .. Len(sndr.timerList) : TimeoutEvent(j)

BasicNext == BasicRun \/ ShutDown \/ Lose \/ Reorder

\* Threads and timers run; a fault, once it happened, is past.
BasicSpec == BasicInit /\ [][BasicNext]_bchVars
BasicFairSpec == BasicSpec /\ WF_bchVars(BasicRun)

-----------------------------------------------------------------------------
\* No assert of the timer list, the slots or the head packet fails, and as long as the
\* channel works every packet that was sent and not freed has a timer, which is all
\* that makes it be sent again (stopTimer, sendSeq, addBuffer).
TimersHold ==
  /\ sndr.ok
  /\ ~sndr.dead =>
       LET out == {Next16(sndr.lastAcked, i) : i \in 1 .. InFlight(sndr)}
       IN /\ ToSet(sndr.timerList) = {s \in out : sndr.slot[s] # 0}
          /\ Len(sndr.timerList) = Cardinality(ToSet(sndr.timerList))
          /\ InFlight(sndr) > 0 => sndr.slot[Next16(sndr.lastAcked, 1)] # 0
          /\ sndr.recover <= InFlight(sndr)

\* A packet is freed as acknowledged only after it was passed up, and none is both
\* freed and given back to the scheduler, nor lost by the hand-over of a dead channel.
Custody ==
  /\ freed \subseteq passed /\ freed \cap back = {}
  /\ freed \cup back \cup ({sndr.slot[s] : s \in SeqNo} \ {0}) = 1 .. Added
  /\ forward.pc = "give" /\ forward.cnt = 0 => \A s \in SeqNo : sndr.slot[s] = 0

BasicSound == TimersHold /\ Custody

\* A channel that stays open and is not given up gets every packet across.
BasicDone == sndr.closed \/ sndr.dead \/ (freed = 1 .. MaxPackets /\ passed = freed)
=============================================================================
