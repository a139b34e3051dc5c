-------------------------- MODULE Scheduler_proofs --------------------------
(***************************************************************************)
(* Proofs about Scheduler: its type invariant; that the semaphore          *)
(* waitForNewPacket and the four places packets wait in agree, so that     *)
(* the assert of sendNextPacketUsingCh never fails; and that no packet is  *)
(* lost as long as nothing disturbs the scheduler.                         *)
(***************************************************************************)
EXTENDS Scheduler, TLAPS

(***************************************************************************)
(* Taking an element out of a channel's buffer leaves a sequence.          *)
(***************************************************************************)
LEMMA RemoveAtType ==
    ASSUME NEW S, NEW s \in Seq(S), NEW i \in DOMAIN s
    PROVE  RemoveAt(s, i) \in Seq(S)
  BY DEF RemoveAt

(***************************************************************************)
(* The object of a channel nobody added is an object.                      *)
(***************************************************************************)
LEMMA NoObjectType == NoObject \in Object
  BY DEF NoObject, Object

(***************************************************************************)
(* Marking channels dead touches nothing else of their objects.            *)
(***************************************************************************)
LEMMA MarkDeadType ==
    ASSUME TypeOK, NEW S \in SUBSET Channel, MarkDead(S)
    PROVE  /\ chan' \in [Channel -> Object]
           /\ condemned' \subseteq Channel
           /\ faults' \in Nat
  <1>1. ASSUME NEW c \in Channel PROVE [chan[c] EXCEPT !.dead = TRUE] \in Object
    <2>1. chan[c] \in Object
      BY DEF TypeOK
    <2>2. QED
      BY <2>1 DEF Object
  <1>2. chan' = [c \in Channel |-> IF c \in S THEN [chan[c] EXCEPT !.dead = TRUE] ELSE chan[c]]
    BY DEF MarkDead
  <1>3. chan' \in [Channel -> Object]
    BY <1>1, <1>2 DEF TypeOK
  <1>4. QED
    BY <1>3 DEF TypeOK, MarkDead

(***************************************************************************)
(* Taking the first packet leaves the four places what they are.           *)
(***************************************************************************)
LEMMA TakeFirstType ==
    ASSUME TypeOK, NEW x, TakeFirst(x)
    PROVE  /\ outgoing' \in Seq(Packet) /\ undelivered' \in Seq(Item)
           /\ closePkts' \in Seq(Packet) /\ controlPkt' \in Packet \cup {Null}
  <1>1. /\ outgoing # <<>> => Tail(outgoing) \in Seq(Packet)
        /\ undelivered # <<>> => Tail(undelivered) \in Seq(Item)
        /\ closePkts # <<>> => Tail(closePkts) \in Seq(Packet)
    BY DEF TypeOK
  <1>2. QED
    BY <1>1 DEF TypeOK, TakeFirst

(***************************************************************************)
(* The initial state is well typed.                                        *)
(***************************************************************************)
LEMMA InitType == Init => TypeOK
  <1> SUFFICES ASSUME Init PROVE TypeOK
    OBVIOUS
  <1>1. outgoing \in Seq(Packet) /\ undelivered \in Seq(Item) /\ closePkts \in Seq(Packet)
    BY DEF Init
  <1>2. chan \in [Channel -> Object]
    BY NoObjectType DEF Init
  <1>3. sched \in Place
    BY DEF Init, Place
  <1>4. collecting \in [ch : Channel \cup {Null}, cnt : Nat]
    BY DEF Init
  <1>5. QED
    BY <1>1, <1>2, <1>3, <1>4, SchedulerAssumption DEF Init, TypeOK

(***************************************************************************)
(* Every action keeps the types.                                           *)
(***************************************************************************)
LEMMA StepType == TypeOK /\ [Next]_vars => TypeOK'
  <1> SUFFICES ASSUME TypeOK, [Next]_vars PROVE TypeOK'
    OBVIOUS
  <1> USE DEF queues, deadVars, closeVars, history
  <1>1. ASSUME NEW p \in Packet, SendControl(p) PROVE TypeOK'
    BY <1>1 DEF TypeOK, SendControl, Submit
  <1>2. ASSUME NEW p \in Packet, SendClose(p) PROVE TypeOK'
    BY <1>2 DEF TypeOK, SendClose, Submit
  <1>3. ASSUME NEW p \in Packet, SendData(p) PROVE TypeOK'
    BY <1>3 DEF TypeOK, SendData, Submit
  <1>4. CASE Notify
    BY <1>4 DEF TypeOK, Notify
  <1>5. CASE TakeToken
    <2>1. sched' \in Place
      BY <1>5 DEF TypeOK, TakeToken, Place
    <2>2. QED
      BY <1>5, <2>1 DEF TypeOK, TakeToken
  <1>6. CASE TakePacket
    <2>1. sched' \in Place
      BY <1>6 DEF TypeOK, TakePacket, Place
    <2>2. QED
      BY <1>6, <2>1 DEF TypeOK, TakePacket
  <1>7. ASSUME NEW c \in Channel, Choose(c) PROVE TypeOK'
    <2>1. sched' \in Place
      BY <1>7 DEF TypeOK, Choose, Place
    <2>2. QED
      BY <1>7, <2>1 DEF TypeOK, Choose
  <1>8. CASE NoSpace
    <2>1. sched' \in Place
      BY <1>8 DEF TypeOK, NoSpace, Place
    <2>2. QED
      BY <1>8, <2>1 DEF TypeOK, NoSpace
  <1>9. CASE SendNextPacketUsingCh
    <2>1. PICK x \in Item :
             /\ TakeFirst(x)
             /\ \/ chan' = chan
                \/ chan' = [chan EXCEPT ![sched.ch].held = Append(@, x)]
      BY <1>9 DEF SendNextPacketUsingCh
    <2>2. chan' \in [Channel -> Object]
      <3>1. CASE chan' = [chan EXCEPT ![sched.ch].held = Append(@, x)]
        <4> DEFINE c == sched.ch
                   h == Append(chan[c].held, x)
        <4>1. CASE c \in Channel
          <5>1. h \in Seq(Item)
            BY <4>1 DEF TypeOK, Object
          <5>2. chan' = [chan EXCEPT ![c].held = h]
            BY <3>1
          <5>3. chan \in [Channel -> Object]
            BY DEF TypeOK
          <5> HIDE DEF c, h
          <5>4. QED
            BY <4>1, <5>1, <5>2, <5>3 DEF Object
        <4>2. CASE c \notin Channel
          BY <3>1, <4>2 DEF TypeOK
        <4>3. QED
          BY <4>1, <4>2
      <3>2. QED
        BY <2>1, <3>1 DEF TypeOK
    <2>3. outgoing' \in Seq(Packet) /\ undelivered' \in Seq(Item) /\ closePkts' \in Seq(Packet)
         /\ controlPkt' \in Packet \cup {Null}
      BY <2>1, TakeFirstType DEF TypeOK
    <2>4. sched' \in Place /\ faults' \in Nat
      <3>1. CASE sched' = [pc |-> "packet", ch |-> Null] /\ faults' = faults
        BY <3>1 DEF TypeOK, Place
      <3>2. CASE faults > 0 /\ faults' = faults - 1 /\ sched' = [sched EXCEPT !.pc = "stuck"]
        <4>1. sched' \in Place
          BY <3>2 DEF TypeOK, Place
        <4>2. faults' \in Nat
          BY <3>2 DEF TypeOK
        <4>3. QED
          BY <4>1, <4>2
      <3>3. QED
        BY <1>9, <3>1, <3>2 DEF SendNextPacketUsingCh
    <2>5. QED
      BY <1>9, <2>2, <2>3, <2>4 DEF TypeOK, SendNextPacketUsingCh
  <1>10. ASSUME NEW c \in Channel, AddChannel(c) PROVE TypeOK'
    <2>1. chan' \in [Channel -> Object]
      <3> DEFINE o == [NoObject EXCEPT !.registered = TRUE, !.held = <<Chs>>]
      <3>1. <<Chs>> \in Seq(Item)
        BY DEF Item
      <3>2. o \in Object
        BY <3>1, NoObjectType DEF Object
      <3>3. QED
        BY <1>10, <3>2 DEF TypeOK, AddChannel
    <2>2. QED
      BY <1>10, <2>1 DEF TypeOK, AddChannel
  <1>11. ASSUME NEW c \in Channel, Started(c) PROVE TypeOK'
    <2>1. chan' \in [Channel -> Object]
      <3> DEFINE obj == [chan[c] EXCEPT !.started = TRUE]
      <3>1. obj \in Object
        <4>1. chan[c] \in Object
          BY DEF TypeOK
        <4>2. QED
          BY <4>1 DEF Object
      <3>2. chan' = [chan EXCEPT ![c] = obj]
        BY <1>11 DEF Started
      <3>3. chan \in [Channel -> Object]
        BY DEF TypeOK
      <3> HIDE DEF obj
      <3>4. QED
        BY <3>1, <3>2, <3>3
    <2>2. QED
      BY <1>11, <2>1 DEF TypeOK, Started
  <1>12. ASSUME NEW c \in Channel, Timeout(c) PROVE TypeOK'
    <2>1. chan' \in [Channel -> Object]
      <3> DEFINE obj == [chan[c] EXCEPT !.cwnd = 1]
      <3>1. obj \in Object
        <4>1. chan[c] \in Object
          BY DEF TypeOK
        <4>2. QED
          BY <4>1 DEF Object
      <3>2. chan' = [chan EXCEPT ![c] = obj]
        BY <1>12 DEF Timeout
      <3>3. chan \in [Channel -> Object]
        BY DEF TypeOK
      <3> HIDE DEF obj
      <3>4. QED
        BY <3>1, <3>2, <3>3
    <2>2. QED
      BY <1>12, <2>1 DEF TypeOK, Timeout
  <1>13. ASSUME NEW c \in Channel, NetDown(c) PROVE TypeOK'
    <2>1. chan' \in [Channel -> Object]
      <3>1. chan' = [chan EXCEPT ![c].busy = TRUE]
        BY <1>13 DEF NetDown
      <3>2. chan \in [Channel -> Object]
        BY DEF TypeOK
      <3>3. QED
        BY <3>1, <3>2 DEF Object
    <2>2. QED
      BY <1>13, <2>1 DEF TypeOK, NetDown
  <1>14. ASSUME NEW c \in Channel, Collect(c) PROVE TypeOK'
    <2>1. chan' \in [Channel -> Object]
      <3>1. chan' = [chan EXCEPT ![c].held = <<>>]
        BY <1>14 DEF Collect
      <3>2. <<>> \in Seq(Item)
        OBVIOUS
      <3>3. chan \in [Channel -> Object]
        BY DEF TypeOK
      <3>4. QED
        BY <3>1, <3>2, <3>3 DEF Object
    <2>2. outgoing' \in Seq(Packet) /\ undelivered' \in Seq(Item) /\ closePkts' \in Seq(Packet)
         /\ controlPkt' \in Packet \cup {Null}
      BY <1>14 DEF TypeOK, Collect, Item, Object
    <2>3. collecting' \in [ch : Channel \cup {Null}, cnt : Nat]
      BY <1>14 DEF TypeOK, Collect, Object
    <2>4. QED
      BY <1>14, <2>1, <2>2, <2>3 DEF TypeOK, Collect
  <1>15. ASSUME NEW c \in Channel, InitShutdown(c) PROVE TypeOK'
    <2>1. chan' \in [Channel -> Object]
      <3>1. CASE chan' = [chan EXCEPT ![c].closed = TRUE]
        BY <3>1 DEF TypeOK, Object
      <3>2. CASE chan' = [chan EXCEPT ![c].closed = TRUE, ![c].held = Append(@, Chf)]
        <4> DEFINE h == Append(chan[c].held, Chf)
        <4>1. chan[c].held \in Seq(Item) /\ Chf \in Item
          BY DEF TypeOK, Object, Item
        <4>2. h \in Seq(Item)
          BY <4>1
        <4>3. chan' = [chan EXCEPT ![c].closed = TRUE, ![c].held = h]
          BY <3>2
        <4> HIDE DEF h
        <4> DEFINE obj == [chan[c] EXCEPT !.closed = TRUE, !.held = h]
        <4>0. chan[c] \in Object
          BY DEF TypeOK
        <4>4. obj \in Object
          BY <4>0, <4>2 DEF Object
        <4>5. chan' = [chan EXCEPT ![c] = obj]
          BY <4>3
        <4> HIDE DEF obj
        <4>6. QED
          BY <4>4, <4>5 DEF TypeOK
      <3>3. CASE chan[c].dead /\ chan' # chan
        <4> DEFINE obj == [chan[c] EXCEPT !.closed = TRUE, !.held = chan[c].held]
        <4>0. chan[c] \in Object
          BY DEF TypeOK
        <4>1. obj \in Object
          BY <4>0 DEF Object
        <4>2. chan' = [chan EXCEPT ![c] = obj]
          BY <1>15, <3>3 DEF InitShutdown
        <4> HIDE DEF obj
        <4>3. QED
          BY <4>1, <4>2 DEF TypeOK
      <3>4. CASE ~chan[c].dead /\ chan' # chan
        BY <1>15, <3>2, <3>4 DEF InitShutdown
      <3>5. QED
        BY <3>3, <3>4 DEF TypeOK
    <2>2. QED
      BY <1>15, <2>1 DEF TypeOK, InitShutdown
  <1>16. ASSUME NEW c \in Channel, EnterShutDown(c) PROVE TypeOK'
    BY <1>16 DEF TypeOK, EnterShutDown
  <1>17. ASSUME NEW c \in Channel, NEW i \in DOMAIN chan[c].held, NEW grows \in BOOLEAN,
              AckRecv(c, i, grows)
       PROVE  TypeOK'
    <2>1. chan' \in [Channel -> Object]
      <3> DEFINE h == RemoveAt(chan[c].held, i)
                 w == IF grows THEN chan[c].cwnd + 1 ELSE chan[c].cwnd
                 z == chan[c].shut \/ (chan[c].closed /\ chan[c].held[i] = Chf)
      <3>1. h \in Seq(Item) /\ w \in Nat /\ z \in BOOLEAN
        BY RemoveAtType DEF TypeOK, Object
      <3>2. chan' = [chan EXCEPT ![c].held = h, ![c].cwnd = w, ![c].shut = z]
        BY <1>17 DEF AckRecv
      <3> HIDE DEF h, w, z
      <3> DEFINE obj == [chan[c] EXCEPT !.held = h, !.cwnd = w, !.shut = z]
      <3>0. chan[c] \in Object
        BY DEF TypeOK
      <3>3. obj \in Object
        BY <3>0, <3>1 DEF Object
      <3>4. chan' = [chan EXCEPT ![c] = obj]
        BY <3>2
      <3> HIDE DEF obj
      <3>5. QED
        BY <3>3, <3>4 DEF TypeOK
    <2>2. delivered' \subseteq Item
      BY <1>17 DEF TypeOK, AckRecv, Object
    <2>3. waitForToken' \in Nat
      BY <1>17 DEF TypeOK, AckRecv
    <2>4. QED
      BY <1>17, <2>1, <2>2, <2>3 DEF TypeOK, AckRecv
  <1>18. ASSUME NEW S \in SUBSET Channel, InterfaceRemoved(S) PROVE TypeOK'
    <2>1. chan' \in [Channel -> Object]
      BY <1>18, MarkDeadType DEF TypeOK, InterfaceRemoved
    <2>2. QED
      BY <1>18, <2>1, MarkDeadType DEF TypeOK, InterfaceRemoved
  <1>19. ASSUME NEW S \in SUBSET Channel, RemoveRemote(S) PROVE TypeOK'
    <2>1. chan' \in [Channel -> Object]
      BY <1>19, MarkDeadType DEF TypeOK, RemoveRemote
    <2>2. QED
      BY <1>19, <2>1, MarkDeadType DEF TypeOK, RemoveRemote
  <1>20. CASE AnnounceRemoval
    <2>1. undelivered' \in Seq(Item)
      BY <1>20 DEF TypeOK, AnnounceRemoval, Item
    <2>2. owed' \in Nat
      BY <1>20 DEF TypeOK, AnnounceRemoval
    <2>3. monitor' \in BOOLEAN
      BY <1>20 DEF AnnounceRemoval
    <2>4. QED
      BY <1>20, <2>1, <2>2, <2>3 DEF TypeOK, AnnounceRemoval
  <1>21. CASE Unregister
    <2>1. chan' \in [Channel -> Object]
      <3> DEFINE c == collecting.ch
                 obj == [chan[c] EXCEPT !.registered = FALSE, !.busy = FALSE]
      <3>1. c \in Channel
        BY <1>21 DEF TypeOK, Unregister
      <3>0. chan[c] \in Object
        BY <3>1 DEF TypeOK
      <3>2. obj \in Object
        BY <3>0 DEF Object
      <3>3. chan' = [chan EXCEPT ![c] = obj]
        BY <1>21 DEF Unregister
      <3> HIDE DEF c, obj
      <3>4. QED
        BY <3>1, <3>2, <3>3 DEF TypeOK
    <2>2. collecting' \in [ch : Channel \cup {Null}, cnt : Nat]
      BY <1>21 DEF TypeOK, Unregister
    <2>3. QED
      BY <1>21, <2>1, <2>2 DEF TypeOK, Unregister
  <1>22. CASE Close
    BY <1>22 DEF TypeOK, Close
  <1>23. CASE ShutDownReturns
    BY <1>23 DEF TypeOK, ShutDownReturns
  <1>24. CASE FinishClose
    BY <1>24 DEF TypeOK, FinishClose
  <1>25. CASE GiveLastToken
    BY <1>25 DEF TypeOK, GiveLastToken
  <1>26. CASE GiveLastPacket
    BY <1>26 DEF TypeOK, GiveLastPacket
  <1>27. CASE UNCHANGED vars
    BY <1>27 DEF TypeOK, vars
  <1>28. QED
    BY <1>1, <1>2, <1>3, <1>4, <1>5, <1>6, <1>7, <1>8, <1>9, <1>10, <1>11, <1>12, <1>13, <1>14,
       <1>15, <1>16, <1>17, <1>18, <1>19, <1>20, <1>21, <1>22, <1>23, <1>24, <1>25, <1>26, <1>27
    DEF Next, Callers, Run, Channels, Removal, Closing

(***************************************************************************)
(* Every reachable state of the scheduler, with any number of channels,    *)
(* any queue size and window, whatever goes wrong, is well typed.          *)
(***************************************************************************)
THEOREM TypeCorrect == Spec => []TypeOK
  BY InitType, StepType, PTL DEF Spec

-----------------------------------------------------------------------------
(***************************************************************************)
(* TokensMatchPackets is not inductive alone: a call of notifyDeadChannel  *)
(* must not start with a count left over from an earlier one. And once     *)
(* close() hands out tokens for nothing, what keeps the assert from        *)
(* failing is that the token in the scheduler's hand was taken before.     *)
(***************************************************************************)
IdleCollectsNothing == collecting.ch = Null => collecting.cnt = 0
HandCovered == InHand <= Waiting
TokenInv == TokensMatchPackets /\ IdleCollectsNothing /\ HandCovered

(***************************************************************************)
(* The number of waiting packets is a number.                              *)
(***************************************************************************)
LEMMA WaitingIsNat == TypeOK => Waiting \in Nat
  BY DEF TypeOK, Waiting

(***************************************************************************)
(* Taking the first packet leaves one packet less, so there was one.       *)
(***************************************************************************)
LEMMA TakeFirstTakesOne ==
    ASSUME TypeOK, NEW x, TakeFirst(x)
    PROVE  Waiting' = Waiting - 1
  <1>1. /\ outgoing # <<>> => Len(Tail(outgoing)) = Len(outgoing) - 1
        /\ undelivered # <<>> => Len(Tail(undelivered)) = Len(undelivered) - 1
        /\ closePkts # <<>> => Len(Tail(closePkts)) = Len(closePkts) - 1
    BY DEF TypeOK
  <1>2. /\ Len(outgoing) \in Nat /\ Len(undelivered) \in Nat /\ Len(closePkts) \in Nat
    BY DEF TypeOK
  <1>3. QED
    BY <1>1, <1>2 DEF TakeFirst, Waiting

(***************************************************************************)
(* Nothing waits and no token is given at the start.                       *)
(***************************************************************************)
LEMMA InitTokens == Init => TokenInv
  BY DEF Init, TokenInv, TokensMatchPackets, IdleCollectsNothing, HandCovered, Waiting,
         InHand, WaitToClose

(***************************************************************************)
(* Every action keeps tokens and packets in step.                          *)
(***************************************************************************)
LEMMA StepTokens == TypeOK /\ TokenInv /\ [Next]_vars => TokenInv'
  <1> SUFFICES ASSUME TypeOK, TokenInv, [Next]_vars PROVE TokenInv'
    OBVIOUS
  <1> USE DEF queues, deadVars, closeVars, history
  <1> DEFINE Same == /\ UNCHANGED <<queues, collecting>>
                     /\ InHand' = InHand
                     /\ waitForNewPacket' + owed' = waitForNewPacket + owed
                     /\ WaitToClose => WaitToClose'
  <1>0. /\ waitForNewPacket \in Nat /\ owed \in Nat /\ collecting.cnt \in Nat /\ Waiting \in Nat
        /\ InHand \in {0, 1} /\ InHand \in Nat
        /\ Len(outgoing) \in Nat /\ Len(undelivered) \in Nat /\ Len(closePkts) \in Nat
    BY WaitingIsNat DEF TypeOK, InHand
  <1>1. ASSUME Same PROVE TokenInv'
    <2>1. Waiting' = Waiting /\ InHand' = InHand /\ collecting' = collecting
      BY <1>1 DEF Waiting
    <2>2. WaitToClose => WaitToClose'
      BY <1>1
    <2>3. waitForNewPacket' + owed' = waitForNewPacket + owed
      BY <1>1
    <2>4. waitForNewPacket' \in Nat /\ owed' \in Nat
      BY StepType DEF TypeOK
    <2>5. waitForNewPacket' + owed' + InHand' + collecting'.cnt
            = waitForNewPacket + owed + InHand + collecting.cnt
      BY <2>1, <2>3
    <2>6. TokensMatchPackets'
      BY <2>1, <2>2, <2>5 DEF TokenInv, TokensMatchPackets
    <2>7. (IdleCollectsNothing /\ HandCovered)'
      BY <2>1 DEF TokenInv, IdleCollectsNothing, HandCovered
    <2>8. QED
      BY <2>6, <2>7 DEF TokenInv
  <1>2. ASSUME NEW p \in Packet, SendControl(p) PROVE TokenInv'
    <2>1. Waiting' = IF controlPkt = Null THEN Waiting + 1 ELSE Waiting
      BY <1>0, <1>2, SchedulerAssumption DEF SendControl, Waiting
    <2>2. /\ InHand' = InHand /\ WaitToClose' = WaitToClose /\ collecting' = collecting
          /\ waitForNewPacket' = waitForNewPacket
          /\ owed' = IF controlPkt = Null THEN owed + 1 ELSE owed
      BY <1>2 DEF SendControl, InHand, WaitToClose
    <2>3. QED
      BY <1>0, <2>1, <2>2 DEF TokenInv, TokensMatchPackets, IdleCollectsNothing, HandCovered
  <1>3. ASSUME NEW p \in Packet, SendClose(p) PROVE TokenInv'
    <2>1. Len(closePkts') = Len(closePkts) + 1
      BY <1>3 DEF TypeOK, SendClose
    <2>2. Waiting' = Waiting + 1
      BY <1>0, <1>3, <2>1 DEF SendClose, Waiting
    <2>3. /\ InHand' = InHand /\ WaitToClose' = WaitToClose /\ collecting' = collecting
          /\ waitForNewPacket' = waitForNewPacket /\ owed' = owed + 1
      BY <1>3 DEF SendClose, InHand, WaitToClose
    <2>4. QED
      BY <1>0, <2>2, <2>3 DEF TokenInv, TokensMatchPackets, IdleCollectsNothing, HandCovered
  <1>4. ASSUME NEW p \in Packet, SendData(p) PROVE TokenInv'
    <2>1. Len(outgoing') = Len(outgoing) + 1
      BY <1>4 DEF TypeOK, SendData
    <2>2. Waiting' = Waiting + 1
      BY <1>0, <1>4, <2>1 DEF SendData, Waiting
    <2>3. /\ InHand' = InHand /\ WaitToClose' = WaitToClose /\ collecting' = collecting
          /\ waitForNewPacket' = waitForNewPacket /\ owed' = owed + 1
      BY <1>4 DEF SendData, InHand, WaitToClose
    <2>4. QED
      BY <1>0, <2>2, <2>3 DEF TokenInv, TokensMatchPackets, IdleCollectsNothing, HandCovered
  <1>5. CASE Notify
    <2>1. Same
      BY <1>0, <1>5 DEF Notify, InHand, WaitToClose
    <2>2. QED
      BY <1>1, <2>1
  <1>6. CASE TakeToken
    <2>1. Same
      BY <1>0, <1>6 DEF TypeOK, Place, TakeToken, InHand, WaitToClose
    <2>2. QED
      BY <1>1, <2>1
  <1>7. CASE TakePacket
    <2>1. /\ Waiting' = Waiting /\ InHand = 0
          /\ InHand' = IF WaitToClose THEN 0 ELSE 1
          /\ WaitToClose' = WaitToClose
          /\ waitForNewPacket > 0 /\ waitForNewPacket' = waitForNewPacket - 1
          /\ owed' = owed /\ collecting' = collecting
      BY <1>7 DEF TypeOK, Place, TakePacket, InHand, Waiting, WaitToClose
    <2>2. QED
      BY <1>0, <2>1 DEF TokenInv, TokensMatchPackets, IdleCollectsNothing, HandCovered
  <1>8. ASSUME NEW c \in Channel, Choose(c) PROVE TokenInv'
    <2>1. Same
      BY <1>0, <1>8 DEF TypeOK, Place, Choose, InHand, WaitToClose
    <2>2. QED
      BY <1>1, <2>1
  <1>9. CASE NoSpace
    <2>1. /\ Waiting' = Waiting /\ InHand = 1 /\ InHand' = 0 /\ WaitToClose' = WaitToClose
          /\ waitForNewPacket' = waitForNewPacket + 1
          /\ owed' = owed /\ collecting' = collecting
      BY <1>9 DEF TypeOK, Place, NoSpace, InHand, Waiting, WaitToClose
    <2>2. QED
      BY <1>0, <2>1 DEF TokenInv, TokensMatchPackets, IdleCollectsNothing, HandCovered
  <1>10. CASE SendNextPacketUsingCh
    <2>1. PICK x \in Item : TakeFirst(x)
      BY <1>10 DEF SendNextPacketUsingCh
    <2>2. Waiting' = Waiting - 1
      BY <2>1, TakeFirstTakesOne
    <2>3. InHand = 1 /\ InHand' = 0
      BY <1>10 DEF TypeOK, Place, SendNextPacketUsingCh, InHand
    <2>4. /\ WaitToClose' = WaitToClose /\ collecting' = collecting
          /\ waitForNewPacket' = waitForNewPacket /\ owed' = owed
      BY <1>10 DEF SendNextPacketUsingCh, WaitToClose
    <2>5. QED
      BY <1>0, <2>2, <2>3, <2>4 DEF TokenInv, TokensMatchPackets, IdleCollectsNothing, HandCovered
  <1>11. ASSUME NEW c \in Channel,
                \/ AddChannel(c) \/ Started(c) \/ Timeout(c) \/ NetDown(c)
                \/ InitShutdown(c) \/ EnterShutDown(c)
         PROVE  TokenInv'
    <2>1. Same
      BY <1>0, <1>11 DEF AddChannel, Started, Timeout, NetDown, InitShutdown, EnterShutDown,
                         InHand, WaitToClose
    <2>2. QED
      BY <1>1, <2>1
  <1>12. ASSUME NEW c \in Channel, Collect(c) PROVE TokenInv'
    <2> DEFINE n == Len(chan[c].held)
    <2>1. n \in Nat /\ Len(undelivered') = Len(undelivered) + n
      BY <1>12 DEF TypeOK, Object, Collect
    <2>2. /\ collecting.ch = Null /\ collecting'.ch # Null /\ collecting'.cnt = n
          /\ InHand' = InHand /\ WaitToClose' = WaitToClose
          /\ waitForNewPacket' = waitForNewPacket /\ owed' = owed
      BY <1>12, SchedulerAssumption DEF Collect, InHand, WaitToClose
    <2>3. UNCHANGED <<outgoing, closePkts, controlPkt>>
      BY <1>12 DEF Collect
    <2> HIDE DEF n
    <2>4. Waiting' = Waiting + n
      BY <1>0, <2>1, <2>3 DEF Waiting
    <2>5. QED
      BY <1>0, <2>1, <2>2, <2>4
      DEF TokenInv, TokensMatchPackets, IdleCollectsNothing, HandCovered
  <1>13. ASSUME NEW c \in Channel, NEW i \in DOMAIN chan[c].held, NEW grows \in BOOLEAN,
                AckRecv(c, i, grows)
         PROVE  TokenInv'
    <2>1. Same
      BY <1>0, <1>13 DEF AckRecv, InHand, WaitToClose
    <2>2. QED
      BY <1>1, <2>1
  <1>14. ASSUME NEW S \in SUBSET Channel, InterfaceRemoved(S) \/ RemoveRemote(S) PROVE TokenInv'
    <2>1. Same
      BY <1>0, <1>14 DEF InterfaceRemoved, RemoveRemote, InHand, WaitToClose
    <2>2. QED
      BY <1>1, <2>1
  <1>15. CASE AnnounceRemoval
    <2>1. Len(undelivered') = Len(undelivered) + 1
      BY <1>15 DEF TypeOK, AnnounceRemoval
    <2>2. Waiting' = Waiting + 1
      BY <1>0, <1>15, <2>1 DEF AnnounceRemoval, Waiting
    <2>3. /\ InHand' = InHand /\ WaitToClose' = WaitToClose /\ collecting' = collecting
          /\ waitForNewPacket' = waitForNewPacket /\ owed' = owed + 1
      BY <1>15 DEF AnnounceRemoval, InHand, WaitToClose
    <2>4. QED
      BY <1>0, <2>2, <2>3 DEF TokenInv, TokensMatchPackets, IdleCollectsNothing, HandCovered
  <1>16. CASE Unregister
    <2>1. /\ Waiting' = Waiting /\ InHand' = InHand /\ WaitToClose' = WaitToClose
          /\ waitForNewPacket' = waitForNewPacket /\ owed' = owed + collecting.cnt
          /\ collecting'.ch = Null /\ collecting'.cnt = 0
      BY <1>16 DEF Unregister, Waiting, InHand, WaitToClose
    <2>2. QED
      BY <1>0, <2>1 DEF TokenInv, TokensMatchPackets, IdleCollectsNothing, HandCovered
  <1>17. CASE Close \/ ShutDownReturns \/ FinishClose \/ GiveLastToken
    <2>1. Same
      BY <1>0, <1>17 DEF Close, ShutDownReturns, FinishClose, GiveLastToken, InHand, WaitToClose
    <2>2. QED
      BY <1>1, <2>1
  <1>18. CASE GiveLastPacket
    <2>1. WaitToClose' /\ Waiting' = Waiting /\ InHand' = InHand /\ collecting' = collecting
      BY <1>18 DEF GiveLastPacket, Waiting, InHand, WaitToClose
    <2>2. QED
      BY <2>1 DEF TokenInv, TokensMatchPackets, IdleCollectsNothing, HandCovered
  <1>19. CASE UNCHANGED vars
    <2>1. Same
      BY <1>0, <1>19 DEF vars, InHand, WaitToClose
    <2>2. QED
      BY <1>1, <2>1
  <1>20. QED
    BY <1>2, <1>3, <1>4, <1>5, <1>6, <1>7, <1>8, <1>9, <1>10, <1>11, <1>12, <1>13, <1>14, <1>15,
       <1>16, <1>17, <1>18, <1>19
    DEF Next, Callers, Run, Channels, Removal, Closing

(***************************************************************************)
(* The semaphore waitForNewPacket counts the packets that wait, for any    *)
(* number of channels, callers and failures, until close().                *)
(***************************************************************************)
THEOREM TokensCorrect == Spec => []TokensMatchPackets
  <1>1. TokenInv => TokensMatchPackets
    BY DEF TokenInv
  <1>2. QED
    BY <1>1, TypeCorrect, InitTokens, StepTokens, PTL DEF Spec

(***************************************************************************)
(* APP_ASSERT(pkt) of sendNextPacketUsingCh never fails, close() or not.   *)
(***************************************************************************)
THEOREM AssertHolds == Spec => []TokenMeansPacket
  <1>1. TypeOK /\ TokenInv => TokenMeansPacket
    BY WaitingIsNat DEF TokenInv, HandCovered, TokenMeansPacket, InHand
  <1>2. QED
    BY <1>1, TypeCorrect, InitTokens, StepTokens, PTL DEF Spec

-----------------------------------------------------------------------------
(***************************************************************************)
(* Packets are kept while nothing is closed and nothing fails.  What makes *)
(* it so: no channel is dead, closed or being emptied then, and a channel  *)
(* that is not registered holds nothing, so that making it anew loses      *)
(* nothing.                                                                *)
(***************************************************************************)
Undisturbed == closer = "open" /\ faults = MaxFaults
Queued == ToSet(outgoing) \cup ToSet(undelivered) \cup ToSet(closePkts) \cup {controlPkt}
Held == UNION {ToSet(chan[c].held) : c \in Channel}
Whereabouts == Queued \cup Held \cup delivered \cup superseded

ChannelsUp ==
  /\ condemned = {} /\ collecting.ch = Null /\ ~monitor
  /\ \A c \in Channel : ~chan[c].dead /\ ~chan[c].closed /\ ~chan[c].busy
  /\ \A c \in Channel : ~chan[c].registered => chan[c].held = <<>>
  /\ sched.pc = "send" => sched.ch \in Channel /\ chan[sched.ch].registered

KeptInv ==
  /\ faults <= MaxFaults
  /\ Undisturbed => ChannelsUp /\ submitted \subseteq Whereabouts

(***************************************************************************)
(* What appending, taking the first and removing one do to the set of      *)
(* elements.                                                               *)
(***************************************************************************)
LEMMA AppendSet ==
    ASSUME NEW S, NEW s \in Seq(S), NEW x \in S
    PROVE  ToSet(Append(s, x)) = ToSet(s) \cup {x}
  <1>1. DOMAIN Append(s, x) = DOMAIN s \cup {Len(s) + 1}
    OBVIOUS
  <1>2. \A i \in DOMAIN s : Append(s, x)[i] = s[i]
    OBVIOUS
  <1>3. Append(s, x)[Len(s) + 1] = x
    OBVIOUS
  <1> DEFINE t == Append(s, x)
             n == Len(s) + 1
  <1> HIDE DEF t, n
  <1>4. DOMAIN t = DOMAIN s \cup {n} /\ t[n] = x /\ \A i \in DOMAIN s : t[i] = s[i]
    BY <1>1, <1>2, <1>3 DEF t, n
  <1>5. ToSet(t) = ToSet(s) \cup {x}
    BY <1>4 DEF ToSet
  <1>6. QED
    BY <1>5 DEF t

\* Tail takes out the head and nothing else.
LEMMA TailSet ==
    ASSUME NEW S, NEW s \in Seq(S), s # <<>>
    PROVE  ToSet(s) \subseteq {Head(s)} \cup ToSet(Tail(s))
  <1>1. SUFFICES ASSUME NEW i \in DOMAIN s, i # 1 PROVE s[i] \in ToSet(Tail(s))
    BY DEF ToSet
  <1>2. i - 1 \in DOMAIN Tail(s) /\ Tail(s)[i - 1] = s[i]
    BY <1>1
  <1>3. QED
    BY <1>2 DEF ToSet

\* RemoveAt takes out the element at that place and nothing else.
LEMMA RemoveAtSet ==
    ASSUME NEW S, NEW s \in Seq(S), NEW i \in DOMAIN s
    PROVE  ToSet(s) \subseteq ToSet(RemoveAt(s, i)) \cup {s[i]}
  <1>1. SUFFICES ASSUME NEW j \in DOMAIN s, j # i PROVE s[j] \in ToSet(RemoveAt(s, i))
    BY DEF ToSet
  <1>2. CASE j < i
    <2>1. j \in DOMAIN RemoveAt(s, i) /\ RemoveAt(s, i)[j] = s[j]
      BY <1>2 DEF RemoveAt
    <2>2. QED
      BY <2>1 DEF ToSet
  <1>3. CASE j > i
    <2>1. j - 1 \in DOMAIN RemoveAt(s, i) /\ RemoveAt(s, i)[j - 1] = s[j]
      <3> DEFINE a == SubSeq(s, 1, i - 1)
                 b == SubSeq(s, i + 1, Len(s))
      <3>1. /\ i \in Nat /\ j \in Nat /\ Len(s) \in Nat
            /\ 1 <= i /\ i < j /\ j <= Len(s)
        BY <1>3
      <3>2. a \in Seq(S) /\ Len(a) = i - 1
        BY <3>1
      <3>3. b \in Seq(S) /\ Len(b) = Len(s) - i /\ b[j - i] = s[j]
        BY <3>1
      <3> HIDE DEF a, b
      <3>4. Len(a \o b) = Len(s) - 1 /\ (a \o b)[j - 1] = b[j - i]
        BY <3>1, <3>2, <3>3, SMTT(40)
      <3>5. j - 1 \in DOMAIN (a \o b)
        BY <3>1, <3>2, <3>3, <3>4
      <3>6. QED
        BY <3>3, <3>4, <3>5 DEF RemoveAt, a, b
    <2>2. QED
      BY <2>1 DEF ToSet
  <1>4. QED
    BY <1>1, <1>2, <1>3

(***************************************************************************)
(* The packet the scheduler thread takes is the only one that leaves the   *)
(* queues.                                                                 *)
(***************************************************************************)
LEMMA TakeFirstSet ==
    ASSUME TypeOK, NEW x, TakeFirst(x)
    PROVE  Queued \subseteq Queued' \cup {x}
  <1>1. /\ outgoing # <<>> => ToSet(outgoing) \subseteq {Head(outgoing)} \cup ToSet(Tail(outgoing))
        /\ undelivered # <<>> => ToSet(undelivered) \subseteq {Head(undelivered)} \cup ToSet(Tail(undelivered))
        /\ closePkts # <<>> => ToSet(closePkts) \subseteq {Head(closePkts)} \cup ToSet(Tail(closePkts))
    BY TailSet DEF TypeOK
  <1>2. QED
    BY <1>1 DEF TakeFirst, Queued

(***************************************************************************)
(* Faults are only used up, and a closed connection is not opened again.   *)
(***************************************************************************)
LEMMA FaultsUsedUp ==
    ASSUME TypeOK, faults <= MaxFaults, [Next]_vars
    PROVE  /\ faults' <= MaxFaults
           /\ Undisturbed' => Undisturbed /\ faults' = faults
  <1> USE DEF queues, deadVars, closeVars, history
  <1>0. faults \in Nat /\ MaxFaults \in Nat
    BY SchedulerAssumption DEF TypeOK
  <1> DEFINE P == /\ closer' = "open" => closer = "open"
                  /\ faults' = faults \/ faults' = faults - 1
  <1>1. ASSUME Callers PROVE P
    <2>1. CASE Notify
      BY <2>1 DEF Notify
    <2>2. CASE \E p \in Packet : SendControl(p) \/ SendClose(p) \/ SendData(p)
      BY <2>2 DEF SendControl, SendClose, SendData
    <2>3. QED
      BY <1>1, <2>1, <2>2 DEF Callers
  <1>2. ASSUME Run PROVE P
    <2>1. CASE TakeToken \/ TakePacket
      BY <2>1 DEF TakeToken, TakePacket
    <2>2. CASE \E c \in Channel : Choose(c)
      BY <2>2 DEF Choose
    <2>3. CASE NoSpace \/ SendNextPacketUsingCh
      BY <2>3 DEF NoSpace, SendNextPacketUsingCh
    <2>4. QED
      BY <1>2, <2>1, <2>2, <2>3 DEF Run
  <1>3. ASSUME Channels PROVE P
    <2>1. PICK c \in Channel :
            \/ AddChannel(c) \/ Started(c) \/ Timeout(c) \/ NetDown(c) \/ Collect(c)
            \/ \E i \in DOMAIN chan[c].held, grows \in BOOLEAN : AckRecv(c, i, grows)
            \/ InitShutdown(c) \/ EnterShutDown(c)
      BY <1>3 DEF Channels
    <2>2. CASE AddChannel(c) \/ Started(c) \/ Timeout(c)
      BY <2>2 DEF AddChannel, Started, Timeout
    <2>3. CASE NetDown(c)
      BY <2>3 DEF NetDown
    <2>4. CASE Collect(c)
      BY <2>4 DEF Collect
    <2>5. CASE \E i \in DOMAIN chan[c].held, grows \in BOOLEAN : AckRecv(c, i, grows)
      BY <2>5 DEF AckRecv
    <2>6. CASE InitShutdown(c) \/ EnterShutDown(c)
      BY <2>6 DEF InitShutdown, EnterShutDown
    <2>7. QED
      BY <2>1, <2>2, <2>3, <2>4, <2>5, <2>6
  <1>4. ASSUME Removal PROVE P
    <2>1. CASE \E S \in SUBSET Channel : InterfaceRemoved(S)
      BY <2>1 DEF InterfaceRemoved, MarkDead
    <2>2. CASE \E S \in SUBSET Channel : RemoveRemote(S)
      BY <2>2 DEF RemoveRemote, MarkDead
    <2>3. CASE AnnounceRemoval \/ Unregister
      BY <2>3 DEF AnnounceRemoval, Unregister
    <2>4. QED
      BY <1>4, <2>1, <2>2, <2>3 DEF Removal
  <1>5. ASSUME Closing PROVE P
    BY <1>5 DEF Closing, Close, ShutDownReturns, FinishClose, GiveLastToken, GiveLastPacket
  <1>6. ASSUME UNCHANGED vars PROVE P
    BY <1>6 DEF vars
  <1>7. P
    BY <1>1, <1>2, <1>3, <1>4, <1>5, <1>6 DEF Next
  <1>8. QED
    <2>1. faults' <= MaxFaults
      BY <1>0, <1>7
    <2>2. ASSUME Undisturbed' PROVE Undisturbed /\ faults' = faults
      <3>1. closer' = "open" /\ faults' = MaxFaults
        BY <2>2 DEF Undisturbed
      <3>2. faults = MaxFaults
        BY <1>0, <1>7, <3>1
      <3>3. QED
        BY <1>7, <3>1, <3>2 DEF Undisturbed
    <2>3. QED
      BY <2>1, <2>2

\* Nothing has been submitted at first.
LEMMA InitKept == Init => KeptInv
  BY SchedulerAssumption DEF Init, KeptInv, ChannelsUp, NoObject

(***************************************************************************)
(* Every action keeps what was submitted in view.                          *)
(***************************************************************************)
LEMMA StepKept == TypeOK /\ KeptInv /\ [Next]_vars => KeptInv'
  <1> SUFFICES ASSUME TypeOK, KeptInv, [Next]_vars PROVE KeptInv'
    OBVIOUS
  <1> USE DEF queues, deadVars, closeVars, history
  <1>0. faults' <= MaxFaults /\ (Undisturbed' => Undisturbed /\ faults' = faults)
    BY FaultsUsedUp DEF KeptInv
  <1> SUFFICES ASSUME Undisturbed' PROVE ChannelsUp' /\ submitted' \subseteq Whereabouts'
    BY <1>0 DEF KeptInv
  <1>1. ChannelsUp /\ submitted \subseteq Whereabouts /\ closer = "open" /\ closer' = "open"
        /\ faults' = faults /\ faults \in Nat
    BY <1>0 DEF KeptInv, Undisturbed, TypeOK
  <1> DEFINE Goal == ChannelsUp' /\ submitted' \subseteq Whereabouts'
  <1>2. ASSUME UNCHANGED <<chan, condemned, collecting, monitor>>,
               sched'.pc = "send" => sched'.ch \in Channel /\ chan[sched'.ch].registered
        PROVE  ChannelsUp' /\ Held' = Held
    BY <1>1, <1>2 DEF ChannelsUp, Held
  <1>3. ASSUME UNCHANGED <<queues, history, chan, condemned, collecting, monitor>>,
               sched'.pc = "send" => sched'.ch \in Channel /\ chan[sched'.ch].registered
        PROVE  Goal
    BY <1>1, <1>2, <1>3 DEF Whereabouts, Queued
  <1>4. ASSUME NEW p \in Packet, SendControl(p) PROVE Goal
    <2>1. UNCHANGED <<outgoing, undelivered, closePkts, delivered, sched, chan, condemned, collecting, monitor>>
          /\ controlPkt' = p /\ submitted' = submitted \cup {p}
          /\ superseded' = superseded \cup ({controlPkt} \ {Null})
      BY <1>4 DEF SendControl, Submit
    <2>2. ChannelsUp' /\ Held' = Held
      BY <1>1, <1>2, <2>1 DEF ChannelsUp
    <2>3. Null \notin submitted
      BY SchedulerAssumption DEF TypeOK
    <2>4. QED
      BY <1>1, <2>1, <2>2, <2>3 DEF Whereabouts, Queued
  <1>5. ASSUME NEW p \in Packet, SendClose(p) PROVE Goal
    <2>1. UNCHANGED <<outgoing, undelivered, controlPkt, delivered, superseded, sched, chan, condemned,
                      collecting, monitor>>
          /\ closePkts' = Append(closePkts, p) /\ submitted' = submitted \cup {p}
      BY <1>5 DEF SendClose, Submit
    <2>2. ChannelsUp' /\ Held' = Held
      BY <1>1, <1>2, <2>1 DEF ChannelsUp
    <2>3. ToSet(closePkts') = ToSet(closePkts) \cup {p}
      BY <2>1, AppendSet DEF TypeOK
    <2>4. QED
      BY <1>1, <2>1, <2>2, <2>3 DEF Whereabouts, Queued
  <1>6. ASSUME NEW p \in Packet, SendData(p) PROVE Goal
    <2>1. UNCHANGED <<closePkts, undelivered, controlPkt, delivered, superseded, sched, chan, condemned,
                      collecting, monitor>>
          /\ outgoing' = Append(outgoing, p) /\ submitted' = submitted \cup {p}
      BY <1>6 DEF SendData, Submit
    <2>2. ChannelsUp' /\ Held' = Held
      BY <1>1, <1>2, <2>1 DEF ChannelsUp
    <2>3. ToSet(outgoing') = ToSet(outgoing) \cup {p}
      BY <2>1, AppendSet DEF TypeOK
    <2>4. QED
      BY <1>1, <2>1, <2>2, <2>3 DEF Whereabouts, Queued
  <1>7. ASSUME Notify PROVE Goal
    BY <1>1, <1>3, <1>7 DEF Notify, ChannelsUp
  <1>8. ASSUME TakeToken \/ TakePacket \/ NoSpace PROVE Goal
    <2>1. UNCHANGED <<queues, history, chan, condemned, collecting, monitor>>
      BY <1>8 DEF TakeToken, TakePacket, NoSpace
    <2>2. sched'.pc # "send"
      BY <1>8 DEF TakeToken, TakePacket, NoSpace, TypeOK, Place
    <2>3. QED
      BY <1>3, <2>1, <2>2
  <1>9. ASSUME NEW c \in Channel, Choose(c) PROVE Goal
    <2>1. UNCHANGED <<queues, history, chan, condemned, collecting, monitor>>
      BY <1>9 DEF Choose
    <2>2. sched'.ch \in Channel /\ chan[sched'.ch].registered
      BY <1>9 DEF Choose, SpaceInCwnd
    <2>3. QED
      BY <1>3, <2>1, <2>2
  <1>10. ASSUME SendNextPacketUsingCh PROVE Goal
    <2> DEFINE c == sched.ch
    <2>1. c \in Channel /\ chan[c].registered /\ ~chan[c].closed /\ ~chan[c].dead
      BY <1>1, <1>10 DEF ChannelsUp, SendNextPacketUsingCh
    <2>2. PICK x \in Item : TakeFirst(x) /\ chan' = [chan EXCEPT ![c].held = Append(@, x)]
      BY <1>10, <2>1 DEF SendNextPacketUsingCh
    <2>3. UNCHANGED <<history, condemned, collecting, monitor>>
      BY <1>10 DEF SendNextPacketUsingCh
    <2>4. sched'.pc # "send"
      BY <1>1, <1>10 DEF SendNextPacketUsingCh
    <2> DEFINE h == Append(chan[c].held, x)
    <2>5. chan' = [chan EXCEPT ![c] = [chan[c] EXCEPT !.held = h]]
      BY <2>2
    <2>6. chan[c] \in Object
      BY <2>1 DEF TypeOK
    <2>7. ToSet(h) = ToSet(chan[c].held) \cup {x}
      BY <2>6, AppendSet DEF Object
    <2> HIDE DEF c, h
    <2>8. \A d \in Channel : chan'[d] = IF d = c THEN [chan[c] EXCEPT !.held = h] ELSE chan[d]
      BY <2>5 DEF TypeOK
    <2>9. [chan[c] EXCEPT !.held = h].held = h
          /\ [chan[c] EXCEPT !.held = h].registered = chan[c].registered
          /\ [chan[c] EXCEPT !.held = h].dead = chan[c].dead
          /\ [chan[c] EXCEPT !.held = h].closed = chan[c].closed
          /\ [chan[c] EXCEPT !.held = h].busy = chan[c].busy
      BY <2>6 DEF Object
    <2>10. ChannelsUp'
      BY <1>1, <2>1, <2>3, <2>4, <2>8, <2>9 DEF ChannelsUp
    <2>11. \A d \in Channel : ToSet(chan[d].held) \subseteq ToSet(chan'[d].held)
      BY <2>7, <2>8, <2>9
    <2>12. x \in ToSet(chan'[c].held)
      BY <2>1, <2>7, <2>8, <2>9
    <2>13. Held \subseteq Held' /\ x \in Held'
      BY <2>1, <2>11, <2>12 DEF Held
    <2>14. Queued \subseteq Queued' \cup {x}
      BY <2>2, TakeFirstSet
    <2>15. QED
      BY <1>1, <2>3, <2>10, <2>13, <2>14 DEF Whereabouts
  <1>11. ASSUME NEW c \in Channel, AddChannel(c) PROVE Goal
    <2> DEFINE obj == [NoObject EXCEPT !.registered = TRUE, !.held = <<Chs>>]
    <2>1. UNCHANGED <<queues, history, condemned, collecting, monitor, sched>>
          /\ ~chan[c].registered /\ chan' = [chan EXCEPT ![c] = obj]
      BY <1>11 DEF AddChannel
    <2>2. obj.registered /\ ~obj.dead /\ ~obj.closed /\ ~obj.busy
      BY DEF NoObject
    <2> HIDE DEF obj
    <2>3. \A d \in Channel : chan'[d] = IF d = c THEN obj ELSE chan[d]
      BY <2>1 DEF TypeOK
    <2>4. ChannelsUp'
      BY <1>1, <2>1, <2>2, <2>3 DEF ChannelsUp
    <2>5. ToSet(chan[c].held) = {}
      BY <1>1, <2>1 DEF ChannelsUp, ToSet
    <2>6. Held \subseteq Held'
      BY <2>3, <2>5 DEF Held
    <2>7. QED
      BY <1>1, <2>1, <2>4, <2>6 DEF Whereabouts, Queued
  <1>12. ASSUME NEW c \in Channel, Started(c) \/ Timeout(c) PROVE Goal
    <2>1. UNCHANGED <<queues, history, condemned, collecting, monitor, sched>>
      BY <1>12 DEF Started, Timeout
    <2>2. \A d \in Channel : /\ chan'[d].held = chan[d].held /\ chan'[d].registered = chan[d].registered
                             /\ chan'[d].dead = chan[d].dead /\ chan'[d].closed = chan[d].closed
                             /\ chan'[d].busy = chan[d].busy
      <3>1. PICK obj : /\ chan' = [chan EXCEPT ![c] = obj]
                       /\ \/ obj = [chan[c] EXCEPT !.started = TRUE]
                          \/ obj = [chan[c] EXCEPT !.cwnd = 1]
        BY <1>12 DEF Started, Timeout
      <3>2. chan[c] \in Object
        BY DEF TypeOK
      <3>3. /\ obj.held = chan[c].held /\ obj.registered = chan[c].registered /\ obj.dead = chan[c].dead
            /\ obj.closed = chan[c].closed /\ obj.busy = chan[c].busy
        BY <3>1, <3>2 DEF Object
      <3>4. \A d \in Channel : chan'[d] = IF d = c THEN obj ELSE chan[d]
        BY <3>1 DEF TypeOK
      <3>5. QED
        BY <3>3, <3>4
    <2>3. ChannelsUp'
      BY <1>1, <2>1, <2>2 DEF ChannelsUp
    <2>4. Held' = Held
      BY <2>2 DEF Held
    <2>5. QED
      BY <1>1, <2>1, <2>3, <2>4 DEF Whereabouts, Queued
  <1>13. ASSUME NEW c \in Channel, NEW i \in DOMAIN chan[c].held, NEW grows \in BOOLEAN,
                AckRecv(c, i, grows)
         PROVE  Goal
    <2> DEFINE h == RemoveAt(chan[c].held, i)
               y == chan[c].held[i]
    <2>1. UNCHANGED <<queues, submitted, superseded, condemned, collecting, monitor, sched>>
          /\ delivered' = delivered \cup {y} /\ chan[c].registered
      BY <1>13 DEF AckRecv, Live
    <2>2. chan[c] \in Object
      BY DEF TypeOK
    <2>3. ToSet(chan[c].held) \subseteq ToSet(h) \cup {y}
      BY <2>2, RemoveAtSet DEF Object
    <2>4. \A d \in Channel : /\ chan'[d].held = IF d = c THEN h ELSE chan[d].held
                             /\ chan'[d].registered = chan[d].registered
                             /\ chan'[d].dead = chan[d].dead /\ chan'[d].closed = chan[d].closed
                             /\ chan'[d].busy = chan[d].busy
      <3> HIDE DEF h
      <3>1. chan' = [chan EXCEPT ![c].held = h,
                                 ![c].cwnd = IF grows THEN @ + 1 ELSE @,
                                 ![c].shut = @ \/ (chan[c].closed /\ chan[c].held[i] = Chf)]
        BY <1>13 DEF AckRecv, h
      <3> DEFINE w == IF grows THEN chan[c].cwnd + 1 ELSE chan[c].cwnd
                 z == chan[c].shut \/ (chan[c].closed /\ chan[c].held[i] = Chf)
                 obj == [chan[c] EXCEPT !.held = h, !.cwnd = w, !.shut = z]
      <3>2. chan' = [chan EXCEPT ![c] = obj]
        BY <3>1
      <3>3. /\ obj.held = h /\ obj.registered = chan[c].registered /\ obj.dead = chan[c].dead
            /\ obj.closed = chan[c].closed /\ obj.busy = chan[c].busy
        <4> HIDE DEF w, z
        <4>1. QED
          BY <2>2 DEF Object
      <3> HIDE DEF obj
      <3>4. \A d \in Channel : chan'[d] = IF d = c THEN obj ELSE chan[d]
        BY <3>2 DEF TypeOK
      <3>5. QED
        BY <3>3, <3>4
    <2> HIDE DEF h, y
    <2>5. ChannelsUp'
      BY <1>1, <2>1, <2>4 DEF ChannelsUp
    <2>6. Held \subseteq Held' \cup {y}
      BY <2>3, <2>4 DEF Held
    <2>7. QED
      BY <1>1, <2>1, <2>5, <2>6 DEF Whereabouts, Queued
  <1>14. ASSUME NEW c \in Channel,
                NetDown(c) \/ Collect(c) \/ InitShutdown(c) \/ EnterShutDown(c)
         PROVE  FALSE
    BY <1>1, <1>14 DEF NetDown, Collect, InitShutdown, EnterShutDown, ChannelsUp
  <1>15. ASSUME NEW S \in SUBSET Channel, InterfaceRemoved(S) \/ RemoveRemote(S) PROVE FALSE
    BY <1>1, <1>15 DEF InterfaceRemoved, RemoveRemote, MarkDead
  <1>16. ~(AnnounceRemoval \/ Unregister \/ Close \/ FinishClose \/ GiveLastToken \/ GiveLastPacket)
    BY <1>1 DEF AnnounceRemoval, Unregister, Close, FinishClose, GiveLastToken, GiveLastPacket, ChannelsUp
  <1>17. ASSUME ShutDownReturns \/ UNCHANGED vars PROVE Goal
    BY <1>1, <1>3, <1>17 DEF ShutDownReturns, vars, ChannelsUp
  <1> HIDE DEF Goal
  <1>18. Goal
    <2>1. Callers => Goal
      BY <1>4, <1>5, <1>6, <1>7 DEF Callers
    <2>2. Run => Goal
      BY <1>8, <1>9, <1>10 DEF Run
    <2>3. Channels => Goal
      BY <1>11, <1>12, <1>13, <1>14 DEF Channels
    <2>4. Removal => Goal
      BY <1>15, <1>16 DEF Removal
    <2>5. Closing \/ UNCHANGED vars => Goal
      BY <1>16, <1>17 DEF Closing
    <2>6. QED
      BY <2>1, <2>2, <2>3, <2>4, <2>5 DEF Next
  <1>19. QED
    BY <1>18 DEF Goal

(***************************************************************************)
(* While nothing is closed and nothing fails, every packet handed to       *)
(* sendPacketTo waits, is held by a channel, was acknowledged or was       *)
(* replaced, for any number of channels and packets and any window.        *)
(***************************************************************************)
THEOREM NothingLost == Spec => []PacketsKept
  <1>1. KeptInv => PacketsKept
    <2> SUFFICES ASSUME KeptInv, Undisturbed PROVE NoPacketLost
      BY DEF PacketsKept, Undisturbed
    <2>1. submitted \subseteq Queued \cup Held \cup delivered \cup superseded
      BY DEF KeptInv, Whereabouts
    <2>2. \A p \in Held : \E c \in Channel : p \in ToSet(chan[c].held)
      BY DEF Held
    <2>3. QED
      BY <2>1, <2>2 DEF Queued, NoPacketLost
  <1>2. QED
    BY <1>1, TypeCorrect, InitKept, StepKept, PTL DEF Spec
=============================================================================
