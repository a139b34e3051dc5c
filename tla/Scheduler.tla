----------------------------- MODULE Scheduler -----------------------------
(***************************************************************************)
(* NewChannelScheculer: hands the packets of all flows of a connection to  *)
(* its channels. Two counting semaphores drive it: waitForToken, given by  *)
(* channels whose window may have opened, and waitForNewPacket, given once *)
(* for every packet put into one of the four places packets wait in.       *)
(*                                                                         *)
(* Threads and their actions:                                              *)
(*   flows, multiplexer   SendControl, SendClose, SendData, Notify         *)
(*   scheduler thread     TakeToken, TakePacket, Choose, NoSpace,          *)
(*                        SendNextPacketUsingCh                            *)
(*   channel threads      Started, AckRecv, Timeout, NetDown               *)
(*   monitor, receiver    AddChannel, InterfaceRemoved, AnnounceRemoval,   *)
(*                        RemoveRemote                                     *)
(*   whoever calls it     Collect, Unregister  (notifyDeadChannel)         *)
(*   application          Close, InitShutdown, EnterShutDown,              *)
(*                        ShutDownReturns, FinishClose, GiveLastToken,     *)
(*                        GiveLastPacket                                   *)
(*                                                                         *)
(* Channels are what Channel.tla shows in detail; here they hold packets   *)
(* until they are acknowledged.                                            *)
(***************************************************************************)
EXTENDS Integers, Sequences, FiniteSets, SequencesExt

CONSTANTS
    Channel,      \* channel ids
    Packet,       \* what flows and multiplexer send
    Control,      \* those with FLAG_CTR
    Finish,       \* those with FLAG_FFN
    Chs, Chf, Ifc, \* packets channels and scheduler make themselves
    QueueSize,    \* SCHEDULER_PACKET_QUEUE_SIZE
    MaxWindow,    \* bound: largest congestion window
    Closes,       \* whether the application calls close()
    FaultKinds,   \* what may go wrong, see the actions that name them
    MaxFaults,    \* bound: how often
    Null

ASSUME SchedulerAssumption ==
    /\ Control \subseteq Packet /\ Finish \subseteq Packet /\ Control \cap Finish = {}
    /\ {Chs, Chf, Ifc, Null} \cap Packet = {} /\ Null \notin {Chs, Chf, Ifc}
    /\ Null \notin Channel
    /\ QueueSize \in Nat \ {0} /\ MaxWindow \in Nat \ {0} /\ MaxFaults \in Nat /\ Closes \in BOOLEAN
    /\ FaultKinds \subseteq {"ifcRemoved", "ackFirst", "netDown"}

VARIABLES
    outgoing,          \* outgoingPacketQueue
    undelivered,       \* undeliveredPacketQueue
    closePkts,         \* closePktsQueue
    controlPkt,        \* the one control packet that waits
    waitForNewPacket,  \* semaphore: packets to schedule
    waitForToken,      \* semaphore: a window may have opened
    owed,              \* notify() calls on waitForNewPacket that threads have
                       \*   yet to make for packets they already queued
    sched,             \* where the scheduler thread is, and with which channel
    chan,              \* the channel objects, see NoObject
    condemned,         \* channels notifyDeadChannel was called for
    collecting,        \* the notifyDeadChannel call that holds deadChannelLock
    monitor,           \* the interface monitor is inside interfaceRemoved
    closer, closing, inside,  \* where close() is, the channels its loop has
                       \*   yet to visit, the one whose shutDown it is in
    submitted, superseded, delivered,   \* history: what became of packets
    faults             \* how many faults may still happen

queues == <<outgoing, undelivered, closePkts, controlPkt>>
history == <<submitted, superseded, delivered>>
closeVars == <<closer, closing, inside>>
deadVars == <<condemned, collecting, monitor>>
vars == <<queues, waitForNewPacket, waitForToken, owed, sched, chan, deadVars,
          closeVars, history, faults>>

Item == Packet \cup {Chs, Chf, Ifc}

(* registered: channelHandlers[c] is set. held: its buffer, in sending order.*)
(* busy: a thread inside notifyDeadChannel holds its sendPacketLock.         *)
(* shut: its FLAG_CHF packet is acknowledged and the peer's arrived.         *)
NoObject == [registered |-> FALSE, started |-> FALSE, closed |-> FALSE, shut |-> FALSE,
             dead |-> FALSE, busy |-> FALSE, held |-> <<>>, cwnd |-> 1]

Init ==
    /\ outgoing = <<>> /\ undelivered = <<>> /\ closePkts = <<>> /\ controlPkt = Null
    /\ waitForNewPacket = 0 /\ waitForToken = 0 /\ owed = 0
    /\ sched = [pc |-> "token", ch |-> Null]
    /\ chan = [c \in Channel |-> NoObject]
    /\ condemned = {} /\ collecting = [ch |-> Null, cnt |-> 0] /\ monitor = FALSE
    /\ closer = "open" /\ closing = {} /\ inside = Null
    /\ submitted = {} /\ superseded = {} /\ delivered = {}
    /\ faults = MaxFaults

WaitToClose == closer \in {"flagged", "tokenGiven", "closed"}

-----------------------------------------------------------------------------
(***************************************************************************)
(* sendPacketTo: a packet is queued, and then announced by Notify. Only    *)
(* one control packet waits: the next one replaces it and is not announced.*)
(***************************************************************************)
Submit(p) ==
    /\ p \in Packet \ submitted
    /\ submitted' = submitted \cup {p}

(* Mutant of SendControl: a replaced control packet is announced again.      *)
SendControlAlwaysNotifies(p) ==
    /\ p \in Control /\ Submit(p)
    /\ controlPkt' = p
    /\ superseded' = superseded \cup ({controlPkt} \ {Null})
    /\ owed' = owed + 1
    /\ UNCHANGED <<outgoing, undelivered, closePkts, waitForNewPacket, waitForToken,
                   sched, chan, deadVars, closeVars, delivered, faults>>

SendControl(p) ==
    /\ p \in Control /\ Submit(p)
    /\ controlPkt' = p
    /\ superseded' = superseded \cup ({controlPkt} \ {Null})
    /\ owed' = IF controlPkt = Null THEN owed + 1 ELSE owed
    /\ UNCHANGED <<outgoing, undelivered, closePkts, waitForNewPacket, waitForToken,
                   sched, chan, deadVars, closeVars, delivered, faults>>

SendClose(p) ==
    /\ p \in Finish /\ Submit(p)
    /\ closePkts' = Append(closePkts, p)
    /\ owed' = owed + 1
    /\ UNCHANGED <<outgoing, undelivered, controlPkt, waitForNewPacket, waitForToken,
                   sched, chan, deadVars, closeVars, superseded, delivered, faults>>

SendData(p) ==
    /\ p \notin Control \cup Finish /\ Submit(p)
    /\ Len(outgoing) < QueueSize
    /\ outgoing' = Append(outgoing, p)
    /\ owed' = owed + 1
    /\ UNCHANGED <<undelivered, closePkts, controlPkt, waitForNewPacket, waitForToken,
                   sched, chan, deadVars, closeVars, superseded, delivered, faults>>

(* Mutant of Notify: one notify() too many.                                  *)
NotifyUnguarded ==
    /\ owed' = owed - 1
    /\ waitForNewPacket' = waitForNewPacket + 1
    /\ UNCHANGED <<queues, waitForToken, sched, chan, deadVars, closeVars, history, faults>>

Notify ==
    /\ owed > 0
    /\ owed' = owed - 1
    /\ waitForNewPacket' = waitForNewPacket + 1
    /\ UNCHANGED <<queues, waitForToken, sched, chan, deadVars, closeVars, history, faults>>

-----------------------------------------------------------------------------
(***************************************************************************)
(* The scheduler thread: run() and schedule(). pc "token" and "packet":    *)
(* waiting for the semaphore; "choose": it took a packet's token; "send":  *)
(* it holds readyToSendLock.                                               *)
(***************************************************************************)
SpaceInCwnd(c) ==
    /\ chan[c].registered /\ chan[c].started /\ ~chan[c].dead /\ ~chan[c].closed
    /\ Len(chan[c].held) < chan[c].cwnd

TakeToken ==
    /\ sched.pc = "token" /\ waitForToken > 0
    /\ waitForToken' = waitForToken - 1
    /\ sched' = [sched EXCEPT !.pc = IF WaitToClose THEN "stopped" ELSE "packet"]
    /\ UNCHANGED <<queues, waitForNewPacket, owed, chan, deadVars, closeVars, history, faults>>

(* Mutant of TakePacket: waitToClose is not looked at again.                 *)
TakePacketIgnoresClose ==
    /\ sched.pc = "packet" /\ waitForNewPacket > 0
    /\ waitForNewPacket' = waitForNewPacket - 1
    /\ sched' = [sched EXCEPT !.pc = "choose"]
    /\ UNCHANGED <<queues, waitForToken, owed, chan, deadVars, closeVars, history, faults>>

TakePacket ==
    /\ sched.pc = "packet" /\ waitForNewPacket > 0
    /\ waitForNewPacket' = waitForNewPacket - 1
    /\ sched' = [sched EXCEPT !.pc = IF WaitToClose THEN "token" ELSE "choose"]
    /\ UNCHANGED <<queues, waitForToken, owed, chan, deadVars, closeVars, history, faults>>

(* The channel with the least round trip time among those with room; times   *)
(* are not modelled.                                                         *)
Choose(c) ==
    /\ sched.pc = "choose" /\ SpaceInCwnd(c)
    /\ sched' = [pc |-> "send", ch |-> c]
    /\ UNCHANGED <<queues, waitForNewPacket, waitForToken, owed, chan, deadVars,
                   closeVars, history, faults>>

(* Mutant of NoSpace: the token taken in vain is not given back.             *)
NoSpaceKeepsToken ==
    /\ sched.pc = "choose" /\ \A c \in Channel : ~SpaceInCwnd(c)
    /\ sched' = [sched EXCEPT !.pc = "token"]
    /\ UNCHANGED <<queues, waitForNewPacket, waitForToken, owed, chan, deadVars,
                   closeVars, history, faults>>

NoSpace ==
    /\ sched.pc = "choose" /\ \A c \in Channel : ~SpaceInCwnd(c)
    /\ waitForNewPacket' = waitForNewPacket + 1
    /\ sched' = [sched EXCEPT !.pc = "token"]
    /\ UNCHANGED <<queues, waitForToken, owed, chan, deadVars, closeVars, history, faults>>

(* The first packet of: control packet, undelivered, closing, outgoing.      *)
TakeFirst(x) ==
    \/ /\ controlPkt # Null /\ x = controlPkt
       /\ controlPkt' = Null /\ UNCHANGED <<outgoing, undelivered, closePkts>>
    \/ /\ controlPkt = Null /\ undelivered # <<>> /\ x = Head(undelivered)
       /\ undelivered' = Tail(undelivered) /\ UNCHANGED <<outgoing, closePkts, controlPkt>>
    \/ /\ controlPkt = Null /\ undelivered = <<>> /\ closePkts # <<>> /\ x = Head(closePkts)
       /\ closePkts' = Tail(closePkts) /\ UNCHANGED <<outgoing, undelivered, controlPkt>>
    \/ /\ controlPkt = Null /\ undelivered = <<>> /\ closePkts = <<>> /\ outgoing # <<>>
       /\ x = Head(outgoing)
       /\ outgoing' = Tail(outgoing) /\ UNCHANGED <<undelivered, closePkts, controlPkt>>

(* The result of sendPacket is ignored: a channel that was closed or marked  *)
(* dead since it was chosen does not take the packet. If the interface turns *)
(* out to be down, the scheduler thread itself calls notifyDeadChannel and   *)
(* waits there for readyToSendLock, which it holds.                          *)
SendNextPacketUsingCh ==
    LET c == sched.ch IN
    /\ sched.pc = "send" /\ ~chan[c].busy
    /\ \E x \in Item :
        /\ TakeFirst(x)
        /\ chan' = IF chan[c].closed \/ chan[c].dead THEN chan
                   ELSE [chan EXCEPT ![c].held = Append(@, x)]
    /\ \/ sched' = [pc |-> "packet", ch |-> Null] /\ faults' = faults
       \/ /\ "netDown" \in FaultKinds /\ faults > 0 /\ faults' = faults - 1
          /\ ~chan[c].closed /\ ~chan[c].dead
          /\ sched' = [sched EXCEPT !.pc = "stuck"]
    /\ UNCHANGED <<waitForNewPacket, waitForToken, owed, deadVars, closeVars, history>>

-----------------------------------------------------------------------------
(***************************************************************************)
(* Channels. Every batch of acknowledgements ends with readyToSend, after  *)
(* its effects; a grown window calls it once more. A timeout closes the    *)
(* window. Nobody calls readyToSend when the peer's channel start packet   *)
(* arrives and makes the channel usable; "ackFirst": it may arrive after   *)
(* the acknowledgement of our own.                                         *)
(***************************************************************************)
Live(c) == chan[c].registered /\ ~chan[c].dead /\ ~chan[c].busy

(* addChannel: does nothing if the channel exists.                           *)
AddChannel(c) ==
    /\ ~chan[c].registered
    /\ chan' = [chan EXCEPT ![c] = [NoObject EXCEPT !.registered = TRUE, !.held = <<Chs>>]]
    /\ UNCHANGED <<queues, waitForNewPacket, waitForToken, owed, sched, deadVars,
                   closeVars, history, faults>>

Started(c) ==
    /\ Live(c) /\ ~chan[c].started
    /\ chan' = [chan EXCEPT ![c].started = TRUE]
    /\ UNCHANGED <<queues, waitForNewPacket, waitForToken, owed, sched, deadVars,
                   closeVars, history, faults>>

(* Mutant of AckRecv: the oldest packet is freed, whichever is acknowledged. *)
AckRecvFreesHead(c, i, grows) ==
    /\ Live(c) /\ i \in DOMAIN chan[c].held
    /\ grows => chan[c].cwnd < MaxWindow
    /\ chan' = [chan EXCEPT ![c].held = Tail(@), ![c].cwnd = IF grows THEN @ + 1 ELSE @]
    /\ waitForToken' = waitForToken + (IF grows THEN 2 ELSE 1)
    /\ delivered' = delivered \cup {chan[c].held[i]}
    /\ UNCHANGED <<queues, waitForNewPacket, owed, sched, deadVars, closeVars,
                   submitted, superseded, faults>>

AckRecv(c, i, grows) ==
    /\ Live(c) /\ i \in DOMAIN chan[c].held
    /\ chan[c].started \/ "ackFirst" \in FaultKinds
    /\ grows => chan[c].cwnd < MaxWindow
    /\ chan' = [chan EXCEPT ![c].held = RemoveAt(@, i),
                            ![c].cwnd = IF grows THEN @ + 1 ELSE @,
                            ![c].shut = @ \/ (chan[c].closed /\ chan[c].held[i] = Chf)]
    /\ waitForToken' = waitForToken + (IF grows THEN 2 ELSE 1)
    /\ delivered' = delivered \cup {chan[c].held[i]}
    /\ UNCHANGED <<queues, waitForNewPacket, owed, sched, deadVars, closeVars,
                   submitted, superseded, faults>>

Timeout(c) ==
    /\ Live(c) /\ chan[c].held # <<>>
    /\ chan' = [chan EXCEPT ![c].cwnd = 1]
    /\ UNCHANGED <<queues, waitForNewPacket, waitForToken, owed, sched, deadVars,
                   closeVars, history, faults>>

-----------------------------------------------------------------------------
(***************************************************************************)
(* Channels go away. The channel is marked dead without any lock and then  *)
(* notifyDeadChannel runs: under deadChannelLock it takes the packets back,*)
(* and under readyToSendLock it forgets the channel.                       *)
(***************************************************************************)
MarkDead(S) ==
    /\ "ifcRemoved" \in FaultKinds /\ faults > 0 /\ faults' = faults - 1
    /\ S # {} /\ \A c \in S : chan[c].registered /\ ~chan[c].dead
    /\ chan' = [c \in Channel |-> IF c \in S THEN [chan[c] EXCEPT !.dead = TRUE] ELSE chan[c]]
    /\ condemned' = condemned \cup S

(* The monitor goes through the channels of the interface and then queues a  *)
(* packet that tells the peer.                                               *)
InterfaceRemoved(S) ==
    /\ ~monitor /\ monitor' = TRUE
    /\ MarkDead(S)
    /\ UNCHANGED <<queues, waitForNewPacket, waitForToken, owed, sched, collecting,
                   closeVars, history>>

AnnounceRemoval ==
    /\ monitor /\ condemned = {} /\ collecting.ch = Null
    /\ monitor' = FALSE
    /\ undelivered' = Append(undelivered, Ifc)
    /\ owed' = owed + 1
    /\ UNCHANGED <<outgoing, closePkts, controlPkt, waitForNewPacket, waitForToken, sched,
                   chan, condemned, collecting, closeVars, history, faults>>

(* The peer said so, or the channel start packet was never acknowledged.     *)
RemoveRemote(S) ==
    /\ MarkDead(S)
    /\ UNCHANGED <<queues, waitForNewPacket, waitForToken, owed, sched, collecting, monitor,
                   closeVars, history>>

(* A channel's own thread finds the interface down: it calls                 *)
(* notifyDeadChannel, holding sendPacketLock, and the channel is not marked. *)
NetDown(c) ==
    /\ "netDown" \in FaultKinds /\ faults > 0 /\ faults' = faults - 1
    /\ Live(c) /\ chan[c].held # <<>>
    /\ chan' = [chan EXCEPT ![c].busy = TRUE]
    /\ condemned' = condemned \cup {c}
    /\ UNCHANGED <<queues, waitForNewPacket, waitForToken, owed, sched, collecting, monitor,
                   closeVars, history>>

Collect(c) ==
    /\ c \in condemned /\ collecting.ch = Null /\ sched.pc # "stuck"
    /\ condemned' = condemned \ {c}
    /\ undelivered' = undelivered \o chan[c].held
    /\ collecting' = [ch |-> c, cnt |-> Len(chan[c].held)]
    /\ chan' = [chan EXCEPT ![c].held = <<>>]
    /\ UNCHANGED <<outgoing, closePkts, controlPkt, waitForNewPacket, waitForToken, owed,
                   sched, monitor, closeVars, history, faults>>

Unregister ==
    /\ collecting.ch # Null /\ sched.pc # "send"
    /\ chan' = [chan EXCEPT ![collecting.ch].registered = FALSE, ![collecting.ch].busy = FALSE]
    /\ collecting' = [ch |-> Null, cnt |-> 0]
    /\ owed' = owed + collecting.cnt
    /\ UNCHANGED <<queues, waitForNewPacket, waitForToken, sched, condemned, monitor,
                   closeVars, history, faults>>

-----------------------------------------------------------------------------
(***************************************************************************)
(* close(): start the shutdown of every channel, wait for each in turn,    *)
(* then stop the scheduler thread. A channel that is gone when its turn    *)
(* comes is skipped; one that goes away during its turn is waited for.     *)
(***************************************************************************)
Close ==
    /\ Closes /\ closer = "open"
    /\ closer' = "init" /\ closing' = Channel
    /\ UNCHANGED <<queues, waitForNewPacket, waitForToken, owed, sched, chan, deadVars,
                   inside, history, faults>>

InitShutdown(c) ==
    /\ closer = "init" /\ c \in closing /\ ~(chan[c].registered /\ chan[c].busy)
    /\ closing' = IF closing = {c} THEN Channel ELSE closing \ {c}
    /\ closer' = IF closing = {c} THEN "shutting" ELSE closer
    /\ chan' = IF ~chan[c].registered \/ chan[c].closed THEN chan
               ELSE [chan EXCEPT ![c].closed = TRUE,
                                 ![c].held = IF chan[c].dead THEN @ ELSE Append(@, Chf)]
    /\ UNCHANGED <<queues, waitForNewPacket, waitForToken, owed, sched, deadVars,
                   inside, history, faults>>

EnterShutDown(c) ==
    /\ closer = "shutting" /\ inside = Null /\ c \in closing
    /\ inside' = IF chan[c].registered THEN c ELSE Null
    /\ closing' = closing \ {c}
    /\ UNCHANGED <<queues, waitForNewPacket, waitForToken, owed, sched, chan, deadVars,
                   closer, history, faults>>

ShutDownReturns ==
    /\ inside # Null /\ chan[inside].shut
    /\ inside' = Null
    /\ UNCHANGED <<queues, waitForNewPacket, waitForToken, owed, sched, chan, deadVars,
                   closer, closing, history, faults>>

FinishClose ==
    /\ closer = "shutting" /\ closing = {} /\ inside = Null
    /\ closer' = "flagged"
    /\ UNCHANGED <<queues, waitForNewPacket, waitForToken, owed, sched, chan, deadVars,
                   closing, inside, history, faults>>

GiveLastToken ==
    /\ closer = "flagged" /\ closer' = "tokenGiven"
    /\ waitForToken' = waitForToken + 1
    /\ UNCHANGED <<queues, waitForNewPacket, owed, sched, chan, deadVars, closing,
                   inside, history, faults>>

(* Mutant of GiveLastPacket: only waitForToken is notified.                  *)
GiveLastPacketForgotten ==
    /\ closer = "tokenGiven" /\ closer' = "closed"
    /\ UNCHANGED <<queues, waitForNewPacket, waitForToken, owed, sched, chan, deadVars,
                   closing, inside, history, faults>>

GiveLastPacket ==
    /\ closer = "tokenGiven" /\ closer' = "closed"
    /\ waitForNewPacket' = waitForNewPacket + 1
    /\ UNCHANGED <<queues, waitForToken, owed, sched, chan, deadVars, closing, inside,
                   history, faults>>

-----------------------------------------------------------------------------
Callers == \/ \E p \in Packet : SendControl(p) \/ SendClose(p) \/ SendData(p)
           \/ Notify
Run == TakeToken \/ TakePacket \/ (\E c \in Channel : Choose(c)) \/ NoSpace
       \/ SendNextPacketUsingCh
Channels == \E c \in Channel :
    \/ AddChannel(c) \/ Started(c) \/ Timeout(c) \/ NetDown(c) \/ Collect(c)
    \/ \E i \in DOMAIN chan[c].held, grows \in BOOLEAN : AckRecv(c, i, grows)
    \/ InitShutdown(c) \/ EnterShutDown(c)
Removal == \/ \E S \in SUBSET Channel : InterfaceRemoved(S) \/ RemoveRemote(S)
           \/ AnnounceRemoval \/ Unregister
Closing == Close \/ ShutDownReturns \/ FinishClose \/ GiveLastToken \/ GiveLastPacket

Next == Callers \/ Run \/ Channels \/ Removal \/ Closing

Spec == Init /\ [][Next]_vars

(* Threads keep running, acknowledgements and the peer's start packet keep   *)
(* coming, and close() goes on once called.                                  *)
Fairness ==
    /\ WF_vars(Run) /\ WF_vars(Notify)
    /\ WF_vars(Unregister) /\ WF_vars(AnnounceRemoval)
    /\ WF_vars(ShutDownReturns) /\ WF_vars(FinishClose) /\ WF_vars(GiveLastToken) /\ WF_vars(GiveLastPacket)
    /\ \A c \in Channel :
        /\ WF_vars(Started(c)) /\ WF_vars(Collect(c))
        /\ WF_vars(\E i \in DOMAIN chan[c].held, grows \in BOOLEAN : AckRecv(c, i, grows))
        /\ WF_vars(InitShutdown(c)) /\ WF_vars(EnterShutDown(c))

FairSpec == Spec /\ Fairness

-----------------------------------------------------------------------------
(* Type invariant.                                                           *)
Place == [pc : {"token", "packet", "choose", "send", "stuck", "stopped"},
          ch : Channel \cup {Null}]
Object == [registered : BOOLEAN, started : BOOLEAN, closed : BOOLEAN, shut : BOOLEAN,
           dead : BOOLEAN, busy : BOOLEAN, held : Seq(Item), cwnd : Nat]

TypeOK ==
    /\ outgoing \in Seq(Packet) /\ undelivered \in Seq(Item) /\ closePkts \in Seq(Packet)
    /\ controlPkt \in Packet \cup {Null}
    /\ waitForNewPacket \in Nat /\ waitForToken \in Nat /\ owed \in Nat
    /\ sched \in Place
    /\ chan \in [Channel -> Object]
    /\ condemned \subseteq Channel
    /\ collecting \in [ch : Channel \cup {Null}, cnt : Nat]
    /\ monitor \in BOOLEAN
    /\ closer \in {"open", "init", "shutting", "flagged", "tokenGiven", "closed"}
    /\ closing \subseteq Channel /\ inside \in Channel \cup {Null}
    /\ submitted \subseteq Packet /\ superseded \subseteq Packet /\ delivered \subseteq Item
    /\ faults \in Nat

Waiting == Len(outgoing) + Len(undelivered) + Len(closePkts)
             + (IF controlPkt = Null THEN 0 ELSE 1)
InHand == IF sched.pc \in {"choose", "send"} THEN 1 ELSE 0

(***************************************************************************)
(* Until close() stops the scheduler, waitForNewPacket counts what waits:  *)
(* every packet in one of the four places is accounted for by the          *)
(* semaphore, the token in the scheduler's hand, or a notify() that some   *)
(* thread is about to make. Fewer tokens would strand packets, more would  *)
(* let the scheduler run into its assert.                                  *)
(***************************************************************************)
TokensMatchPackets ==
    ~WaitToClose => Waiting = waitForNewPacket + owed + InHand + collecting.cnt

(***************************************************************************)
(* APP_ASSERT(pkt) in sendNextPacketUsingCh never fails: whoever took a    *)
(* token finds a packet, also while close() hands out tokens for nothing.  *)
(***************************************************************************)
TokenMeansPacket == sched.pc = "send" => Waiting > 0

(***************************************************************************)
(* "It does not need to store any outgoing packets, as the channel layer   *)
(* ensures the reliability" (docs/protocol.html:131): a packet handed to   *)
(* sendPacketTo waits, is held by a channel, has been acknowledged, or was *)
(* replaced by a later control packet.                                     *)
(***************************************************************************)
NoPacketLost ==
    \A p \in submitted :
        \/ p = controlPkt
        \/ p \in ToSet(outgoing) \cup ToSet(undelivered) \cup ToSet(closePkts)
        \/ \E c \in Channel : p \in ToSet(chan[c].held)
        \/ p \in delivered \cup superseded

(***************************************************************************)
(* While nothing is closed and no interface fails, that is true: no packet *)
(* slips through between queues, channels and acknowledgements, whatever   *)
(* order the threads run in (sendPacketTo, run, deadChannel).              *)
(***************************************************************************)
PacketsKept == closer = "open" /\ faults = MaxFaults => NoPacketLost

(***************************************************************************)
(* "The channel scheduler schedules outgoing packets to one of the         *)
(* channels" (docs/protocol.html:140): as long as a channel is usable, no  *)
(* packet waits for ever.                                                  *)
(***************************************************************************)
IsWaiting(p) == p = controlPkt \/ p \in ToSet(outgoing) \cup ToSet(undelivered) \cup ToSet(closePkts)
Usable(c) == chan[c].registered /\ ~chan[c].dead /\ ~chan[c].closed
QueuesDrain ==
    \A p \in Packet :
        IsWaiting(p) ~> \/ ~IsWaiting(p)
                        \/ closer # "open" \/ \A c \in Channel : ~Usable(c)

(***************************************************************************)
(* close() stops the scheduler thread, whatever it was waiting for.        *)
(***************************************************************************)
SchedulerStops == closer = "closed" ~> sched.pc = "stopped"
=============================================================================
