----------------------------- MODULE Connection -----------------------------
(***************************************************************************)
(* Clients and the server of a Viscous connection: the handshake with its  *)
(* retries, the fingerprints by which the server tells clients apart, the  *)
(* announcement and acceptance of flows, closing from the client's side,   *)
(* and the purge of closed clients.                                        *)
(*                                                                         *)
(* cli[c] is a ClientConnection object.  At the server, c4s[f] is the      *)
(* Client4Server object with fingerprint f, held in the map pendingClients *)
(* until the first packet with its fingerprint arrives and in clients from *)
(* then on.  Datagrams that are no handshake and no close belong to the    *)
(* channels; one of them matters here, the packet that opens a flow, which *)
(* the channel delivers without loss.                                      *)
(***************************************************************************)
EXTENDS Naturals, Sequences, FiniteSets

CONSTANTS Client,      \* ClientConnection objects, in one process or in several
          FpCnt,       \* number of values of a fingerprint (2^16 in the code)
          MaxTries,    \* handshakes before startClient gives up (3)
          MaxCloses,   \* FLAG_CFN packets before close gives up (3)
          FaultKinds,  \* faults that may happen, see the actions
          MaxFaults,   \* bound on lost and duplicated datagrams
          Null

ConnectionAssumption ==
  /\ FpCnt \in Nat \ {0} /\ MaxTries \in Nat \ {0} /\ MaxCloses \in Nat
  /\ MaxFaults \in Nat
  /\ FaultKinds \subseteq {"overlap", "slowSetup", "early", "late"}
  /\ Null \notin Nat

ASSUME ConnectionAssumption

Fp == 0 .. FpCnt - 1
EmptyFp == 0                    \* EMPTY_FINGER_PRINT

VARIABLES cli,             \* the clients
          net,             \* datagrams under way
          nonce2Fp,        \* nonce2FingerPrint, Null where there is no key
          fp2Nonce,        \* fingerPrint2Nonce
          nextId,          \* the static id of generateFingerPrint
          pendingClients,  \* keys of the maps of that name
          clients,
          c4s,             \* the Client4Server objects
          pendingFlow,     \* pendingFlowClientId, 0 where there is no key
          acceptSem,       \* its semaphore
          accepting,       \* fingerprint acceptFlow has chosen, or Null
          faults

serverVars == <<nonce2Fp, fp2Nonce, nextId, pendingClients, clients>>
acceptVars == <<pendingFlow, acceptSem, accepting>>
vars == <<cli, net, serverVars, c4s, acceptVars, faults>>

\* TempClientNonce: the server's address and port and localAddr.sin_port.  The
\* constructor sets localAddr to zero and nothing sets it afterwards.
NonceOf(c) == <<"serverAddress", 0>>
Nonce == {NonceOf(c) : c \in Client}

ASSUME NonceAssumption == Null \notin Nonce

AppState == {"idle", "setup", "starting", "up", "failed", "closing",
             "waiting", "closed", "left", "stuck", "gone"}

ClientObj == [app : AppState, connected : BOOLEAN, fp : Fp,
              tries : 0 .. MaxTries, posted : BOOLEAN,
              closeTry : 0 .. MaxCloses + 1, locked : BOOLEAN,
              flow : {"none", "open", "closed"}]

NewClient == [app |-> "idle", connected |-> FALSE, fp |-> EmptyFp, tries |-> 0,
              posted |-> FALSE, closeTry |-> 0, locked |-> FALSE, flow |-> "none"]

Syn(c)       == [kind |-> "SYN", cl |-> c, fp |-> EmptyFp]
SynAck(c, f) == [kind |-> "SYNACK", cl |-> c, fp |-> f]
Ack(c)       == [kind |-> "ACK", cl |-> c, fp |-> cli[c].fp]
Cfn(c)       == [kind |-> "CFN", cl |-> c, fp |-> cli[c].fp]
CfnAck(c)    == [kind |-> "CFNACK", cl |-> c, fp |-> EmptyFp]
FlowPkt(c)   == [kind |-> "FLOW", cl |-> c, fp |-> cli[c].fp]

Message == [kind : {"SYN", "SYNACK", "ACK", "CFN", "CFNACK", "FLOW"},
            cl : Client, fp : Fp]

\* sch: ifcSch is not NULL; children: flows of the multiplexer; waiting: those
\* acceptFlow has not returned yet; announce: newFlowNoticfication is due.
ServerObj == [queue : Seq(Message), sch : BOOLEAN, closed : BOOLEAN,
              children : Nat, waiting : Nat, announce : BOOLEAN]

NewServerObj == [queue |-> <<>>, sch |-> TRUE, closed |-> FALSE,
                 children |-> 0, waiting |-> 0, announce |-> FALSE]

Init ==
  /\ cli = [c \in Client |-> NewClient]
  /\ net = {}
  /\ nonce2Fp = [n \in Nonce |-> Null] /\ fp2Nonce = [f \in Fp |-> Null]
  /\ nextId = 1
  /\ pendingClients = {} /\ clients = {}
  /\ c4s = [f \in Fp |-> NewServerObj]
  /\ pendingFlow = [f \in Fp |-> 0] /\ acceptSem = 0 /\ accepting = Null
  /\ faults = 0

-----------------------------------------------------------------------------
(* The client. *)

Set(c, r) == cli' = [cli EXCEPT ![c] = r]
SetObj(f, o) == c4s' = [c4s EXCEPT ![f] = o]
ClientOnly == UNCHANGED <<serverVars, c4s, acceptVars, faults>>

\* A process is done with its connection and the server has forgotten it.
Forgotten(c) == /\ cli[c].app \in {"idle", "closed", "left", "stuck", "gone"}
                /\ pendingClients = {} /\ clients = {}

\* startClient as far as setupIterface.  The timer and listener threads run from
\* here on.  Unless "overlap" is among the faults one client runs at a time.
StartClient(c) ==
  /\ cli[c].app = "idle"
  /\ "overlap" \in FaultKinds \/ \A d \in Client \ {c} : Forgotten(d)
  /\ Set(c, [cli[c] EXCEPT !.app = "setup"])
  /\ UNCHANGED net /\ ClientOnly

\* handShake1, called by startClient and again by the timer.
SendSyn(c, app) ==
  /\ Set(c, [cli[c] EXCEPT !.app = app, !.tries = @ + 1])
  /\ net' = net \cup {Syn(c)}

HandShake1(c) ==
  /\ cli[c].app = "setup"
  /\ SendSyn(c, "starting")
  /\ ClientOnly

\* The rest of startClient, behind sem_wait.
StartReturns(c) ==
  /\ cli[c].app = "starting" /\ cli[c].posted
  /\ Set(c, [cli[c] EXCEPT !.posted = FALSE,
                           !.app = IF cli[c].connected THEN "up" ELSE "failed"])
  /\ UNCHANGED net /\ ClientOnly

\* close1: the next FLAG_CFN, or, when there were enough, the end of the wait.
WakeCloser(r) == [r EXCEPT !.app = IF @ = "waiting" THEN "closed" ELSE @,
                           !.locked = IF r.app = "waiting" THEN FALSE ELSE @]

\* Mutant of Close1: giving up without waking the closer.
Close1Silent(c, r) ==
  IF r.closeTry >= MaxCloses
    THEN Set(c, [r EXCEPT !.closeTry = MaxCloses + 1]) /\ UNCHANGED net
    ELSE Set(c, [r EXCEPT !.closeTry = @ + 1]) /\ net' = net \cup {Cfn(c)}

Close1(c, r) ==
  IF r.closeTry >= MaxCloses
    THEN /\ Set(c, WakeCloser([r EXCEPT !.closeTry = MaxCloses + 1]))
         /\ UNCHANGED net
    ELSE /\ Set(c, [r EXCEPT !.closeTry = @ + 1])
         /\ net' = net \cup {Cfn(c)}

\* The timer and listener threads of c run.
Running(c) == cli[c].app \in AppState \ {"idle", "closed", "gone"}

\* timeoutEvent before the handshake is over, a second after the last attempt,
\* when an answer should have been there ("early": although it may come yet).
\* In setup it finds syncTries = 0 and syncTime = 0 ("slowSetup").
\* Mutant of RetryHandShake: the last attempt does not post waitToConnect.
RetryHandShakeSilent(c) ==
  /\ cli[c].app = "starting" /\ cli[c].tries \in 1 .. MaxTries - 1
  /\ \A m \in net : m.cl = c => m.kind \notin {"SYN", "SYNACK"}
  /\ SendSyn(c, cli[c].app) /\ ClientOnly

RetryHandShake(c) ==
  /\ Running(c) /\ ~cli[c].connected
  /\ cli[c].app = "setup" => "slowSetup" \in FaultKinds
  /\ \/ "early" \in FaultKinds
     \/ \A m \in net : m.cl = c => m.kind \notin {"SYN", "SYNACK"}
  /\ IF cli[c].tries \in 1 .. MaxTries - 1
       THEN SendSyn(c, cli[c].app)
       ELSE /\ Set(c, [cli[c] EXCEPT !.posted = TRUE]) /\ UNCHANGED net
  /\ ClientOnly

\* timeoutEvent during close.
RetryClose(c) ==
  /\ Running(c) /\ cli[c].connected /\ cli[c].closeTry > 0
  /\ Close1(c, cli[c])
  /\ ClientOnly

\* addNewFlow and the first sendData; closeFlow returns after the server got it.
OpenFlow(c) ==
  /\ cli[c].app = "up" /\ cli[c].flow = "none"
  /\ Set(c, [cli[c] EXCEPT !.flow = "open"])
  /\ net' = net \cup {FlowPkt(c)}
  /\ ClientOnly

CloseFlow(c) ==
  /\ cli[c].app = "up" /\ cli[c].flow = "open"
  /\ FlowPkt(c) \notin net
  /\ c4s[cli[c].fp].queue = <<>>
  /\ Set(c, [cli[c] EXCEPT !.flow = "closed"])
  /\ UNCHANGED net /\ ClientOnly

\* close() up to waitToClose.wait().  The early return keeps threadSafetyUsr.
Close(c) ==
  /\ cli[c].app \in {"up", "failed"}
  /\ cli[c].flow # "open"                    \* asserted by Multiplexer::close
  /\ IF cli[c].closeTry > 0 \/ ~cli[c].connected
       THEN Set(c, [cli[c] EXCEPT !.app = "left", !.locked = TRUE]) /\ UNCHANGED net
       ELSE Close1(c, [cli[c] EXCEPT !.app = "closing", !.locked = TRUE])
  /\ ClientOnly

\* waitToClose.wait(): from here on a notify() counts.
WaitToClose(c) ==
  /\ cli[c].app = "closing"
  /\ Set(c, [cli[c] EXCEPT !.app = "waiting"])
  /\ UNCHANGED net /\ ClientOnly

\* The destructor calls close() once more.
Destroy(c) ==
  /\ cli[c].app \in {"left", "closed"}
  /\ Set(c, [cli[c] EXCEPT !.app = IF cli[c].locked THEN "stuck" ELSE "gone",
                           !.locked = TRUE])
  /\ UNCHANGED net /\ ClientOnly

-----------------------------------------------------------------------------
(* Datagrams arrive, are lost and are duplicated; the net does not keep them *)
(* in order.  FLOW packets stand for what a channel delivers exactly once.   *)

Take(m) ==
  \/ /\ net' = net \ {m} /\ UNCHANGED faults
  \/ /\ m.kind # "FLOW" /\ faults < MaxFaults
     /\ net' = net /\ faults' = faults + 1

\* A lost FLAG_SYN is not counted, MaxTries bounds it.
Lose(m) ==
  /\ m.kind # "FLOW"
  /\ IF m.kind = "SYN" THEN UNCHANGED faults
                       ELSE faults < MaxFaults /\ faults' = faults + 1
  /\ net' = net \ {m}
  /\ UNCHANGED <<cli, serverVars, c4s, acceptVars>>

\* The net after m was taken and `sent` was sent in answer.
Answer(m, sent) ==
  \/ /\ net' = (net \ {m}) \cup sent /\ UNCHANGED faults
  \/ /\ faults < MaxFaults
     /\ net' = net \cup sent /\ faults' = faults + 1

\* Datagrams for a client whose socket is closed.
Refused(m) ==
  /\ m.kind \in {"SYNACK", "CFNACK"} /\ ~Running(m.cl)
  /\ net' = net \ {m}
  /\ UNCHANGED <<cli, serverVars, c4s, acceptVars, faults>>

\* recvPacketFromQueue with FLAG_SYN | FLAG_ACK, which is handShake2, whatever
\* the client is doing.
HandShake2(m) ==
  /\ m.kind = "SYNACK" /\ Running(m.cl)
  /\ Set(m.cl, [cli[m.cl] EXCEPT !.fp = m.fp, !.connected = TRUE, !.tries = 0,
                                 !.posted = TRUE])
  /\ Answer(m, {[kind |-> "ACK", cl |-> m.cl, fp |-> m.fp]})
  /\ UNCHANGED <<serverVars, c4s, acceptVars>>

\* close2.  ConditionalWait::notify does nothing unless somebody waits.
Close2(m) ==
  /\ m.kind = "CFNACK" /\ Running(m.cl)
  /\ Set(m.cl, WakeCloser(cli[m.cl]))
  /\ Answer(m, {Ack(m.cl)})
  /\ UNCHANGED <<serverVars, c4s, acceptVars>>

-----------------------------------------------------------------------------
(* The server: ServerConnection::recvPacketFrom on the listener thread, the  *)
(* thread of each Client4Server, the application in acceptFlow, the timer.   *)

\* generateFingerPrint
NextFp == nextId % FpCnt

RecvSyn(m) ==
  LET n == NonceOf(m.cl) IN
  /\ m.kind = "SYN"
  /\ IF nonce2Fp[n] = Null
       THEN /\ nonce2Fp' = [nonce2Fp EXCEPT ![n] = NextFp]
            /\ fp2Nonce' = [fp2Nonce EXCEPT ![NextFp] = n]
            /\ nextId' = nextId + 1
            /\ pendingClients' = pendingClients \cup {NextFp}
            /\ SetObj(NextFp, NewServerObj)
            /\ Answer(m, {SynAck(m.cl, NextFp)})
       ELSE /\ UNCHANGED <<nonce2Fp, fp2Nonce, nextId, pendingClients, c4s>>
            /\ Answer(m, {SynAck(m.cl, nonce2Fp[n])})
  /\ UNCHANGED <<cli, clients, acceptVars>>

\* Mutant of RecvKnown: the client leaves pendingClients and enters no other map.
RecvKnownDrops(m) ==
  /\ m.kind \in {"ACK", "CFN", "FLOW"} /\ m.fp \in clients \cup pendingClients
  /\ pendingClients' = pendingClients \ {m.fp}
  /\ SetObj(m.fp, [c4s[m.fp] EXCEPT !.queue = Append(@, m)])
  /\ Take(m)
  /\ UNCHANGED <<cli, nonce2Fp, fp2Nonce, nextId, clients, acceptVars>>

\* A packet with a known fingerprint goes to the queue of its Client4Server; the
\* first one makes a pending client an active one.
RecvKnown(m) ==
  /\ m.kind \in {"ACK", "CFN", "FLOW"}
  /\ m.fp \in clients \cup pendingClients
  /\ pendingClients' = pendingClients \ {m.fp}
  /\ clients' = clients \cup {m.fp}
  /\ SetObj(m.fp, [c4s[m.fp] EXCEPT !.queue = Append(@, m)])
  /\ Take(m)
  /\ UNCHANGED <<cli, nonce2Fp, fp2Nonce, nextId, acceptVars>>

\* Any other is dropped, FLAG_CFN after an answer.
RecvUnknown(m) ==
  /\ m.kind \in {"ACK", "CFN", "FLOW"}
  /\ m.fp \notin clients \cup pendingClients
  /\ Answer(m, IF m.kind = "CFN" THEN {CfnAck(m.cl)} ELSE {})
  /\ UNCHANGED <<cli, serverVars, c4s, acceptVars>>

\* Client4Server::run for the packet at the head of its queue.
RunClose(f) ==
  /\ f \in clients /\ ~c4s[f].announce
  /\ c4s[f].queue # <<>> /\ Head(c4s[f].queue).kind = "CFN"
  /\ SetObj(f, [c4s[f] EXCEPT !.queue = Tail(@), !.sch = FALSE, !.closed = TRUE])
  /\ net' = net \cup {CfnAck(Head(c4s[f].queue).cl)}
  /\ UNCHANGED <<cli, serverVars, acceptVars, faults>>

\* recvPacketAfterThread: the multiplexer makes a child for a new flow.
RunPacket(f) ==
  LET new == Head(c4s[f].queue).kind = "FLOW" IN
  /\ f \in clients /\ ~c4s[f].announce
  /\ c4s[f].queue # <<>> /\ Head(c4s[f].queue).kind # "CFN"
  /\ SetObj(f, [c4s[f] EXCEPT !.queue = Tail(@), !.announce = new,
                             !.children = IF new THEN @ + 1 ELSE @,
                             !.waiting = IF new THEN @ + 1 ELSE @])
  /\ UNCHANGED <<cli, net, serverVars, acceptVars, faults>>

\* Mutant of NewFlowNoticfication: acceptFlow is not told.
NewFlowNoticficationSilent(f) ==
  /\ c4s[f].announce
  /\ SetObj(f, [c4s[f] EXCEPT !.announce = FALSE])
  /\ pendingFlow' = [pendingFlow EXCEPT ![f] = @ + 1]
  /\ UNCHANGED <<cli, net, serverVars, accepting, acceptSem, faults>>

NewFlowNoticfication(f) ==
  /\ c4s[f].announce
  /\ SetObj(f, [c4s[f] EXCEPT !.announce = FALSE])
  /\ pendingFlow' = [pendingFlow EXCEPT ![f] = @ + 1]
  /\ acceptSem' = acceptSem + 1
  /\ UNCHANGED <<cli, net, serverVars, accepting, faults>>

\* acceptFlow under acceptLock; pendingFlowClientId.begin() may be any key.
AcceptFlow(f) ==
  /\ accepting = Null /\ acceptSem > 0 /\ pendingFlow[f] > 0
  /\ acceptSem' = acceptSem - 1
  /\ pendingFlow' = [pendingFlow EXCEPT ![f] = @ - 1]
  /\ accepting' = f
  /\ UNCHANGED <<cli, net, serverVars, c4s, faults>>

\* acceptFlow behind the lock: clients[fngrPrnt]->acceptFlow().
AcceptFrom(f) ==
  /\ accepting = f /\ f \in clients /\ c4s[f].waiting > 0
  /\ SetObj(f, [c4s[f] EXCEPT !.waiting = @ - 1])
  /\ accepting' = Null
  /\ UNCHANGED <<cli, net, serverVars, pendingFlow, acceptSem, faults>>

\* The application has read an accepted flow to its end and closed it.
EndFlow(f) ==
  /\ f \in clients /\ c4s[f].children > c4s[f].waiting
  /\ \E c \in Client : cli[c].fp = f /\ cli[c].flow = "closed"
  /\ SetObj(f, [c4s[f] EXCEPT !.children = @ - 1])
  /\ UNCHANGED <<cli, net, serverVars, acceptVars, faults>>

\* Mutant of IsClosed: flows nobody has accepted yet do not count.
IsClosedEarly(f) == c4s[f].closed

IsClosed(f) == c4s[f].closed /\ c4s[f].children = 0

\* Nothing of f has been under way for a while: the purge asks for five seconds
\* without a FLAG_CFN, far more than the retries and the path take ("late").
Settled(f) ==
  /\ c4s[f].queue = <<>>
  /\ \A m \in net : m.fp # f /\ m.kind # "SYN"
  /\ \A c \in Client : cli[c].fp = f =>
        cli[c].app \in {"closed", "left", "stuck", "gone"}

\* Mutant of Purge: the nonce keeps leading to the fingerprint.
PurgeKeepsNonce(f) ==
  /\ f \in clients /\ IsClosed(f) /\ Settled(f)
  /\ clients' = clients \ {f} /\ fp2Nonce' = [fp2Nonce EXCEPT ![f] = Null]
  /\ UNCHANGED <<cli, net, nonce2Fp, nextId, pendingClients, c4s, acceptVars, faults>>

\* timeoutEvent of the server.
Purge(f) ==
  /\ f \in clients /\ IsClosed(f)
  /\ "late" \in FaultKinds \/ Settled(f)
  /\ clients' = clients \ {f}
  /\ IF fp2Nonce[f] = Null
       THEN UNCHANGED <<nonce2Fp, fp2Nonce>>
       ELSE /\ nonce2Fp' = [nonce2Fp EXCEPT ![fp2Nonce[f]] = Null]
            /\ fp2Nonce' = [fp2Nonce EXCEPT ![f] = Null]
  /\ UNCHANGED <<cli, net, nextId, pendingClients, c4s, acceptVars, faults>>

-----------------------------------------------------------------------------
ClientStep(c) ==
  \/ StartClient(c) \/ HandShake1(c) \/ StartReturns(c) \/ RetryHandShake(c)
  \/ RetryClose(c) \/ OpenFlow(c) \/ CloseFlow(c) \/ Close(c) \/ WaitToClose(c)
  \/ Destroy(c)

Arrive(m) ==
  \/ HandShake2(m) \/ Close2(m) \/ RecvSyn(m) \/ RecvKnown(m) \/ RecvUnknown(m)
  \/ Refused(m)

ServerStep(f) ==
  \/ RunClose(f) \/ RunPacket(f) \/ NewFlowNoticfication(f) \/ AcceptFlow(f)
  \/ AcceptFrom(f) \/ EndFlow(f) \/ Purge(f)

Next ==
  \/ \E c \in Client : ClientStep(c)
  \/ \E m \in net : Arrive(m) \/ Lose(m)
  \/ \E f \in Fp : ServerStep(f)

Spec == Init /\ [][Next]_vars

\* Threads run on and the timers come back every 200 ms.  Every step uses up a
\* message, a retry or an announcement, so it is enough that they do
\* not all stop at once.
OwnStep(c) ==
  \/ HandShake1(c) \/ StartReturns(c) \/ RetryHandShake(c) \/ RetryClose(c)
  \/ WaitToClose(c)

Progress ==
  \/ \E c \in Client : OwnStep(c)
  \/ \E f \in Fp : ServerStep(f)
  \/ \E m \in net : Arrive(m)

FairSpec == Spec /\ WF_vars(Progress)

-----------------------------------------------------------------------------
\* Every variable keeps its type; nextId is the code's 32-bit counter.
ConnTypeOK ==
  /\ cli \in [Client -> ClientObj]
  /\ net \subseteq Message
  /\ nonce2Fp \in [Nonce -> Fp \cup {Null}]
  /\ fp2Nonce \in [Fp -> Nonce \cup {Null}]
  /\ nextId \in Nat
  /\ pendingClients \subseteq Fp /\ clients \subseteq Fp
  /\ c4s \in [Fp -> ServerObj]
  /\ pendingFlow \in [Fp -> Nat] /\ acceptSem \in Nat
  /\ accepting \in Fp \cup {Null}
  /\ faults \in Nat

\* From the moment startClient returns success until the client closes, the
\* server holds an open Client4Server under the client's fingerprint
\* (recvPacketFrom and timeoutEvent of ServerConnection).
ServedWhileUp ==
  \A c \in Client : cli[c].app = "up" =>
    /\ cli[c].fp \in pendingClients \cup clients
    /\ ~c4s[cli[c].fp].closed /\ c4s[cli[c].fp].sch

\* "Fingerprint: It is the client's unique ID generated by the server"
\* (docs/protocol.html): two connected clients never have the same. Does not hold when
\* two clients of one process connect at once: see "Further disagreements" in the README.
FingerprintUnique ==
  \A c, d \in Client :
    /\ c # d /\ cli[c].app = "up" /\ cli[d].app = "up"
    => cli[c].fp # cli[d].fp

\* acceptFlow finds the client it was woken for: neither the map of waiting
\* flows nor the map of clients has lost the key in the meantime.
AcceptFindsClient ==
  /\ accepting # Null => accepting \in clients /\ c4s[accepting].waiting > 0
  /\ acceptSem > 0 => \E f \in Fp : pendingFlow[f] > 0
  /\ \A f \in Fp : pendingFlow[f] > 0 => f \in clients

\* The two maps between nonces and fingerprints are inverse to each other, and
\* every client object the server holds can be found by its nonce.
MapsAgree ==
  /\ \A n \in Nonce : nonce2Fp[n] # Null => fp2Nonce[nonce2Fp[n]] = n
  /\ \A f \in pendingClients \cup clients : fp2Nonce[f] # Null /\ nonce2Fp[fp2Nonce[f]] = f

\* startClient returns, however many datagrams are lost.
StartEnds == \A c \in Client : cli[c].app = "starting" ~> cli[c].app # "starting"

\* close() returns: the answer, or else the timer, wakes it, even when the answer
\* comes before the wait begins.
CloseEnds == \A c \in Client : cli[c].app = "closing" ~> cli[c].app \in {"closed", "gone"}

\* A client the server closed is forgotten in the end, after its flows have been
\* accepted and read.
ClosedIsForgotten == \A f \in Fp : c4s[f].closed /\ f \in clients ~> f \notin clients

=============================================================================
