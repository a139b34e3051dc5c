----------------------------- MODULE Interfaces -----------------------------
(***************************************************************************)
(* Multi-homing: how interfaces that come and go at the client become      *)
(* channels at both ends.                                                  *)
(*                                                                         *)
(* Scripts (routing_config/viscous_up, viscous_down) write the files the   *)
(* routing reads and tell the InterfaceMonitor's thread through a FIFO.    *)
(* The monitor keeps a SendThroughInterface per address and tells the      *)
(* client's channel scheduler, which has one channel for every pair of a   *)
(* local and a remote interface.  A removed interface is announced to the  *)
(* server in a packet with FLAG_IFC; a new channel announces itself.       *)
(***************************************************************************)
EXTENDS Routing

CONSTANTS Ip,           \* addresses of the client, one per interface
          Remote,       \* the server's interface ids
          IfaceOf(_), GwOf(_), AddressOf(_),  \* interface, gateway, remote address
          Table,        \* /proc/net/route when every interface is up
          MaxEvents,    \* bound on network events
          FaultKinds    \* conditions the code does not provide for, see the actions

InterfacesAssumption ==
  /\ Ip \subseteq Nat \ {0} /\ IsFiniteSet(Ip)
  /\ Remote \subseteq Nat \ {0} /\ IsFiniteSet(Remote)
  /\ MaxEvents \in Nat
  /\ FaultKinds \subseteq {"arpLate", "busy", "duringHandshake", "lastInterface", "reorder"}
ASSUME InterfacesAssumption

\* The client is multi-homed: every interface has a gateway of its own, which is that of
\* all its default routes, and routes to every interface of the server.
MultiHomed ==
  /\ Len(Table) \in Nat /\ DOMAIN Table = 1 .. Len(Table)
  /\ \A a, b \in Ip : IfaceOf(a) = IfaceOf(b) => a = b
  /\ \A a \in Ip :
       /\ IfaceOf(a) # Null /\ GwOf(a) # Null
       /\ \E i \in Defaults(Table) : Table[i].iface = IfaceOf(a)
       /\ \A i \in Defaults(Table) : Table[i].iface = IfaceOf(a) => Table[i].gateway = GwOf(a)
       /\ \A r \in Remote : \E i \in DOMAIN Table :
            Table[i].iface = IfaceOf(a) /\ Matches(Table[i], AddressOf(r))

Id == 1 .. Cardinality(Ip)       \* slots of interfaceSender; the code has 16 for 15 ids
Pair == Id \X Remote             \* a channel: its id is (ifcLoc << 4) | ifcRem
File(a) == [iface |-> IfaceOf(a), ip |-> a, gw |-> GwOf(a)]
Event == {"ifup", "ifdown"} \X Ip

VARIABLES up,             \* addresses whose interface is up
          files,          \* the files, by name; the one of address a is called a
          answers,        \* gateways with a MAC address
          pipe,           \* what waits in the monitor's FIFO
          app,            \* the thread in startClient
          mon,            \* the monitor's thread: its event, and where it is
          ip2InterfaceIdMap, nextInterfaceId, interfaceSender,
          remoteAddresses,  \* of the client's scheduler
          hs,             \* addRemote in handShake2: remotes and locals still to do
          channels,       \* channelHandlers: the channel's number, 0 for NULL
          born,           \* number of the last channel
          removals,       \* FLAG_IFC packets that wait in undeliveredPacketQueue
          net,            \* packets on their way to the server
          srv,            \* the server's channels: the number of the peer they know
          events

monVars == <<ip2InterfaceIdMap, nextInterfaceId, interfaceSender>>
schVars == <<remoteAddresses, channels, born>>
vars == <<up, files, answers, pipe, app, mon, monVars, hs, schVars, removals, net, srv, events>>

Idle == [pc |-> "read", id |-> 0, todo |-> {}]
NoSender == [ip |-> 0, iface |-> Null, gw |-> 0]
Sender == [ip : Ip, iface : {IfaceOf(a) : a \in Ip}, gw : {GwOf(a) : a \in Ip}] \cup {NoSender}
Chs(p, n) == [kind |-> "CHS", p |-> p, n |-> n, gone |-> 0]
Ifc(p, n, l) == [kind |-> "IFC", p |-> p, n |-> n, gone |-> l]

Init ==
  /\ up \in SUBSET Ip /\ files \in {[a \in up |-> File(a)], [a \in {} |-> File(a)]}
  /\ answers = {GwOf(a) : a \in Ip} /\ pipe = <<>>
  /\ app = "new" /\ mon = Idle
  /\ ip2InterfaceIdMap = [a \in Ip |-> 0] /\ nextInterfaceId = 0
  /\ interfaceSender = [i \in Id |-> NoSender]
  /\ remoteAddresses = {} /\ hs = [remotes |-> Remote, r |-> 0, l |-> 0, todo |-> {}]
  /\ channels = [p \in Pair |-> 0] /\ born = 0
  /\ removals = {} /\ net = {} /\ srv = [p \in Pair |-> 0]
  /\ events = 0

-----------------------------------------------------------------------------
(* The network changes.  The script opens the FIFO without waiting: it       *)
(* fails, and the event is lost, while the monitor does not read; what two   *)
(* scripts write before the monitor reads is taken for one event ("busy").   *)

Quiet == mon.pc = "read" /\ pipe = <<>>
Settled == hs.remotes = {} /\ hs.r = 0

Tell(e) == pipe' = IF app = "attached" /\ mon.pc = "read" THEN Append(pipe, e) ELSE pipe

Expected ==
  /\ events < MaxEvents /\ events' = events + 1
  /\ app = "attached"
  /\ "busy" \in FaultKinds \/ Quiet

IfUp(a) ==
  /\ Expected /\ a \notin up
  /\ up' = up \cup {a}
  /\ "reorder" \in FaultKinds \/ (net = {} /\ removals = {})
  /\ files' = [b \in DOMAIN files \cup {a} |-> File(b)]
  /\ \/ answers' = answers \cup {GwOf(a)}
     \/ "arpLate" \in FaultKinds /\ answers' = answers \ {GwOf(a)}
  /\ Tell(<<"ifup", a>>)
  /\ UNCHANGED <<app, mon, monVars, hs, schVars, removals, net, srv>>

\* Some other channel still works, and so can tell the server.
Survivor(l) == \E p \in Pair : p[1] # l /\ channels[p] # 0 /\ srv[p] = channels[p]

IfDown(a) ==
  /\ Expected /\ a \in up
  /\ up' = up \ {a}
  /\ "duringHandshake" \in FaultKinds \/ Settled
  /\ "lastInterface" \in FaultKinds \/ Survivor(ip2InterfaceIdMap[a])
  /\ files' = [b \in DOMAIN files \ {a} |-> File(b)]
  /\ Tell(<<"ifdown", a>>)
  /\ UNCHANGED <<answers, app, mon, monVars, hs, schVars, removals, net, srv>>

-----------------------------------------------------------------------------
(* The monitor.                                                              *)

\* The lines of /proc/net/route are those of the interfaces that are up.
Routes == [i \in {j \in DOMAIN Table : \E a \in up : IfaceOf(a) = Table[j].iface} |-> Table[i]]
Addresses == [f \in {IfaceOf(a) : a \in up} |-> CHOOSE a \in up : IfaceOf(a) = f]
Found == GetIpMatrix(files, Routes, Addresses, answers)

\* populateInterfaces: ids for addresses that have none, in their order, and
\* senders for those that have none.  Mutant of NewIdOf: an id is handed out twice.
NewIdOfSame(a) ==
  IF ip2InterfaceIdMap[a] = 0 /\ \E x \in Found : x.ip = a
    THEN nextInterfaceId + 1 ELSE ip2InterfaceIdMap[a]

NewIdOf(a) ==
  LET fresh == {x.ip : x \in {y \in Found : ip2InterfaceIdMap[y.ip] = 0}}
  IN IF a \in fresh THEN nextInterfaceId + Cardinality({b \in fresh : b <= a})
                    ELSE ip2InterfaceIdMap[a]

PopulateInterfaces ==
  /\ ip2InterfaceIdMap' = [a \in Ip |-> NewIdOf(a)]
  /\ nextInterfaceId' = nextInterfaceId
                        + Cardinality({a \in Ip : NewIdOf(a) # ip2InterfaceIdMap[a]})
  /\ interfaceSender' = [i \in Id |->
       IF interfaceSender[i] = NoSender /\ \E x \in Found : NewIdOf(x.ip) = i
         THEN CHOOSE x \in Found : NewIdOf(x.ip) = i ELSE interfaceSender[i]]

\* setupIterface: start() populates before the thread runs; then attach(), and
\* the program ends when there is no interface.
Start ==
  /\ app = "new" /\ app' = "started"
  /\ PopulateInterfaces
  /\ UNCHANGED <<up, files, answers, pipe, mon, hs, schVars, removals, net, srv, events>>

Attach ==
  /\ app = "started"
  /\ app' = IF \A i \in Id : interfaceSender[i] = NoSender THEN "exited" ELSE "attached"
  /\ UNCHANGED <<up, files, answers, pipe, mon, monVars, hs, schVars, removals, net, srv, events>>

\* listenOnNetworkEventHack as far as the loop over the listeners.
ReadUp ==
  /\ mon.pc = "read" /\ pipe # <<>> /\ Head(pipe)[1] = "ifup"
  /\ pipe' = <<>>
  /\ PopulateInterfaces
  /\ LET id == ip2InterfaceIdMap'[Head(pipe)[2]] IN
       mon' = IF \E i \in Id : i = id /\ interfaceSender'[i] # NoSender
                THEN [pc |-> "added", id |-> id, todo |-> remoteAddresses] ELSE Idle
  /\ UNCHANGED <<up, files, answers, app, hs, schVars, removals, net, srv, events>>

ReadDown ==
  /\ mon.pc = "read" /\ pipe # <<>> /\ Head(pipe)[1] = "ifdown"
  /\ pipe' = <<>>
  /\ LET id == ip2InterfaceIdMap[Head(pipe)[2]] IN
       mon' = IF id = 0 THEN Idle ELSE [pc |-> "removed", id |-> id, todo |-> Remote]
  /\ UNCHANGED <<up, files, answers, app, monVars, hs, schVars, removals, net, srv, events>>

\* addChannel: startUp sends the packet that announces the channel.
AddChannel(p) ==
  IF channels[p] # 0 THEN UNCHANGED <<channels, born, net>>
  ELSE /\ channels' = [channels EXCEPT ![p] = born + 1]
       /\ born' = born + 1
       /\ net' = net \cup {Chs(p, born + 1)}

\* Mutant of InterfaceAdded: only the first remote gets a channel.
InterfaceAddedOnce ==
  /\ mon.pc = "added" /\ mon' = Idle
  /\ IF mon.todo = {} THEN UNCHANGED <<channels, born, net>>
                      ELSE AddChannel(<<mon.id, Min(mon.todo)>>)
  /\ UNCHANGED <<up, files, answers, pipe, app, monVars, hs, remoteAddresses, removals, srv, events>>

\* interfaceAdded, one remote after the other.
InterfaceAdded ==
  /\ mon.pc = "added"
  /\ IF mon.todo = {} THEN mon' = Idle /\ UNCHANGED <<channels, born, net>>
     ELSE /\ mon' = [mon EXCEPT !.todo = @ \ {Min(@)}]
          /\ AddChannel(<<mon.id, Min(mon.todo)>>)
  /\ UNCHANGED <<up, files, answers, pipe, app, monVars, hs, remoteAddresses, removals, srv, events>>

\* interfaceRemoved: every channel of the interface dies and gives back its
\* packets, then the announcement is queued.
GivenBack(p) == {m.gone : m \in {x \in net : x.kind = "IFC" /\ x.p = p}}

\* Mutant of InterfaceRemoved: the first channel is taken for the only one.
InterfaceRemovedFirst ==
  /\ mon.pc = "removed"
  /\ mon' = [mon EXCEPT !.pc = "delete"] /\ removals' = removals \cup {mon.id}
  /\ channels' = [channels EXCEPT ![<<mon.id, Min(Remote)>>] = 0]
  /\ UNCHANGED <<up, files, answers, pipe, app, monVars, hs, remoteAddresses, born, net, srv, events>>

\* Mutant of InterfaceRemoved: nobody tells the server.
InterfaceRemovedSilent ==
  /\ mon.pc = "removed"
  /\ IF mon.todo = {} THEN mon' = [mon EXCEPT !.pc = "delete"] /\ UNCHANGED <<channels, net>>
     ELSE LET p == <<mon.id, Min(mon.todo)>> IN
          /\ mon' = [mon EXCEPT !.todo = @ \ {p[2]}]
          /\ channels' = [channels EXCEPT ![p] = 0]
          /\ net' = {m \in net : m.p # p}
  /\ UNCHANGED <<up, files, answers, pipe, app, monVars, hs, remoteAddresses, born, removals, srv, events>>

InterfaceRemoved ==
  /\ mon.pc = "removed"
  /\ IF mon.todo = {}
       THEN /\ mon' = [mon EXCEPT !.pc = "delete"]
            /\ removals' = removals \cup {mon.id}
            /\ UNCHANGED <<channels, net>>
       ELSE LET p == <<mon.id, Min(mon.todo)>> IN
            /\ mon' = [mon EXCEPT !.todo = @ \ {p[2]}]
            /\ channels' = [channels EXCEPT ![p] = 0]
            /\ net' = {m \in net : m.p # p}
            /\ removals' = removals \cup GivenBack(p)
  /\ UNCHANGED <<up, files, answers, pipe, app, monVars, hs, remoteAddresses, born, srv, events>>

\* removeInterface
RemoveInterface ==
  /\ mon.pc = "delete" /\ mon' = Idle
  /\ interfaceSender' = [interfaceSender EXCEPT ![mon.id] = NoSender]
  /\ UNCHANGED <<up, files, answers, pipe, app, ip2InterfaceIdMap, nextInterfaceId, hs, schVars,
                 removals, net, srv, events>>

-----------------------------------------------------------------------------
(* handShake2 on the listener's thread adds the server's interfaces.         *)

Iface == [i \in Id |-> interfaceSender[i].iface]

AddRemote(r) ==
  /\ app = "attached" /\ hs.r = 0 /\ r \in hs.remotes
  /\ remoteAddresses' = remoteAddresses \cup {r}
  /\ hs' = [hs EXCEPT !.remotes = @ \ {r}, !.r = r, !.todo = Id]
  /\ UNCHANGED <<up, files, answers, pipe, app, mon, monVars, channels, born, removals, net, srv, events>>

\* One round of addRemote's loop over the local interfaces: what isReachable read
\* may have changed when the channel is added.
TestLocal ==
  /\ hs.r # 0 /\ hs.l = 0
  /\ IF hs.todo = {} THEN hs' = [hs EXCEPT !.r = 0]
     ELSE LET l == Min(hs.todo) IN
          hs' = [hs EXCEPT !.todo = @ \ {l},
                           !.l = IF IsReachable(Routes, Iface[l], AddressOf(hs.r)) THEN l ELSE 0]
  /\ UNCHANGED <<up, files, answers, pipe, app, mon, monVars, schVars, removals, net, srv, events>>

AddLocal ==
  /\ hs.l # 0 /\ hs' = [hs EXCEPT !.l = 0]
  /\ AddChannel(<<hs.l, hs.r>>)
  /\ UNCHANGED <<up, files, answers, pipe, app, mon, monVars, remoteAddresses, removals, srv, events>>

-----------------------------------------------------------------------------
(* The server.  Its scheduler adds a channel for whoever sends the first     *)
(* packet; channels are reliable, so a packet stays under way until taken.   *)

\* run() of the client's scheduler picks a working channel for an announcement.
SendRemoval(l, p) ==
  /\ l \in removals /\ channels[p] # 0 /\ srv[p] = channels[p]
  /\ removals' = removals \ {l}
  /\ net' = net \cup {Ifc(p, channels[p], l)}
  /\ UNCHANGED <<up, files, answers, pipe, app, mon, monVars, hs, schVars, srv, events>>

RecvChs(m) ==
  /\ m.kind = "CHS"
  /\ srv' = [srv EXCEPT ![m.p] = IF @ = 0 THEN m.n ELSE @]
  /\ net' = net \ {m}
  /\ UNCHANGED <<up, files, answers, pipe, app, mon, monVars, hs, schVars, removals, events>>

\* recvPacketFrom: removeRemote, and then the channel the packet came by must
\* still be there, or the packet is not acknowledged and comes again; it may also
\* come again because its acknowledgement is lost.
RemoveRemote(l) == [p \in Pair |-> IF p[1] = l THEN 0 ELSE srv[p]]

RecvRemoval(m) ==
  /\ m.kind = "IFC"
  /\ srv' = RemoveRemote(m.gone)
  /\ \/ net' = IF srv'[m.p] = 0 THEN net ELSE net \ {m}
     \/ UNCHANGED net
  /\ UNCHANGED <<up, files, answers, pipe, app, mon, monVars, hs, schVars, removals, events>>

-----------------------------------------------------------------------------
Network == \E a \in Ip : IfUp(a) \/ IfDown(a)

Run ==
  \/ Start \/ Attach
  \/ ReadUp \/ ReadDown \/ InterfaceAdded \/ InterfaceRemoved \/ RemoveInterface
  \/ (\E r \in Remote : AddRemote(r)) \/ TestLocal \/ AddLocal
  \/ \E l \in Id, p \in Pair : SendRemoval(l, p)
  \/ \E m \in net : RecvChs(m) \/ RecvRemoval(m)

Next == Network \/ Run
Spec == Init /\ [][Next]_vars

\* The threads run and the channels deliver; every such step uses something up.
FairSpec == Spec /\ WF_vars(Run)

-----------------------------------------------------------------------------
\* Every variable keeps its type.
IfcTypeOK ==
  /\ up \subseteq Ip /\ DOMAIN files \subseteq up /\ answers \subseteq {GwOf(a) : a \in Ip}
  /\ pipe \in Seq(Event)
  /\ app \in {"new", "started", "attached", "exited"}
  /\ mon \in [pc : {"read", "added", "removed", "delete"}, id : Id \cup {0}, todo : SUBSET Remote]
  /\ ip2InterfaceIdMap \in [Ip -> Id \cup {0}] /\ nextInterfaceId \in Id \cup {0}
  /\ interfaceSender \in [Id -> Sender]
  /\ remoteAddresses \subseteq Remote
  /\ hs \in [remotes : SUBSET Remote, r : Remote \cup {0},
            l : Id \cup {0}, todo : SUBSET Id]
  /\ channels \in [Pair -> Nat] /\ born \in Nat /\ srv \in [Pair -> Nat]
  /\ removals \subseteq Id
  /\ net \subseteq [kind : {"CHS", "IFC"}, p : Pair, n : Nat, gone : Id \cup {0}]

\* An interface id names one address for good: no two addresses share one, and the
\* sender kept under it belongs to its address (populateInterfaces).  The peer
\* builds channel ids from it.
IdNamesOneAddress ==
  /\ \A a, b \in Ip : ip2InterfaceIdMap[a] = ip2InterfaceIdMap[b] => a = b \/ ip2InterfaceIdMap[a] = 0
  /\ \A a \in Ip : ip2InterfaceIdMap[a] # 0 =>
        interfaceSender[ip2InterfaceIdMap[a]].ip \in {a, 0}

\* A registered channel has a sender: ChannelHandler::send uses the pointer of its
\* interface without looking.
ChannelsHaveSender == \A p \in Pair : channels[p] # 0 => interfaceSender[p[1]] # NoSender

\* While nothing changes, the client has a channel for every reachable pair of
\* interfaces that are up, and for no others.
ChannelsMatchInterfaces ==
  Quiet /\ Settled /\ app = "attached" =>
    \A p \in Pair : channels[p] # 0 <=> \E a \in up : ip2InterfaceIdMap[a] = p[1]

\* However interfaces come and go, in the end the server has the client's channels
\* and no others (FLAG_IFC, removeRemote).
Agree == srv = channels
ServerFollows == <>[]Agree
=============================================================================
