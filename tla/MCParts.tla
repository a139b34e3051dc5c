------------------------------ MODULE MCParts ------------------------------
(***************************************************************************)
(* Instances of the parts of the program that the channels stand on and    *)
(* that share nothing with each other: the interfaces of a client, the     *)
(* threads that send frames, those that receive, the pools of threads and  *)
(* what they wait on, their queues and packets, the channel and the flow   *)
(* handlers that are not the default, the multiplexer with several flows,   *)
(* and pure algorithms on every input of a small set.                     *)
(* A behaviour is about one of these parts.                                *)
(***************************************************************************)
EXTENDS Interfaces, Frames, ThreadPool, Receiver, FreeThreads, CircularBuffer, ToZeroCounter,
        BasicChannel, LLQueue, PacketPool, StreamHandler, StopNWait, Multiplexer

MCIface(a) == <<"eth0", "wlan0", "wwan0">>[a]
MCGw(a) == a + 3
MCAddress(r) == 7
MCTable == [i \in 1 .. 3 |->
  [iface |-> MCIface(i), destination |-> 0, gateway |-> MCGw(i), mask |-> 0]]

ASSUME MultiHomedAssumption == MultiHomed

MCStreamWritesOf == [p \in Side |-> IF p = "initiator" THEN 5 ELSE 1]

MCStopWritesOf == [p \in StopEnd |-> IF p = "first" THEN 4 ELSE 1]

MCDatagram == {[door |-> 1, dst |-> 1, len |-> 2], [door |-> 1, dst |-> 2, len |-> 3],
               [door |-> 2, dst |-> 1, len |-> 0]}

\* Routing tables of up to three entries, and the senders there are.
IfaceNames == {"eth0", "wlan0"}
ASSUME IfaceNamesAssumption == Null \notin IfaceNames
Entries == [iface : IfaceNames, destination : {0}, gateway : {4, 5}, mask : {0}]
           \cup [iface : IfaceNames, destination : {4}, gateway : {0}, mask : {1, 2, 3}]
Tables == UNION {[1 .. n -> Entries] : n \in 0 .. 3}
RoutingInputs ==
  [table : Tables, iface : {<<"eth0", "wlan0">>, <<"wlan0", Null>>, <<Null, Null>>}]

\* Packets with up to as many optional headers as are too many; their numbers fit in
\* their fields.
ASSUME FieldsFitAssumption == Nibble >= 4
Options == {[type |-> "ACK", info |-> <<17, 200>>], [type |-> "IP", info |-> <<2, 3, 4711>>],
            [type |-> "NONCE", info |-> <<815>>], [type |-> "CHANGE", info |-> <<9, 4>>],
            [type |-> "READ", info |-> <<<<1, 2>>, <<3, 40>>>>]}
Carrying(o, d) ==
  [version |-> 1, ifcsrc |-> 3, ifcdst |-> 6, flag |-> 33, seqNo |-> 255, ackNo |-> 16,
   window |-> 15, fingerPrint |-> 0, flowId |-> 9, flowSeqNo |-> 77, origAckNo |-> 240,
   padding |-> 0, sentTS |-> 123456, opt |-> o, data |-> d]
Packets ==
  {Carrying(o, d) : o \in UNION {[1 .. n -> Options] : n \in 0 .. Nibble}, d \in {<<>>, <<7, 0, 9>>}}
WireInputs == [pkt : Packets]

ChecksumInputs ==
  {[ip |-> [src |-> s, dst |-> 258], udp |-> [source |-> 200, dest |-> d, len |-> 8 + Len(p)],
    payload |-> p] :
     s \in {0, 65535, 4660}, d \in {0, 255}, p \in UNION {[1 .. n -> {0, 1, 15}] : n \in 0 .. 4}}

VARIABLES part, input
partsVars == <<part, input, vars, framesVars, poolVars, recvVars, ftVars, ringVars, counterVars,
              bchVars, qVars, packetVars, streamVars, snwVars, muxVars>>

Inputs == [routing |-> RoutingInputs, wire |-> WireInputs, checksum |-> ChecksumInputs]

PartsInit ==
  /\ part \in {"interfaces", "frames", "pool", "receiver", "slots", "ring", "counter",
             "channel", "queue", "packets", "stream", "stopnwait", "flows"} \cup DOMAIN Inputs
  /\ input \in IF part \in DOMAIN Inputs THEN Inputs[part] ELSE {Null}
  /\ Init /\ (part # "interfaces" => up = {} /\ files = [a \in {} |-> File(a)])
  /\ FramesInit /\ (part # "frames" => msgPool.reuse)
  /\ PoolInit /\ (part # "pool" => poolSize = 1)
  /\ RecvInit /\ FreeThreadsInit /\ RingInit /\ CounterInit
  /\ BasicInit /\ (part # "channel" => sack)
  /\ QueueInit /\ (part # "queue" => maxQueueSize = 0)
  /\ PacketPoolInit /\ (part # "packets" => pooled) /\ StreamInit /\ StopInit
  /\ MultiplexerInit

\* The steps of part p, of which changed are the variables.
Only(p) ==
  /\ part = p /\ UNCHANGED <<part, input>>
  /\ p # "interfaces" => UNCHANGED vars
  /\ p # "frames" => UNCHANGED framesVars
  /\ p # "pool" => UNCHANGED poolVars
  /\ p # "receiver" => UNCHANGED recvVars
  /\ p # "slots" => UNCHANGED ftVars
  /\ p # "ring" => UNCHANGED ringVars
  /\ p # "counter" => UNCHANGED counterVars
  /\ p # "channel" => UNCHANGED bchVars
  /\ p # "queue" => UNCHANGED qVars
  /\ p # "packets" => UNCHANGED packetVars
  /\ p # "stream" => UNCHANGED streamVars
  /\ p # "stopnwait" => UNCHANGED snwVars
  /\ p # "flows" => UNCHANGED muxVars

PartsNext ==
  \/ part = "interfaces" /\ Next /\ Only("interfaces")
  \/ part = "frames" /\ FramesNext /\ Only("frames")
  \/ part = "pool" /\ PoolNext /\ Only("pool")
  \/ part = "receiver" /\ RecvNext /\ Only("receiver")
  \/ part = "slots" /\ FreeThreadsNext /\ Only("slots")
  \/ part = "ring" /\ RingNext /\ Only("ring")
  \/ part = "counter" /\ CounterNext /\ Only("counter")
  \/ part = "channel" /\ BasicNext /\ Only("channel")
  \/ part = "queue" /\ QueueNext /\ Only("queue")
  \/ part = "packets" /\ PacketPoolNext /\ Only("packets")
  \/ part = "stream" /\ StreamNext /\ Only("stream")
  \/ part = "stopnwait" /\ StopNext /\ Only("stopnwait")
  \/ part = "flows" /\ MultiplexerNext /\ Only("flows")

\* The fairness of each part.
PartsFairSpec ==
  /\ PartsInit /\ [][PartsNext]_partsVars
  /\ WF_vars(part = "interfaces" /\ Run)
  /\ WF_poolVars(part = "pool" /\ PoolRun)
  /\ WF_recvVars(part = "receiver" /\ RecvRun)
  /\ WF_ftVars(part = "slots" /\ FreeThreadsNext)
  /\ WF_ringVars(part = "ring" /\ ReaderRuns) /\ WF_ringVars(part = "ring" /\ SetEoF)
  /\ WF_counterVars(part = "counter" /\ CounterNext)
  /\ WF_bchVars(part = "channel" /\ BasicRun)
  /\ WF_qVars(part = "queue" /\ QueueRun)
  /\ WF_streamVars(part = "stream" /\ StreamRun)
  /\ \A p \in StopEnd :
       /\ SF_snwVars(part = "stopnwait" /\ AppRuns(p))
       /\ WF_snwVars(part = "stopnwait" /\ ConnRuns(p))
       /\ WF_snwVars(part = "stopnwait" /\ ResendHead(p))
  /\ WF_muxVars(part = "flows" /\ MultiplexerRun)

\* The interface a packet leaves by is the one the routing table means, for every
\* table and address (getSuitableInterfaceId), and the two readers of the table
\* agree on the gateway of an interface with one default route (SearchMac).
RoutesFollowed ==
  part = "routing" =>
    /\ \A ip \in {0, 4, 5, 6, 7} : LongestPrefix(input.table, input.iface, ip)
    /\ GatewaysAgree(input.table)

\* What decodeHeader and the dissector read is what encodeHeader wrote, and the
\* checksum of every datagram verifies (Packet.cc, mpudp.lua, udp4_checksum).
WireSound ==
  /\ part = "wire" => RoundTrip(input.pkt) /\ DissectorAgrees(input.pkt)
  /\ part = "checksum" => ChecksumVerifies(input.ip, input.udp, input.payload)

\* In the end the server has the client's channels and no others, however interfaces
\* came and went (FLAG_IFC, removeRemote).
ServerFollowsClient == <>[](part = "interfaces" => Agree)

\* A channel has its sender for as long as it exists, and channels are exactly those
\* the monitor's interfaces call for (interfaceAdded, interfaceRemoved).
InterfacesSound == ChannelsHaveSender /\ ChannelsMatchInterfaces

\* No job is lost, done twice or handed the data of another (ThreadPool, appThread.c).
JobsSound == JobsCalledOnce /\ JobsNotMixed

\* What comes out of a CircularBuffer or an AppLLQueue is what went in, in order, and
\* nobody who waits on a ToZeroCounter comes back before it was zero.
WaitsSound == BytesInOrder /\ ZeroWasSeen /\ QueueInOrder

\* A BASIC or SACK channel frees only what arrived and gives back the rest when it
\* dies, with the timers it needs and no others, the callback of a StreamHandler gets
\* everything in order, a StopNWait takes its peer's packets once and in order and wakes
\* the sender it made wait, and a Multiplexer hands out each flow once and keeps the
\* window of each (BasicChannelHandler, StreamHandler, StopNWait, Multiplexer).
HandlersSound == BasicSound /\ StreamInOrder /\ StopInOrder /\ FlowsApart

\* Nobody waits for ever: stop (ThreadPool) and close (PacketEventHandler) return,
\* the C pool can be destroyed, the reader of a CircularBuffer sees its end, the
\* waiters of a ToZeroCounter come back, an AppLLQueue is emptied, a channel that stays
\* open and is not given up gets every packet acknowledged, what a StreamHandler was
\* given before its close reaches the other end's callback, what a StopNWait was given
\* reaches the other end and its close is answered, and every flow of a Multiplexer gets the room it needs to end.
EveryoneReturns ==
  <>[](/\ part = "pool" => owner # "stopping"
       /\ part = "receiver" /\ shut => handler \in {"closed", "gone"}
       /\ part = "slots" => PoolEnded
       /\ part = "ring" => ReaderDone
       /\ part = "counter" => WaitersReturned
       /\ part = "channel" => BasicDone
       /\ part = "queue" => QueueEmptied
       /\ part = "stream" => StreamDone
       /\ part = "stopnwait" => StopDone
       /\ part = "flows" => FlowsDone)
=============================================================================
