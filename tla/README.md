# Viscous: TLA+ models of the transport library

Viscous is a multi-path transport over UDP. A connection between a client and a
server uses every pair of their network interfaces as a *channel*; reliable,
ordered byte streams (*flows*) are multiplexed over all channels of a
connection, and channels come and go with the interfaces. The library is
multi-threaded C++ (`src/src/TunnelLib`, `src/src/util`, `src/src/common_lib`);
its protocol is described in `src/docs/protocol.html`.

This directory holds TLA+ models of it, TLC configurations that check them on
small instances, and proofs for all instances. The models are translated from
the code; `PROJECT.json` gives the lines behind every definition, and every
hazard of the code with the property that would notice it.

## 1. The system

    application
      Client / ServerConnection      handshake, fingerprints, close, purge        <- Connection
      Multiplexer                    flow ids, accept queue, control packets      <- Flow, Multiplexer
      NewFlowHandler (per flow)      packetising, reordering, flow close          <- Flow
      NewChannelScheculer            queues, tokens, choice of a channel          <- Scheduler
      NewChannelHandler (per path)   window, acks, congestion, retransmission     <- Channel
      InterfaceMonitor, SearchMac    addresses, gateways, channels to make        <- Interfaces, Routing
      SendThroughInterface,
      SendingSocket, Packet          headers, frames, the socket                  <- Frames, Wire
      PacketEventHandler             listening thread, timer thread, observers    <- Receiver
    beneath all of it
      ThreadPool, appThread.c        pools of threads                             <- ThreadPool, FreeThreads
      AppLLQueue, CircularBuffer,
      ToZeroCounter, ConditionalWait queues and waiting                           <- modules of these names
      PacketPool, AppPool            packets and their headers                    <- PacketPool

Packets go down this list by calls on the sender's thread as far as the
scheduler's queues; from there the *scheduler thread* carries them into a
channel. They come up on the *connection thread*, which takes datagrams from
the receive queue and calls `recv` of the channel; the *channel thread*
(`run`) processes what `recv` left it and puts accepted data packets back into
the receive queue, from where they go up to the flow. The *timer thread* calls
`timeoutEvent` of everything attached to it every 200 ms, the *interface
monitor* announces and withdraws interfaces, and application threads call
`readData`, `sendData`, `closeFlow` and `close`.

| component | state | operations | what is hard | what makes it correct |
|---|---|---|---|---|
| Channel handler (`ChannelHandler/New*`) | send buffer with 2^16 slots, receive bitmap, window, New-Reno state, timers, close flags | `sendPacket`, `recv`, `run`, `ackRecv`, `pktRecv`, `timeoutEvent`, `initShutdown`, `shutDown`, `getUndeliveredPackets`, `markDeadChannel` | four threads, one lock that `recv` does not take; wrap-around; loss, duplication and reordering of packets and acknowledgements; retries | each packet passed up at most once; forgotten only when it arrived or went back; everything acknowledged in the end; close is mutual and ends |
| BASIC and SACK handlers (`ChannelHandler/`) | the same, with a list of timers and a map of packets | the same | the same, under one lock | frees what arrived and only that, one timer per packet in flight |
| Channel scheduler (`ChannelScheduler/`) | four packet queues, two semaphores, the table of channels | `sendPacketTo`, `run`, `schedule`, `sendNextPacketUsingCh`, `addChannel`, `interfaceRemoved`, `removeRemote`, `notifyDeadChannel`, `close` | packets queued and announced under different locks; channels die while packets are moved; shutdown of a thread that waits for a semaphore | tokens count packets; no packet lost; packets move while a channel is usable; close stops the thread |
| Flow handler (`FlowHandler/NewFlowHandler.cc`) | numbers sent, acknowledged, available and read, reordering buffer, close flags | `sendData`, `readData`, `recvPacketFrom`, `closeFlow`, `recvAck` | close packet against concurrent senders, bounded window | bytes in order, exactly once; nothing after the close |
| Stop-and-wait handler (`FlowHandler/StopNWait.cc`, no longer built) | list of buffers, number received, close flags | `sendData`, `recvPacketFrom`, `closeFlow`, `timeoutEvent` | a sender that waits against acknowledgements; numbers are given in one place and buffers listed in another | packets once and in order; a sender that waits is woken |
| Stream handler (`FlowHandler/StreamHandler.cc`) | the same, with a callback, jobs and three semaphores | `sendData`, `recvPacketFrom`, `setCallBack`, `closeFlow` | a worker answers the peer's close beside the application | the callback gets everything in order |
| Multiplexer | table of flows, pending flows | `connectFlow`, `acceptFlow`, `recvPacketFrom`, `readData`, `closeFlow` | first packet of an unknown flow, blocking sends from the receiving thread, one count of reads and one control slot for all flows | every flow accepted once; no ghost flows; no window stays shut |
| Connections | handshake state, fingerprints, clients, close and purge timers | `startClient`, handshake steps, `acceptFlow`, `close`, `timeoutEvent` | retries, late duplicates, purging while others accept | a connected client is served; start and close end; closed clients are forgotten |
| Receiver, timers (`Connection.cc`, `CommonHeaderImpl.cc`) | two threads with flags, observer list, attach and detach lists, child ids | `start`, `close`, `listen`, `attach`, `detach`, `run`, `getNextChildId` | changes while the thread is in its loop, closing threads that block | no call into a detached observer, no id given twice, close returns |
| Interfaces (`InterfaceController/`) | files of the scripts, senders by address, interface ids, channels at both ends | `populateInterfaces`, monitor events, `interfaceAdded`, `interfaceRemoved`, `addRemote`, `removeRemote` | events against the handshake and against each other | channels are exactly the pairs of live interfaces, at both ends in the end |
| Frames and wire format | header templates, pool of frames, the socket | `sendPkt`, `encodeHeader`, `decodeHeader`, `udp4_checksum` | many threads and one template; widths of fields | a frame carries what was handed over, for the address it was meant for |
| Waiting and threads (`util/`, `common_lib/appThread.c`) | job lists, semaphores, ring buffer, linked queue | `ThreadPool`, `AppLLQueue`, `CircularBuffer`, `ToZeroCounter`, `ConditionalWait` | lost wake-ups, recycled jobs | no job lost, doubled or mixed up; nobody waits for ever while there is work |
| Packets and pools (`PacketPool.cc`, `AppPool.hh`) | arrays, stacks of freed objects | `getNewPacket`, `freePacket` | reuse across threads, fields of the last holder | an object has one holder and starts empty |

Logging, profiling, wrappers, evaluation programs and code that is no longer
compiled or called are listed in `PROJECT.json` with the reason why they are
left out. The Makefile defines `NO_POOL` and `NEW_CHANNEL_HANDLE`: the models
are of that configuration; `Frames` and `PacketPool` also of the one with pools
(`msgPool.reuse`, `pooled`), which is what the pools were written for.

## 2. Modules

| module | models |
|---|---|
| `ReliableTransfer` | abstract: what a pair of channel handlers promises the layers above |
| `Channel` | `NewChannelHandler` at both ends of a path and the path itself; implements `ReliableTransfer` |
| `ChannelEnds_proofs`, `Channel_proofs` | lemmas about the handlers of the sender, the queues, the path and the receiver; the theorems about `Channel` |
| `Scheduler`, `Scheduler_proofs` | `NewChannelScheculer` with its channels as places that hold packets until they are acknowledged; theorems about it |
| `Stream` | abstract: what a flow promises the applications at its ends |
| `Flow`, `Flow_proofs` | `NewFlowHandler` at both ends of one flow with the part of `Multiplexer` that serves it; implements `Stream`; theorems about it |
| `Multiplexer` | the receiving `Multiplexer` with several flows: ids, accepting, statuses |
| `Connection`, `Connection_proofs` | `ClientConnection` objects and the `ServerConnection` with its `Client4Server` objects; theorems about it |
| `Interfaces` | the interface monitor, the client's and the server's table of channels |
| `Routing` | `SearchMac` and `getSuitableInterfaceId` as functions of files and routing tables |
| `Wire` | encoding and decoding of packets, the dissector, the checksum |
| `Frames` | `SendThroughInterface::sendPkt` and `SendingSocket` with its pool of frames |
| `Receiver` | `PacketEventHandler`, `TimeOutProducer`, `Connection::listen`, child ids |
| `ThreadPool`, `FreeThreads` | `util::ThreadPool` with `WorkerThread`; the stack of free threads in `appThread.c` |
| `ConditionalWait`, `CircularBuffer`, `ToZeroCounter`, `LLQueue` | the classes of these names |
| `PacketPool` | packets, acknowledgement headers and their pools |
| `BasicChannel` | `BasicChannelHandler` and `SackChannelHandler`, one direction |
| `StreamHandler` | `StreamHandler` at both ends of a flow |
| `StopNWait` | `StopNWait` at both ends of a flow |
| `MCChannel`, `MCScheduler`, `MCFlow`, `MCConnection` | instances for TLC |
| `MCParts` | the parts from `Interfaces` downwards in one instance |
| `Waits_proofs` | theorems about `Receiver`, `ToZeroCounter`, `CircularBuffer`, `LLQueue` and `Wire` |
| `Pools_proofs` | theorems about `FreeThreads`, `ThreadPool`, `Frames` and `PacketPool` |
| `Parts_proofs` | theorems about `Interfaces`, `Routing` and `Multiplexer`, and about `MCParts`, which has all the parts |

### Channel

`snd[p]` is the sender half of the handler at `p` (`senderBuffer` and the
congestion and close fields), `rcv[p]` its receiver half, `link[p]` the
datagrams it sent that are still under way. Each handler function is one
operator on the sender's record (`Send`, `NewAck`, `PartialAck`,
`DuplicateAck`, `GetUndelivered`, ...) that collects the datagrams it sends in
`out`; the actions apply them, and `Apply` puts `out` on the path. Where the code
holds `sendPacketLock` from beginning to end the action is the whole function;
where it does not, the function is split at the points where another thread
can come between:

* `recv` takes no lock: `Receive` queues the packet, `TestSent` reads
  `pktSent_`, `MarkAcked` sets `ackRcvd_`;
* `ackRecv` takes the lock for a batch: `TakeAcks` empties the queue and finds
  the largest acknowledgement, each `AckRecv` processes one. Functions that
  take the lock wait for the batch (`Unlocked`), the others do not;
* `initShutdown` sends the FLAG_CHF packet (`InitShutdown`) before it sets the
  flags (`FinishInitShutdown`);
* a channel that died is marked (`MarkDeadChannel`) before it is emptied
  (`NotifyDeadChannel`).

`sendSeq` leaves `sendSeqLock` locked when it finds an empty slot; the lock is
`"leaked"` then, and `"stuck"` once a caller waits for it.

Times are left out: a timer may run out when nothing is in transit and no
thread has work (`Quiet`), because the retransmission timeout is far above the
round trip time, or earlier if `"early"` is among the faults. `cwnd` is a
float in the code and counted in steps of 1/`CwndUnit` here. Round trip
estimates and statistics are left out.

### Scheduler

The four places where packets wait are `outgoing`, `undelivered`, `closePkts`
and `controlPkt`; `waitForNewPacket` and `waitForToken` are the semaphores. The
code queues a packet under one lock and gives its token later, so `owed` counts
the `notify()` calls that threads still have to make. `sched` is where the
scheduler thread is in `run`/`schedule`; `collecting` is the call of
`notifyDeadChannel` that holds `deadChannelLock`; `closer` is where `close()`
is. `pc = "send"` is the stretch of `schedule` that holds `readyToSendLock`,
which the registration and removal of channels wait for. A channel here has
just the buffer, the flags and the window that the scheduler can see: what
`Channel` shows in detail is abstracted to "acknowledged in any order, given
back when dead".

### Flow

`flow[p]` is the `NewFlowHandler` at end `p`, with its fields under their own
names. What surrounds it is in variables of its own: `listed[p]` is the entry in
the multiplexer's `children`, `pending[p]` the entry in `pendingFlows`,
`reads[p]` the multiplexer's `outPacketCount`. Three threads of an end meet
here, and each has a program counter:

* `app[p]`, the application thread that sends and closes. `sendData` allocates a
  number (`SendData`, `GetNextSeqNo`), tests the close flags (`CloseCheck`) and
  waits for the window (`SendPacketTo`), one step each, since no lock covers
  them. `closeFlow` goes the same way and then sets its flag
  (`CloseInitiated`), waits (`Closed`) and is erased from `children`
  (`Forget`);
* `reader[p]`, the application thread in `readData`: `StartRead` looks the flow
  up, `ReadData` waits for `readSem`, takes the packet, forgets a flow that has
  ended, and sends the status of the flow now and then;
* `conn[p]`, the connection thread. `RecvPacketFrom` is the multiplexer's and
  the flow's function of that name; when it must answer a close it stays in
  `sendClosePacket` (`NumberAnswer`, `SendClosePacket`), holding `readLock`, so
  that `ReadData` waits. `RecvAck` processes a status.

The channels below are one set of packets per direction: any order, and
(`"duplicate"`) twice, as when a channel dies after its packet arrived and gives
it back. Statuses are lost and overtaken freely, on control packets and
(`"status"`) on acknowledgements. A `sendData` call is one packet; only its
number matters, so contents are the packet's ordinal.

### Multiplexer

What several flows share. One end opens flows (`OpenMuxFlow`, with the counter
for ids) and sends on them; the other has `children`, `pendingFlows`,
`acceptSem`, `outPacketCount` and the scheduler's slot `controlSlot`, under
these names. `muxReader[f]` is the thread that reads flow `f`, with one step for
each stretch of `readData` between two accesses to what the readers share:
`ReadFromFlow` (with `closeFlow` at the end of the stream), `CountRead`,
`TestCount` (which builds the status of all flows), `PutStatus`, `ResetCount`.
`acceptor[a]` is a thread in `acceptFlow`, split between semaphore and lock. A
flow is three counters, sent, arrived and read: what numbers, windows and
closing do inside a flow is the business of `Flow`.

### Connection

`cli[c]` is a `ClientConnection`, `c4s[f]` the `Client4Server` with fingerprint
`f`; `pendingClients`, `clients`, `nonce2Fp`, `fp2Nonce`, `pendingFlow` and
`nextId` are the server's maps and counter. Each handler of a datagram is an
operator (`HandShake2`, `Close2` at the client, `RecvSyn`, `RecvKnown`,
`RecvUnknown` at the server; `Arrive` takes the datagram), and each retry of the
timer thread is an action. `startClient` and `close` are split where they wait.
`acceptFlow` is split between the wake-up and the look into the map
(`accepting`), where the purge may come in. Datagrams of the handshake and of
closing are lost, duplicated and overtaken at will up to `MaxFaults`; `FLOW`
stands for what a channel delivers exactly once. The tests that compare times
are conditions of the kind "the answer is not under way any more" (`"early"`
lifts them, `"late"` that of the purge).

### Interfaces and Routing

`up` is the network, `files` what the scripts have written, `pipe` what the
monitor has not read. `ip2InterfaceIdMap`, `interfaceSender`, `remoteAddresses`
and `channels` are the client's tables, `srv` the server's channels; the number
of a channel tells it from an earlier one with the same id. Packets with
FLAG_IFC travel over channels, so they arrive as long as one works. The functions that read
directories and tables are in `Routing`, as operators over a file system and the
lines of a routing table; `Interfaces` uses them for the gateways of the
interfaces it finds. `Table` is the routing table when every interface is up and
`Routes` its lines that are there now. `MultiHomed` describes the
client the library is made for: each interface has a gateway of its own, the one
the script `viscous_up` writes into its file, which is that of all its default
routes, and routes to every address of the server.

### Frames and Wire

`Frames` follows a call of `sendPkt` through the buffer, the member by member
filling of the header template, and at most `MaxTries` calls of `sendto`.
`Wire` has no state: `EncodeHeader`, `DecodeHeader` and `Dissected` are functions
between records and sequences of bytes, with the widths of the fields; a byte
has `Nibble`^2 values so that every combination of optional headers fits into a
small instance. The decoders are functions of the number of headers they have
read, one header a step (`DecodeNext`, `ShowNext`). The numbers in the packets of
`MCParts` fit into their fields from `Nibble` = 4 on, which it assumes
(`FieldsFitAssumption`).

### Threads, queues, packets

Each module has a program counter per thread, and one step between two
semaphore operations or lock regions of the code. `ConditionalWait` has the two
operators every waiting class is made of: a `notify` is lost if nobody has
raised the flag. `LLQueue` keeps `next` in the element, as the code does, so an
element that is added to a second queue takes its old link along. `PacketPool`
models the reuse of objects: an object that comes back holds what its last
holder left in it until `getNewPacket` has cleared it, outside the lock.

### BasicChannel, StreamHandler and StopNWait

The channel handlers and the flow handler that environment variables or callers
could select instead of the default. `BasicChannel` is one direction with the
list of timers in the order they run out; `sack` tells the two handlers apart.
`StreamHandler` has both ends of a flow, the job that delivers to the callback,
and the worker that answers a close. `StopNWait`, which the Makefile no longer
builds, has both ends with an application thread and the connection thread, a
step for each stretch between two locks; `recvPacketFrom` is split before its
test of `bufferLen`, which decides about the post of the semaphore.

### MCParts

The parts from `Interfaces` downwards share no state with each other, so they
are checked in one instance where `part` says which of them a behaviour is
about; the others stay in one initial state. Pure algorithms (`routing`,
`wire`, `checksum`) are evaluated for every `input` in their set.

## 3. What is checked

In the runs of `Channel`, `left` sends and `right` acknowledges; sequence
numbers are taken modulo `SeqCnt` (2^16 in the code, window half of that). Every
run takes less than three minutes.

| run | bounds | shows |
|---|---|---|
| `ch_faults` | 2 packets and the start packets, 2 faults of any kind | `WindowsAgree`, refinement of `ReliableTransfer` |
| `ch_recovery` | 17 packets over 16 numbers, 3 losses in a flight of 8 | `TimersExact`, `HeadHeld`, `RecoverInFlight` |
| `ch_close` | start packets, one end closes, 5 losses or reorderings | `CloseIsMutual`, `NothingLeftBehind`; the retries run out |
| `ch_live` | 3 packets, 1 loss, duplication or premature timeout | `EverythingAcked` |
| `ch_stale_ack` | 3 packets, 1 reordering | violation of `EverythingAcked` |
| `sched_tokens` | 1 channel, data and two control packets, window 2, close, 1 removal or ENETDOWN | `TypeOK`, `TokensMatchPackets`, `TokenMeansPacket`, `PacketsKept` |
| `sched_live` | 1 channel, a data and a close packet, close, 1 removal | `QueuesDrain`, `SchedulerStops` |
| `sched_lost` | 1 channel that goes away | violation of `NoPacketLost` |
| `flow_upload` | 9 packets one way over 8 numbers, window 2, close, 2 statuses on acknowledgements | `WindowRespected`, `ReaderFindsPacket`, `NoGhostFlow`, refinement of `Stream`, `EverythingRead`, `CloseReturns` |
| `flow_exchange` | 3 and 2 packets over 16 numbers, window 2, 2 duplicates or statuses | `WindowRespected`, refinement of `Stream` |
| `conn_session` | 2 clients one after the other over 3 fingerprints, 2 handshakes, 1 close packet each, 1 datagram lost or duplicated | `ServedWhileUp`, `AcceptFindsClient`, `MapsAgree`, `StartEnds`, `CloseEnds`, `ClosedIsForgotten` |
| `x_parts` | below | the twelve properties of the parts |

`x_parts` in detail:

| part | bounds | property |
|---|---|---|
| interfaces | 2 interfaces at each end, 4 network events during and after the handshake | `IdNamesOneAddress`, `InterfacesSound`, `ServerFollowsClient` |
| routing | every table of up to 3 entries (default routes and masks of three lengths), 3 sets of senders, 5 addresses | `RoutesFollowed` |
| wire, checksum | packets with 0 to 4 optional headers of 5 kinds; payloads of 0 to 4 bytes | `WireSound` |
| frames | 2 threads, 2 interfaces, 2 packets each of 2 lengths and one to refuse, 2 tries | `FramesSound` |
| pool | pools of 1 and 3 threads, 2 jobs, `stop` twice | `JobsSound`, `EveryoneReturns` |
| slots | 2 threads, 3 callers | `JobsSound`, `EveryoneReturns` |
| receiver | 2 observers, 1 datagram of any kind, 2 ticks, `close` twice | `ReceiverSound`, `EveryoneReturns` |
| ring | capacity from 2, chunks of 1 to 3, 8 bytes | `WaitsSound`, `EveryoneReturns` |
| counter | 3 that count, 2 that wait | `WaitsSound`, `EveryoneReturns` |
| queue | 2 producers, 2 consumers, 3 elements, limit 2 or none, 4 additions | `WaitsSound`, `EveryoneReturns` |
| packets | 2 threads, 1 object per array, 2 headers, 3 packets, both builds | `PacketsApart` |
| channel | 7 packets over 20 numbers, window 4, 2 faults of any kind | `HandlersSound`, `EveryoneReturns` |
| flows | 2 flows of 4 packets, window 3, a status after 2 reads, 2 threads that accept | `HandlersSound`, `EveryoneReturns` |
| stream | 5 and 1 packets over 4 numbers, window 2, both ends may close | `HandlersSound`, `EveryoneReturns` |
| stopnwait | 4 and 1 packets over 4 numbers, one end closes, 1 overtaking or early timeout | `HandlersSound`, `EveryoneReturns` |

Why the bounds are enough. Two packets and two faults give every pairing of a
lost, duplicated or reordered packet or acknowledgement with every other; a
flight of eight is the smallest in which a triple duplicate, a partial
acknowledgement and a second recovery follow each other; seventeen packets
reuse slot 0 and compare numbers across the wrap; five losses exhaust
`retryCnt_` of the start packet and of FLAG_CHF. `ch_recovery` uses the
constraint `FaultsInBurst`: the faults come while the flight is out and the
receiver keeps up, so acknowledgements come one at a time (`PromptAcks`). The
constraint only cuts behaviours off; batches of acknowledgements are taken
without it in the other runs. For the scheduler one failure meets every step of
the two-lock handover; any number of channels, packets and failures is covered
by the proofs. `QueueSize` 1 makes senders wait and `MaxWindow` 1 or 2 makes
`schedule` fail to find a channel.

For flows a window of two over eight numbers makes the sender wait, wraps the
numbers once and lets a status be overtaken by a newer one; two duplicates
arrive with their number read, stored or awaited. The code's window of 500 is a
131st of its 2^16 numbers; `FlowAssumption` asks for a quarter. `Announce`
keeps a status from arriving after half the sequence space has been read, since
it would then look newer than the current one; in the code that would take
32768 packets.

`flow_upload` leaves the answer to a close no time to arrive before `closeFlow`
has set `closeInitiated` (the answer takes a round trip, the flag an instant),
and lets only the end that closes send; `flow_exchange` closes nothing.

Two handshakes and one close packet are enough for an answer to come after its
timeout and for all attempts to fail; three fingerprints with two clients let
the counter pass the empty fingerprint and come back to one that was given out.
In `x_parts` every limited resource (ids, arrays of objects, room in a queue,
capacity, free threads, window) is smaller than the demand for it.

`CHECK_DEADLOCK FALSE` is set everywhere: when all bounded packets are
delivered, or the threads have stopped, the system rests.

### Fairness

Each thread runs an endless loop and locks are pthread mutexes, so every thread
that can take its next step eventually does: weak fairness per thread step.
The timer thread comes back every 200 ms: if again and again nothing is left to
do but wait for a packet's timer, the timer fires (`MayTimeOut`, strong
fairness with the enabling condition written out; TLC would spend most of its
time evaluating `ENABLED` otherwise. For the same reason the fairness of
`PktRecv` and `AckRecv` is stated over the queue they consume, which no other
action shortens). Acknowledgements and the peer's start packet keep coming in
`Scheduler`, which is what `Channel` shows for a path that works. Nothing is
assumed of the application, of faults, or of a dead channel's thread; only in
`Flow` does the application accept and read (`EverythingRead` is about the
reader), while it need not open, send or close.

In `Connection` and the parts every step of a thread uses up something bounded
(a datagram, a retry, a job, a byte), so weak fairness of all threads together
is enough: they do not all stop at once. What is left out of it is what the
program does not do by itself: the application's calls (except those that a
property asks the end of), network events, faults. The reader of a
`CircularBuffer` and the writer that ends it are fair each by itself, and
`StopNWait`'s application thread is strongly fair: its push and the connection
thread's pop exclude each other only for the length of the lock.

### Disagreements with the documentation

Two runs end in a counterexample.

* `ch_stale_ack`: `ackRecv` takes the acknowledgement with the largest
  *unsigned* distance from `lastAcked` as the newest of its batch. One
  acknowledgement from before `lastAcked`, overtaken on the path, wins; the
  fresh one is thrown away, its packet already marked so that no timeout sends
  it again. The window stays shut.
* `sched_lost`: a packet taken from its queue is lost when the channel chosen
  for it dies before `sendPacket`.

### Further disagreements

Met while modelling; not among the runs. Most are reproduced by adding the
quoted member to the set of faults of a configuration, or as described. The runs
above leave these faults out and show what holds without them.

Channel and scheduler

* `BurstIsRetransmitted` with `"lose"`: the protocol says that after a partial
  acknowledgement each duplicate acknowledgement retransmits a packet of the
  lost burst. The code retransmits only if the slot it found is *empty*, so
  never.
* `MarkedWasReceived` with `SeqCnt = 8`, nine packets and no fault: the
  connection thread tests `pktSent_`, the slot is freed and reused, and the
  mark lands on another packet, which is then not retransmitted.
* When `MULTI_RECOVERY` meets a drained channel while `recoverIndex` is the
  largest number, the search for the next full slot (NewChannelHandler.cc:420-422)
  finds neither a full slot nor a number beyond `recoverIndex`, and never ends,
  with `sendPacketLock` held (`MultiRecover` leaves the handler "stuck").
* `retryCnt_` has four bits and counts every expiry: after sixteen the count of
  a FLAG_CHF packet starts again at zero, so `CloseIsMutual`, which holds with the
  five faults of `ch_close`, cannot be read off the state for every number of
  faults.
* `NoLockLeak` with seven packets, `SeqCnt = 16`, one loss and `"ifcRemoved"`
  under `PromptAcks`: `getUndeliveredPackets` empties the buffer in the middle
  of a batch; the rest of the batch calls `sendSeq` for an empty slot, which
  returns with `sendSeqLock` held.
* `ShutdownTerminates` with `FairSpec`, `Silent`, one closer and no fault:
  `initShutdown` sends FLAG_CHF before it sets `shutDownSent`; if the
  acknowledgement is processed in between, `shutDown()` waits for ever.
* `QueuesDrain` with one channel, `Closes = FALSE` and `"ackFirst"`: the
  acknowledgement of our start packet overtakes the peer's start packet; the
  token is spent while `started` is FALSE, and nobody gives another when it
  becomes TRUE.
* `QueuesDrain` with `"netDown"`: `ChannelHandler::send` calls
  `notifyDeadChannel` when the socket reports ENETDOWN; on the scheduler thread
  that waits for `readyToSendLock`, which this thread holds.

Flow

* `CloseReturns` with `Closers = {client}`: with `Upload` and
  `"promptAnswer"`, `closeFlow` sends FLAG_FFN before it sets
  `closeInitiated`, so an answer processed in between is taken for a close by
  the peer and answered again, and `closeFlow` is never woken; with `Exchange`
  and no fault, the server's application and its connection thread, which
  answers, take numbers side by side: both take the same one, or the
  application's comes first and is then refused because the flow is closed.
  Either way the client never sees the answer in order.
* `CloseReturns` with `Closers = {client, server}`: an end that answers the
  peer's close while its own `closeFlow` is past the test of the flags waits for
  an answer that the peer, done with the flow, never gives.
* `NoGhostFlow` with `Exchange` and `Closers = {client}`: a packet behind
  FLAG_FFN, or (`"duplicate"`) one that arrives again, finds its flow forgotten
  and makes a new one.
* When the window is used up, `sendClosePacket` waits for a status on the
  thread that processes statuses.
* `EveryoneReturns` (part "flows") with `"overtake"`: a reader that is delayed
  between `generateControlPacket` and the reset of `outPacketCount` puts an
  older status over the newer one of another reader, or takes the reads of
  others out of the count; if nobody reads another 400 packets, a window stays
  shut. With `"wrap"`: the 65536th flow gets id 0, and `sendPacketTo` and
  `getChild` refuse it.

Connection

* `FingerprintUnique` with `"overlap"`: "Fingerprint: It is the client's unique
  ID generated by the server" (docs/protocol.html:99). The nonce of a client is
  the server's address and `localAddr.sin_port`, which the constructor sets to
  zero and nothing else sets; two clients of one process, or of two, that
  connect at once get one fingerprint. One that connects within the purge
  period of a closed one gets the fingerprint of that one.
* `StartEnds` with `"slowSetup"`: the timer finds `syncTries` = 0 before the
  first handshake packet and gives up; with `"early"` the answer may still come
  when `startClient` has failed.
* A client that is destroyed after a failed start waits for a listener that has
  ended ("stuck").
* If every FLAG_CFN is lost the server keeps the client for ever, and likewise
  a client that never sends a packet after the handshake: `pendingClients` is
  never purged. With `"late"` a packet that comes at the purge uses a deleted
  multiplexer; the map `clients` is used by two threads without a lock.
* An unknown fingerprint is answered with FLAG_CFN; the protocol says such a
  packet is discarded silently. The counter for fingerprints wraps.
* `ServerConnection::getWorker` returns early with `getWorkerMutex` held
  (ServerConnection.cc:183-193).

Interfaces, frames, wire format

* `ServerFollowsClient`, `InterfacesSound` with `"arpLate"` (a gateway that
  answers ARP later is never asked again), `"busy"` (two events in the FIFO are
  read as one), `"duringHandshake"` (an event between `populateInterfaces` and
  the attachment of the scheduler is not told to it), `"lastInterface"` (nobody
  is left to tell the server), `"reorder"` (FLAG_IFC overtaken by a start
  packet of the same id). In the netlink variant a `continue` without `RTA_NEXT`
  loops for ever.
* `interfaceAdded` does not ask `isReachable`; a server never listens to its
  own interfaces; more than 15 addresses overflow `interfaceSender[16]`; a
  `SendThroughInterface` is deleted while others send by it;
  `getSuitableInterfaceId` returns 0 if no interface fits, and its callers index
  with it; `handShake2` loops on an optional header that is no address;
  `addChannel` tests and sets its table without a lock; gateways and MAC
  addresses are read once.
* `FramesSound` with `"shared"`: two threads write one header template, and
  frames go out with a mixture; with `"initFails"` an object whose socket could
  not be made is used.
* At most 16 optional headers (docs/protocol.html:65), but `OHLen` has 4 bits:
  with 16 it is 0. The guard of `encodeHeader` compares with the size of the
  structure in memory (32), not of the encoded header (28); the second byte of
  an optional header is never set; the dissector divides with `/` and gets a
  fraction.

Threads, queues, handlers that are not the default

* `ThreadPool::stop` skips a thread whose flag the terminate job of another has
  cleared (ThreadPool.cc:113-134): with pools larger than those of `x_parts` a
  thread may outlive its pool, on whose memory it then works;
  TcpTrafficGenerator.cc:212-220, 263-271 rely on the opposite.
* `EveryoneReturns` with `"slowEnd"` (the timer thread notifies before it
  resets its flag, so `close` may wait twice), `"twoWaiters"` (the C pool tells
  one of two sleeping callers), `"gap"` (`CircularBuffer`, `ToZeroCounter`,
  `StreamHandler`: a `notify` between the test and the announcement of a waiter
  is lost), `"steal"` (`ToZeroCounter`), `"midSend"`, `"forgotten"`.
* `ReceiverSound` with `"earlyDetach"`: a detach before the next tick is
  forgotten. `WaitsSound` with `"overlap"`: `memcpy` of overlapping areas.
* `HandlersSound` with `"lateAck"`: after a channel gave its packets back, an
  acknowledgement stops a timer that does not exist. In `BasicChannel`,
  `MULTI_RECOVERY` never finds a packet to retransmit, `sendSeq` of the SACK
  handler returns -42 with `sendSeqLock` held, packets under way at `shutDown`
  are not sent again, packets above a gap are accepted again when they come
  twice, a retransmission more than a quarter behind is not acknowledged while
  the window is a half, the test of FLAG_CSN is never true, and the asserts of
  the base classes test a string.
* `StopNWait`: with `"gap"` `bufferLen` is tested outside its lock and the list
  grows beyond two; with `"midSend"` an answer to a close takes its number after
  a data packet and its place in the list before it, and the stream stops; with
  `"lose"` a packet that was accepted is never acknowledged again, so a lost
  acknowledgement stops the stream; with `"wrap"` an old copy passes for a new
  packet. An end that closes or answers before it has sent data is mute: its
  FLAG_FFN lacks FLAG_DAT, which marks a first packet, and is never accepted. `closeFlow` does
  not count its buffer in `bufferLen`, which then drops below zero.
* `HandlersSound` with `"skip"`, `"late"`, `"crossing"`, `"twice"`: see the head
  of `StreamHandler`. `closeFlow` holds `closingMutex` when
  `Multiplexer::closeFlow` calls it again, so an application that closes blocks.

## 4. What is proved

The theorems hold for every value of the constants that the assumption named
after each module (`ChannelAssumption`, `SchedulerAssumption`, ...) allows, with
`NullAssumption`, `NonceAssumption` and `FieldsFitAssumption`; further
assumptions are named with the theorem. Some assume that a set of faults lacks a
member: with it the property is false, as "Further disagreements" says, and the
run leaves it out, too.

`Channel_proofs`, for any sequence space (a multiple of four, at least eight),
any number of packets and application closes, and any number of losses,
duplicates, early timeouts, removed interfaces and reorderings:

* `ChannelInvariant`: `Spec => []ChannelInv`, the inductive invariant, and
  `TypeCorrect`: `Spec => []TypeOK`;
* `WindowsAlwaysAgree`: `Spec => []WindowsAgree`;
* `TimersAlwaysExact`: `Spec => []TimersExact`;
* `HeadAlwaysHeld`: `Spec => []HeadHeld`;
* `RecoveryInFlight`: `Spec => []RecoverInFlight`;
* `NothingIsLeftBehind`: `Spec => []NothingLeftBehind`;
* `ChannelImplementsTransfer`: `Spec => ImplementsTransfer`.

They assume `Orderly`: *if* the path reorders datagrams, each end sends less
than half of the sequence space in packets (`FewPackets`). Without reordering
there is no bound, and numbers wrap any number of times. The assumption is
there because the code, like any protocol with bounded numbers, cannot tell a
datagram that was overtaken by half of the space from a new one, and gives
datagrams no lifetime; nothing smaller than a bound on the delay would replace
it. Every run that checks one of these properties satisfies it.

The code compares numbers modulo `SeqCnt`, so none of the properties is
inductive. The proof gives every number its absolute position: a direction has
the positions `la` of `lastAcked`, `ms` of `maxSent` and `e` of `expectedSeq`,
a packet's `id` is its own, and `SenderInv` and `ReceiverInv` say that the
fields are the residues. An acknowledgement carries two residues; `AckPos` and
`CausedBy` give their positions. `Dir` is the invariant of one direction, with
everything under way between its ends as a set with an order, so that a queue,
a batch and the path are treated alike (`In`, `Ahead`).

The difficult part is `HeadHeld`. `ackRecv` empties the slot of the packet that
*caused* an acknowledgement before it looks at the position acknowledged;
nothing in the code keeps that slot from being the first of the window, which the
triple duplicate and partial acknowledgements then retransmit unseen, and an
empty slot there leaves `sendSeqLock` held. What prevents it is a fact about
pairs of acknowledgements (`AckInv`): one that was sent for the packet behind a
position acknowledged by another names a later position, so by the time it counts
the window has moved past that packet. Since it relates any two acknowledgements
that are anywhere between the ends, it survives reordering, duplication and
batches, of which `ackRecv` processes only some.

The lemmas go upwards in two modules: `ChannelEnds_proofs` has one per handler of
the sender (`ProcessAckStep` puts together the paths through `ackRecv`) and one per
change of a direction (`Dir`), and
`Channel_proofs` one per action: it keeps both directions and makes a step of
`ReliableTransfer` in each, or none (`DirStep`).

`Scheduler_proofs`, for every set of channels and packets, every queue size,
window and number of failures:

* `TypeCorrect`: `Spec => []TypeOK`;
* `TokensCorrect`: `Spec => []TokensMatchPackets`. Until `close()` releases the
  scheduler thread, `waitForNewPacket`, the token in its hand and the
  announcements still owed count exactly the packets that wait;
* `AssertHolds`: `Spec => []TokenMeansPacket`. `APP_ASSERT(pkt)` in
  `sendNextPacketUsingCh` never fails;
* `NothingLost`: `Spec => []PacketsKept`. While nothing is closed, removed or
  broken, every packet that was handed over waits, is held, was acknowledged,
  or was replaced in the control slot.

`TokensMatchPackets` is not inductive: a call of `notifyDeadChannel` must start
from a zero count (`IdleCollectsNothing`), and once `close()` has handed out
tokens for nothing the equation is gone, and what protects the assert is that
the token in hand was covered before (`HandCovered`: nobody but the scheduler
thread takes packets away). `TokenInv` is the conjunction and is inductive;
`StepTokens` has a step per action. The lemma `TakeFirstTakesOne` says that
`TakeFirst` removes exactly one packet if any waits. `PacketsKept` needs that
every channel is usable while nothing was disturbed (`ChannelsUp`: none dead,
closed or busy, an unregistered one holds nothing, and the channel the scheduler
thread has chosen is registered); that failures are counted at all is
`FaultsUsedUp`. `sched_lost` shows that the theorem fails without its condition.

`Connection_proofs`, for any number of clients, fingerprints, retries and lost
or duplicated datagrams, and for every set of faults:

* `MapsInverse`: `Spec => []MapsAgree`. The counter of fingerprints wraps, so an
  entry could overwrite that of a client still known. It never does, because all
  clients have one nonce (`OneNonce`), so the maps are empty when a
  fingerprint is given out (`OneHolder`);
* `OneClient`: the server holds at most one client, the reverse side of the
  same coin and the reason for the first disagreement under "Connection" above;
* `AcceptSafe`: `Spec => []AcceptFindsClient`. `AcceptInv` counts, for each
  client: the flows `acceptFlow` has not returned are those announced, those about
  to be announced, and the one it has been told of; a client that is purged has
  none. With one client at a time the semaphore has that client's count.
* `Served`: `Spec => []ServedWhileUp`, without `"overlap"` and `"late"`, the two
  faults that contradict it (see above). One client is at work at a time
  (`ServedInv`): while it is, every answer of the server under way, and the client
  itself once connected, has the fingerprint of the one object the server holds;
  a trace of a close (a packet, a flag, a timer that may purge) means that a
  client is closing and none is starting.

`Flow_proofs`, for flows of any length, any window up to a quarter of the
numbers, and any order of packets and statuses:

* `FlowInvariant`: `Spec => []FlowInv`, the inductive invariant;
* `WindowIsRespected`: `Spec => []WindowRespected`;
* `ReaderIsServed`: `Spec => []ReaderFindsPacket`;
* `FlowImplementsStream`: `Spec => ImplementsStream`, by a lemma for each action
  that names the step of `Stream` it makes;
* `NoGhosts`: `Spec => []NoGhostFlow` if channels deliver packets once (`Once`).

They assume `Orderly`: one thread of an end takes numbers, since `getNextSeqNo`
is unprotected (`OneNumberer`: an end that closes has a peer that only answers),
no `"promptAnswer"`, and with duplicates fewer packets than a quarter of the
numbers (`FewPackets`), since otherwise an old copy passes for a new packet.
Both runs of `Flow` satisfy it; what happens otherwise is under "Flow" above.
The code knows a packet by its number modulo `SeqCnt`. The invariant gives every
number its absolute position and says that positions under way are less than half
the number space from what the receiver expects, so that comparing residues
compares positions (the lemmas on `Residue` and `Dist`). `Store` finds the end of a
run of stored packets by `CHOOSE`; that there is one, which the code's loop finds
by counting, follows from the least-element lemma `LeastOf` in place of an
induction. For `NoGhosts`, `OnceInv` adds that each packet is in one
place, and hence that nothing of a flow that was closed or forgotten is still
under way.

`Parts_proofs`, about `Interfaces`, for any addresses at both ends:

* `IdsNameAddresses`: `Spec => []IdNamesOneAddress`, and `IdsStay`: an address
  keeps its id for good. `IdsInv` says that the ids are the numbers up to
  `nextInterfaceId`, given out one by one; since there are as many as addresses
  that were seen (`NewIds`), they fit into the table of senders;
* `ChannelsServed`: if `"duringHandshake"` is not among the faults, a channel
  has its sender for as long as it exists. The induction follows the two threads
  between their looks at the table: what `addRemote` or `interfaceAdded` is
  about to use has been seen (`HandInv`), and `removeInterface` deletes a sender
  after its channels are gone;
* `ChannelsMatch`: `Spec => []ChannelsMatchInterfaces` for a multi-homed client
  (`MultiHomed`), without `"arpLate"`, `"busy"` and `"duringHandshake"`. Two
  threads add channels, each for the senders and remote addresses it saw, and one
  removes them. `MatchInv` says that no pair falls between them: an id has a
  sender exactly if its interface is up, but for the one of an event that has not
  been dealt with (`ServingInv`, `WorldInv`); and a sender and a remote address
  without a channel are in the hands of a thread that will make it
  (`CoveredInv`). `MultiHomed` is needed because `addRemote` asks `isReachable`
  and `interfaceAdded` does not: with an interface that cannot reach an address of
  the server, the channels depend on which of the two came first. Together with
  the theorems before it, it gives `PartsInterfacesSound`.

About `Routing`, for any routing table, any senders and any address:

* `PrefixFollowed`: `getSuitableInterfaceId` takes the interface of a longest
  matching prefix that has a sender, the last of several default routes, and
  none only when no line leads there. The loop is a function of the number of
  lines it has read, and its induction is replaced by that of the least number at
  which it would be wrong (`LeastNumber`);
* `GatewaysFollowed`: `getAllGatewayAndIface` and `getGatewayAndIface` know the
  same interfaces and the same gateway of one with one default route.
  `PartsRoutesFollowed` is what the run evaluates of both.

About `Multiplexer`, for any number of flows, acceptors and packets, any window
above the number of packets between statuses, and with both faults (`overtake`,
`wrap`):

* `FlowsStayApart`: `MultiplexerSpec => []FlowsApart`, the safety half of what
  `x_parts` checks of the multiplexer (in `HandlersSound`);
* `AcceptFindsFlow`: whoever `acceptFlow` wakes finds a flow, and it is in
  `children`.

`MuxInv` is what makes them inductive. A status that is held, in the control slot
or under way never runs ahead of the readers (`StatusesTruthful`), which is why a
late or replaced one does no harm; the counters of a flow are in order from known
to be read to sent (`CountersInv`); a flow is in `children` from its first packet
to its last read and is read only once accepted (`PlacesInv`); and the wake-ups
are as many as the pending flows (`WakeUpsInv`).

`Waits_proofs`, for any number of threads, sizes and elements:

* `ReceiverStaysSound`: no datagram is handled twice, no child id is given out
  twice, and a tick goes to exactly the observers that are attached, without
  `"slowEnd"` and `"earlyDetach"` (`RecvFaults`). A thread's flag follows where
  the thread is once its owner has set it (`LoopsInv`), the ids up to
  `nextChildId` are those of live objects and the free ones (`ChildIdInv`), and an
  observer that is to be detached is in no set from which the next tick is
  called (`ObserversInv`);
* `ZeroIsSeen`: who waited for a count of zero comes back after it was zero,
  without `"steal"`: a wake-up that is pending was sent at zero, after everybody
  called who may take it (`CounterInv`);
* `BytesStayInOrder`: what is read from a `CircularBuffer` is what was written,
  in order, while it grows and wraps, without `"overlap"`. `RingInv` says that the
  array from the read index on, around the end, holds the bytes written but not
  read (`HoldsBytes`); growing moves one of the two stretches;
* `QueueStaysInOrder`: what leaves an `AppLLQueue` is what went in, in order, for
  any number of producers and consumers, with a limit or without. The links
  stay in the elements after they are taken, so the invariant must say that
  nobody walks through an element that was queued again: `InQueue` relates the
  links to the order, a consumer that walks holds a chain apart from the queue
  and from those of others (`ConsumersInv`, `ApartInv`), and free, taken and owed
  places add up to the limit (`RoomInv`).

There, too, the functions of `Wire`, for any `Nibble` from 2 on:

* `HeadersReturn`: for a packet with any fields that fit their widths, data of any
  length and fewer than `Nibble` optional headers of any kind, `DecodeHeader`
  gives back what `EncodeHeader` was given (`RoundTrip`);
* `DissectorShows`: the dissector shows such a packet as it was sent
  (`DissectorAgrees`);
* `ChecksumsVerify`: the sum over any datagram with its checksum is all ones
  (`ChecksumVerifies`).

The bytes of a header are laid out part after part (`Flattened`, `PartsStand`), a
field that stands at its place is read as it was written (`GetPut`), and header
`n` is found where the lengths of the first `n - 1` end (`OptionsFollow`): the
encoder goes by the size of what it writes, `decodeHeader` by what the type says,
the dissector by the length in the bytes, and the three agree. The loops are
recursive functions. That such a function exists, and what it returns for every
number, is shown without induction over data: its values are unique up to any
number (`StartsAlike`), and a number from which it would fail has a least
one (`LeastNumber`, `Recursion`). The fold of the carries has a closed form
(`Carried`, `FoldIs`): what is left is the sum modulo `WordCnt` - 1, but a sum
that is not 0 gives `WordCnt` - 1 in place of 0. `PartsWireSound` is what the run
evaluates of the three.

`Pools_proofs`, for any number of threads:

* `JobsStayApart` (the C pool): a caller's job is run once, with its own data. A
  slot is on the stack, with a caller, waiting with a job, or busy
  (`SlotPlaces`);
* `JobsAreCalledOnce` (`ThreadPool`): no job is called twice or lost, also while
  the pool stops. A job is in the queue, with one thread, or done (`JobPlaces`);
  the semaphore and the threads it has released count the queue (`TokenInv`); the
  terminate job is the last in the queue (`TerminateInv`). Pools of up to three
  threads are joined after two calls of `stop` (`JoinInv`), which fails from four
  on;
* `FramesAreSound`: no two threads hold one buffer, each frame leaves with the
  headers of its own packet, and `sendPkt` returns "sent" exactly if one left,
  without `"shared"` and `"initFails"` (`FrameFaults`). Every buffer cut from a
  chunk is in one place (`BuffersInv`), and the headers are the sender's own from
  the time it fills them (`FrameInv`);
* `PacketsStayApart`: a packet, its data and its optional headers have one
  holder, and start empty, in both builds (`HoldersInv`, `ContentsInv`,
  `HeadersInv`).

The theorems `Parts...` carry these over to `PartsSpec`, the specification that
`x_parts` checks: a part that is not the behaviour's own stays in its initial
state, so each is `Init`, step and stutter of one part. They are about the
constants of `MCParts` only where those name the inputs of `Routing` and `Wire`.

Only model-checked:

* `CloseIsMutual`, which is about runs of bounded length (its evidence that the
  retries were used up is a counter that wraps, see "Channel" above);
* the parts of `HandlersSound` other than `FlowsApart`. That of `BasicChannel`
  is not true of an unlimited number of reorderings, since numbers repeat;
* all liveness: temporal proofs under fairness are out of TLAPS' reach, too.

## 5. Not modelled

* Round-trip time estimators and statistics, and the lengths of timeouts: a
  timeout is an event that may come when its timer runs. Sizes of packets count
  only where a header limits them.
* The thread of a `Client4Server` and the workers of `ServerConnection` other
  than as the order in which its queue is emptied.
* The netlink variant of the interface monitor (compiled, not started), reading
  `/proc`, setting up sockets and their rings.
* Code that is not compiled or not called, logging, profiling, printing,
  wrappers and the evaluation programs. `PROJECT.json` says of each why.

What would come next: `Flow` over `Scheduler` in place of the fair path `Flow`
assumes, with the flows of `Multiplexer` and the connection thread waiting in a
full queue; a bound on the delay of datagrams in place of `FewPackets`; and the
refinement of `Scheduler` by `Channel` for the channels it now abstracts.
