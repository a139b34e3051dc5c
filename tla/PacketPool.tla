----------------------------- MODULE PacketPool -----------------------------
(***************************************************************************)
(* Where packets and their acknowledgement headers come from and go: the   *)
(* PacketPool, and an AppPool of headers.  Both cut objects from an array, *)
(* and only when the array is used up do they reuse what was freed, from   *)
(* an AppStack.  An object that is reused is as its last holder left it,   *)
(* until getNewPacket has cleared it, which it does outside the lock.      *)
(* The Makefile builds without pools (NO_POOL): every object is then new.  *)
(***************************************************************************)
EXTENDS Naturals, Sequences, FiniteSets, SequencesExt

CONSTANTS PoolThread,   \* threads that take, fill and free packets
          PacketsPerPool, \* PACKETS_PER_POOL (128)
          MaxDataSize,  \* MAX_PACKET_DATA_SIZE
          MaxHeaders,   \* acknowledgement headers on a packet, at most
          MaxTakes      \* bound on packets taken

PacketPoolAssumption ==
  PacketsPerPool \in Nat \ {0} /\ MaxDataSize \in Nat \ {0} /\ {MaxHeaders, MaxTakes} \subseteq Nat
ASSUME PacketPoolAssumption

VARIABLES pooled,       \* FALSE when the program is compiled with NO_POOL
          packetPool, headerPool,
          packets,      \* every packet there is, numbered as they were cut
          taker,        \* what each thread is doing
          held,         \* packets in use: any thread may be handed one of them
          takes

packetVars == <<pooled, packetPool, headerPool, packets, taker, held, takes>>

\* pool_ is the AppStack, total how many objects the arrays have, out circullarCnt.
NewPool == [stack |-> <<>>, top |-> PacketsPerPool, total |-> 0, out |-> 0]

\* The members that reInitHeader sets: used stands for all that describe the payload
\* and the way of the packet; opt is optHeaders.
NewPacket == [data |-> FALSE, capa |-> 0, used |-> FALSE, opt |-> <<>>]
IdleTaker == [pc |-> "idle", pkt |-> 0, withData |-> FALSE]

PacketPoolInit ==
  /\ pooled \in BOOLEAN
  /\ packetPool = NewPool /\ headerPool = NewPool /\ packets = <<>>
  /\ taker = [t \in PoolThread |-> IdleTaker] /\ held = {} /\ takes = 0

-----------------------------------------------------------------------------
(* AppStack.                                                                  *)

Empty(pool) == pool.stack = <<>>
Top(pool) == Last(pool.stack)

\* Mutant of Pop: the object stays on the stack.
PopNot(pool) == pool

Pop(pool) == [pool EXCEPT !.stack = Front(@)]
Push(pool, x) ==
  [pool EXCEPT !.stack = IF pooled THEN Append(@, x) ELSE @, !.out = @ - 1]

(* getNew and getNewPacket under the lock: which object, and the pool then.   *)

Cut == IF pooled THEN PacketsPerPool ELSE 1
ArrayUsed(pool) == pool.top = PacketsPerPool
NewArray(pool) == pooled => ArrayUsed(pool) /\ Empty(pool)

Object(pool) ==
  IF NewArray(pool) THEN pool.total + 1
  ELSE IF ArrayUsed(pool) THEN Top(pool)
  ELSE pool.total - PacketsPerPool + pool.top + 1

Taken(pool) ==
  LET rest == IF NewArray(pool) THEN [pool EXCEPT !.total = @ + Cut, !.top = 1]
              ELSE IF ArrayUsed(pool) THEN Pop(pool)
              ELSE [pool EXCEPT !.top = @ + 1]
  IN [rest EXCEPT !.out = @ + 1]

\* getNewPacket(TRUE) gives up the buffer of a packet that has one; capa stays.
GetNewPacket(t, withData) ==
  /\ taker[t].pc = "idle" /\ takes < MaxTakes /\ takes' = takes + 1
  /\ LET n == Object(packetPool)
         all == IF NewArray(packetPool)
                  THEN packets \o [k \in 1 .. Cut |-> NewPacket] ELSE packets
     IN /\ taker' = [taker EXCEPT ![t] = [pc |-> "clear", pkt |-> n, withData |-> withData]]
        /\ packets' = IF withData THEN all ELSE [all EXCEPT ![n].data = FALSE]
  /\ packetPool' = Taken(packetPool)
  /\ UNCHANGED <<pooled, headerPool, held>>

ReInitHeader(pkt) == [pkt EXCEPT !.used = FALSE, !.opt = <<>>]

WithData(pkt) == IF pkt.data THEN pkt ELSE [pkt EXCEPT !.data = TRUE, !.capa = MaxDataSize]

HandOut(t) ==
  /\ taker[t].pc = "clear"
  /\ packets' = [packets EXCEPT ![taker[t].pkt] =
       IF taker[t].withData THEN WithData(ReInitHeader(@)) ELSE ReInitHeader(@)]
  /\ taker' = [taker EXCEPT ![t].pc = "new"]
  /\ UNCHANGED <<pooled, packetPool, headerPool, held, takes>>

-----------------------------------------------------------------------------
\* The holder fills a packet; decodeHeader puts headers from the pool on it.
AddAckHeader(t) ==
  LET n == taker[t].pkt IN
  /\ taker[t].pc = "new" /\ Len(packets[n].opt) < MaxHeaders
  /\ packets' = [packets EXCEPT ![n].opt = <<Object(headerPool)>> \o @]
  /\ headerPool' = Taken(headerPool)
  /\ UNCHANGED <<pooled, packetPool, taker, held, takes>>

PassOn(t) ==
  /\ taker[t].pc = "new"
  /\ packets' = [packets EXCEPT ![taker[t].pkt].used = TRUE]
  /\ held' = held \cup {taker[t].pkt} /\ taker' = [taker EXCEPT ![t] = IdleTaker]
  /\ UNCHANGED <<pooled, packetPool, headerPool, takes>>

\* freeOptionalHeaderToPool; the packet's own list is emptied in freePacket.
\* Mutant of FreeOptionalHeader: only the first header goes back.
FreeOptionalHeaderFirst(pool, opt) == IF opt = <<>> THEN pool ELSE Push(pool, Head(opt))

FreeOptionalHeader(pool, opt) ==
  [pool EXCEPT !.stack = IF pooled THEN @ \o opt ELSE @, !.out = @ - Len(opt)]

FreePacket(n) ==
  /\ n \in held /\ held' = held \ {n}
  /\ headerPool' = FreeOptionalHeader(headerPool, packets[n].opt)
  /\ packets' = [packets EXCEPT ![n].opt = <<>>]
  /\ packetPool' = Push(packetPool, n)
  /\ UNCHANGED <<pooled, taker, takes>>

PacketPoolNext ==
  \/ \E t \in PoolThread : \/ \E withData \in BOOLEAN : GetNewPacket(t, withData)
                           \/ HandOut(t) \/ AddAckHeader(t) \/ PassOn(t)
  \/ \E n \in held : FreePacket(n)

PacketPoolSpec == PacketPoolInit /\ [][PacketPoolNext]_packetVars

-----------------------------------------------------------------------------
InHand == {taker[t].pkt : t \in {u \in PoolThread : taker[u].pc # "idle"}}
Distinct(s) == Cardinality(ToSet(s)) = Len(s)

\* A packet has one holder, or is on the stack once, or was never used; so has an
\* acknowledgement header, and those of a packet come back with it. Whoever gets a
\* packet finds nothing of its last journey, and a buffer if it asked for one.
PacketsApart ==
  LET stack == packetPool.stack
      headersOf(n) == ToSet(packets[n].opt)
      onPackets == UNION {headersOf(n) : n \in DOMAIN packets}
  IN /\ Distinct(stack) /\ ToSet(stack) \cap (held \cup InHand) = {} /\ held \cap InHand = {}
     /\ \A t, u \in PoolThread :
          taker[t].pc # "idle" /\ taker[t].pkt = taker[u].pkt => t = u
     /\ packetPool.out = Cardinality(held \cup InHand)
     /\ \A n \in DOMAIN packets : Distinct(packets[n].opt)
     /\ \A n, m \in DOMAIN packets : n # m => headersOf(n) \cap headersOf(m) = {}
     /\ Distinct(headerPool.stack) /\ ToSet(headerPool.stack) \cap onPackets = {}
     /\ headerPool.out = Cardinality(onPackets)
     /\ \A t \in PoolThread : taker[t].pc = "new" =>
          /\ ~packets[taker[t].pkt].used
          /\ taker[t].withData => packets[taker[t].pkt].data /\ packets[taker[t].pkt].capa = MaxDataSize
=============================================================================
