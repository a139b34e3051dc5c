---------------------------- MODULE Parts_proofs ----------------------------
(***************************************************************************)
(* The proofs about the parts of the program that MCParts runs side by     *)
(* side: the interfaces of a client, the choice of one for a packet, the   *)
(* flows of a multiplexer and, with Pools_proofs and Waits_proofs, the     *)
(* specification in which a behaviour is about any one of the parts.       *)
(***************************************************************************)
EXTENDS MCParts, Pools_proofs

\* Interfaces and their channels (Interfaces).

\* The addresses populateInterfaces gives an id to, and the place of one among them.
NewComers == {x.ip : x \in {y \in Found : ip2InterfaceIdMap[y.ip] = 0}}
Rank(a) == Cardinality({b \in NewComers : b <= a})
Known == {a \in Ip : ip2InterfaceIdMap[a] # 0}

\* The files describe interfaces of this client.
NetInv ==
  /\ up \subseteq Ip
  /\ \E S \in SUBSET Ip : files = [a \in S |-> File(a)]

\* Ids are numbered as they are given out, no two addresses share one, and a sender
\* stands in the slot of its address.
IdInv ==
  /\ ip2InterfaceIdMap \in [Ip -> Nat] /\ nextInterfaceId \in Nat
  /\ \A a \in Ip : ip2InterfaceIdMap[a] <= nextInterfaceId
  /\ \A a, b \in Ip : ip2InterfaceIdMap[a] = ip2InterfaceIdMap[b] => a = b \/ ip2InterfaceIdMap[a] = 0
  /\ Cardinality(Known) = nextInterfaceId

SenderInv ==
  /\ interfaceSender = [i \in Id |-> interfaceSender[i]]
  /\ \A i \in Id : \/ interfaceSender[i] = NoSender
                   \/ /\ interfaceSender[i].ip \in Ip
                      /\ ip2InterfaceIdMap[interfaceSender[i].ip] = i

IdsInv == NetInv /\ IdInv /\ SenderInv

(***************************************************************************)
(* Whatever the monitor finds has one of the client's addresses.           *)
(***************************************************************************)
LEMMA FoundAddresses ==
  ASSUME NetInv
  PROVE  \A x \in Found : x.ip \in Ip
<1>1. ASSUME NEW x \in IpMatrixUsingHack(files, answers) PROVE x.ip \in Ip
  <2>1. PICK S \in SUBSET Ip : files = [a \in S |-> File(a)]
    BY DEF NetInv
  <2>2. x.ip \in {files[n].ip : n \in {m \in DOMAIN files : Complete(files[m])}}
    <3>1. x.ip \in DOMAIN GatewaysUsingIfHack(files)
      BY DEF IpMatrixUsingHack
    <3>2. DOMAIN GatewaysUsingIfHack(files)
            = {files[n].ip : n \in {m \in DOMAIN files : Complete(files[m])}}
      BY DEF GatewaysUsingIfHack
    <3>3. QED
      BY <3>1, <3>2
  <2>3. QED
    BY <2>1, <2>2 DEF File
<1>2. ASSUME NEW x \in IpMatrixUsingRoute(Routes, Addresses, answers) PROVE x.ip \in Ip
  <2>1. PICK f \in DOMAIN Addresses : x.ip = Addresses[f]
    BY DEF IpMatrixUsingRoute
  <2>2. f \in {IfaceOf(a) : a \in up} /\ Addresses[f] = CHOOSE a \in up : IfaceOf(a) = f
    BY <2>1 DEF Addresses
  <2>3. QED
    BY <2>1, <2>2 DEF NetInv
<1>3. QED
  BY <1>1, <1>2 DEF Found, GetIpMatrix

(***************************************************************************)
(* The place of an address among the fresh ones is positive, at most their *)
(* number, and its own.                                                    *)
(***************************************************************************)
LEMMA RankIsPlace ==
  ASSUME NewComers \subseteq Ip
  PROVE  /\ IsFiniteSet(NewComers) /\ Cardinality(NewComers) \in Nat
         /\ \A a \in NewComers : Rank(a) \in Nat /\ Rank(a) > 0 /\ Rank(a) <= Cardinality(NewComers)
         /\ \A a, b \in NewComers : Rank(a) = Rank(b) => a = b
<1> DEFINE Upto(a) == {b \in NewComers : b <= a}
<1>1. Ip \subseteq Nat /\ IsFiniteSet(NewComers)
  <2>1. Ip \subseteq Nat /\ IsFiniteSet(Ip)
    BY InterfacesAssumption DEF InterfacesAssumption
  <2>2. QED
    BY <2>1, FS_Subset
<1>2. \A a \in NewComers : IsFiniteSet(Upto(a)) /\ Cardinality(Upto(a)) <= Cardinality(NewComers)
  BY <1>1, FS_Subset
<1>3. Cardinality(NewComers) \in Nat /\ \A a \in NewComers : Cardinality(Upto(a)) \in Nat
  BY <1>1, <1>2, FS_CardinalityType
<1>4. \A a \in NewComers : a \in Upto(a)
  BY <1>1
<1>5. \A a \in NewComers : Cardinality(Upto(a)) # 0
  BY <1>2, <1>4, FS_EmptySet
<1>6. ASSUME NEW a \in NewComers, NEW b \in NewComers, a < b PROVE Cardinality(Upto(a)) # Cardinality(Upto(b))
  <2>1. Upto(a) \subseteq Upto(b) /\ b \notin Upto(a)
    <3>1. a \in Nat /\ b \in Nat /\ \A x \in NewComers : x \in Nat
      BY <1>1
    <3>2. ~(b <= a) /\ \A x \in NewComers : x <= a => x <= b
      BY <1>6, <3>1
    <3>3. QED
      BY <3>2
  <2>2. IsFiniteSet(Upto(b)) /\ Upto(a) \in SUBSET Upto(b) /\ b \in Upto(b)
    BY <1>2, <1>4, <2>1
  <2> HIDE DEF Upto
  <2>3. Cardinality(Upto(b)) = Cardinality(Upto(a)) => Upto(b) = Upto(a)
    BY <2>2, FS_Subset, Zenon
  <2>4. QED
    BY <2>1, <2>2, <2>3
<1>7. ASSUME NEW a \in NewComers, NEW b \in NewComers, Cardinality(Upto(a)) = Cardinality(Upto(b)) PROVE a = b
  <2>1. a \in Nat /\ b \in Nat
    BY <1>1
  <2>2. ~(a < b) /\ ~(b < a)
    BY <1>6, <1>7
  <2>3. QED
    BY <2>1, <2>2
<1>8. \A a \in NewComers : Rank(a) = Cardinality(Upto(a))
  BY DEF Rank
<1> HIDE DEF Upto
<1>9. QED
  BY <1>1, <1>2, <1>3, <1>5, <1>7, <1>8

(***************************************************************************)
(* What NewIdOf is for every address.                                      *)
(***************************************************************************)
LEMMA NewIds ==
  \A a \in Ip : NewIdOf(a) = IF a \in NewComers THEN nextInterfaceId + Rank(a) ELSE ip2InterfaceIdMap[a]
BY DEF NewIdOf, NewComers, Rank

(***************************************************************************)
(* populateInterfaces numbers the addresses it finds for the first time    *)
(* from the next free number on.                                           *)
(***************************************************************************)
LEMMA PopulateKeepsIds ==
  ASSUME NetInv, IdInv, PopulateInterfaces
  PROVE  /\ IdInv'
         /\ \A a \in Ip : ip2InterfaceIdMap[a] # 0 => ip2InterfaceIdMap'[a] = ip2InterfaceIdMap[a]
<1>1. NewComers \subseteq Ip /\ \A a \in NewComers : ip2InterfaceIdMap[a] = 0
  BY FoundAddresses DEF NewComers
<1>2. /\ IsFiniteSet(NewComers) /\ Cardinality(NewComers) \in Nat
      /\ \A a \in NewComers : Rank(a) \in Nat /\ Rank(a) > 0 /\ Rank(a) <= Cardinality(NewComers)
      /\ \A a, b \in NewComers : Rank(a) = Rank(b) => a = b
  BY <1>1, RankIsPlace
<1>3. ip2InterfaceIdMap' = [a \in Ip |-> NewIdOf(a)]
  BY DEF PopulateInterfaces
<1>4. \A a \in Ip : ip2InterfaceIdMap'[a] = IF a \in NewComers THEN nextInterfaceId + Rank(a) ELSE ip2InterfaceIdMap[a]
  BY <1>3, NewIds
<1>5. {a \in Ip : NewIdOf(a) # ip2InterfaceIdMap[a]} = NewComers
  <2>1. \A a \in NewComers : nextInterfaceId + Rank(a) # 0
    BY <1>2 DEF IdInv
  <2>2. QED
    BY <1>1, <2>1, NewIds
<1>6. nextInterfaceId' = nextInterfaceId + Cardinality(NewComers)
  BY <1>5 DEF PopulateInterfaces
<1>7. Known' = Known \cup NewComers
  <2>1. \A a \in NewComers : nextInterfaceId + Rank(a) # 0
    BY <1>2 DEF IdInv
  <2>2. Known' = {a \in Ip : ip2InterfaceIdMap'[a] # 0}
    BY DEF Known
  <2>3. QED
    BY <1>1, <1>4, <2>1, <2>2 DEF Known
<1>8. Cardinality(Known') = nextInterfaceId'
  <2>1. Known \cap NewComers = {} /\ Known \subseteq Ip
    BY <1>1 DEF Known
  <2>2. IsFiniteSet(Known) /\ Cardinality({}) = 0
    BY <2>1, FS_Subset, FS_EmptySet, InterfacesAssumption DEF InterfacesAssumption
  <2>3. Cardinality(Known \cup NewComers) = Cardinality(Known) + Cardinality(NewComers) - 0
    <3>1. Cardinality(Known \cup NewComers)
            = Cardinality(Known) + Cardinality(NewComers) - Cardinality(Known \cap NewComers)
      BY <1>2, <2>2, FS_Union
    <3>2. QED
      BY <2>1, <2>2, <3>1
  <2>4. QED
    BY <1>2, <1>6, <1>7, <2>3 DEF IdInv
<1>9. ip2InterfaceIdMap' \in [Ip -> Nat] /\ nextInterfaceId' \in Nat
  <2>1. \A a \in Ip : ip2InterfaceIdMap'[a] \in Nat
    BY <1>2, <1>4 DEF IdInv
  <2>2. QED
    BY <1>2, <1>3, <1>6, <2>1 DEF IdInv
<1>10. \A a \in Ip : ip2InterfaceIdMap'[a] <= nextInterfaceId'
  BY <1>2, <1>4, <1>6 DEF IdInv
<1>11. ASSUME NEW a \in Ip, NEW b \in Ip, ip2InterfaceIdMap'[a] = ip2InterfaceIdMap'[b]
       PROVE  a = b \/ ip2InterfaceIdMap'[a] = 0
  <2>1. CASE a \in NewComers /\ b \in NewComers
    BY <1>2, <1>4, <1>11, <2>1 DEF IdInv
  <2>2. CASE a \in NewComers /\ b \notin NewComers
    BY <1>2, <1>4, <1>11, <2>2 DEF IdInv
  <2>3. CASE a \notin NewComers /\ b \in NewComers
    BY <1>2, <1>4, <1>11, <2>3 DEF IdInv
  <2>4. CASE a \notin NewComers /\ b \notin NewComers
    BY <1>4, <1>11, <2>4 DEF IdInv
  <2>5. QED
    BY <2>1, <2>2, <2>3, <2>4
<1>12. QED
  BY <1>1, <1>4, <1>8, <1>9, <1>10, <1>11 DEF IdInv

(***************************************************************************)
(* It makes senders only in the slots of their addresses.                  *)
(***************************************************************************)
LEMMA PopulateKeepsSenders ==
  ASSUME NetInv, IdInv, SenderInv, PopulateInterfaces
  PROVE  SenderInv'
<1>1. interfaceSender' = [i \in Id |->
         IF interfaceSender[i] = NoSender /\ \E x \in Found : NewIdOf(x.ip) = i
           THEN CHOOSE x \in Found : NewIdOf(x.ip) = i ELSE interfaceSender[i]]
  BY DEF PopulateInterfaces
<1>2. ASSUME NEW i \in Id
      PROVE  \/ interfaceSender'[i] = NoSender
             \/ /\ interfaceSender'[i].ip \in Ip
                /\ ip2InterfaceIdMap'[interfaceSender'[i].ip] = i
  <2>1. CASE interfaceSender[i] = NoSender /\ \E x \in Found : NewIdOf(x.ip) = i
    <3>1. PICK x \in Found : NewIdOf(x.ip) = i /\ interfaceSender'[i] = x
      BY <1>1, <2>1
    <3>2. x.ip \in Ip
      BY FoundAddresses
    <3>3. QED
      BY <3>1, <3>2 DEF PopulateInterfaces
  <2>2. CASE ~(interfaceSender[i] = NoSender /\ \E x \in Found : NewIdOf(x.ip) = i)
    <3>1. interfaceSender'[i] = interfaceSender[i]
      BY <1>1, <2>2
    <3>2. i # 0
      BY DEF Id
    <3>3. QED
      BY <3>1, <3>2, PopulateKeepsIds DEF SenderInv
  <2>3. QED
    BY <2>1, <2>2
<1>3. DOMAIN interfaceSender' = Id
  BY <1>1
<1>4. interfaceSender' = [i \in Id |-> interfaceSender'[i]]
  BY <1>1, <1>3
<1>5. QED
  BY <1>2, <1>4 DEF SenderInv, Id

(***************************************************************************)
(* Before the program starts nobody has an id.                             *)
(***************************************************************************)
LEMMA InitIds == Init => IdsInv
<1> SUFFICES ASSUME Init PROVE IdsInv
  OBVIOUS
<1>1. NetInv
  <2>1. files = [a \in up |-> File(a)] \/ files = [a \in {} |-> File(a)]
    BY DEF Init
  <2>2. up \in SUBSET Ip /\ {} \in SUBSET Ip
    BY DEF Init
  <2>3. QED
    BY <2>1, <2>2 DEF NetInv
<1>2. Known = {}
  BY DEF Init, Known
<1>3. IdInv
  BY <1>2, FS_EmptySet DEF Init, IdInv
<1>4. SenderInv
  BY DEF Init, SenderInv
<1>5. QED
  BY <1>1, <1>3, <1>4 DEF IdsInv

(***************************************************************************)
(* No step disturbs the invariant.  Only the network, populateInterfaces   *)
(* and removeInterface touch what it is about.                             *)
(***************************************************************************)
LEMMA StepIds == IdsInv /\ [Next]_vars => IdsInv'
<1> SUFFICES ASSUME IdsInv, [Next]_vars PROVE IdsInv'
  OBVIOUS
<1> USE DEF IdsInv
<1>1. ASSUME UNCHANGED <<up, files, ip2InterfaceIdMap, nextInterfaceId, interfaceSender>>
      PROVE  IdsInv'
  BY <1>1 DEF NetInv, IdInv, SenderInv, Known
<1>2. ASSUME NEW a \in Ip, IfUp(a) \/ IfDown(a) PROVE IdsInv'
  <2>1. PICK S \in SUBSET Ip : files = [b \in S |-> File(b)]
    BY DEF NetInv
  <2>2. DOMAIN files = S
    BY <2>1
  <2>3. files' = [b \in S \cup {a} |-> File(b)] \/ files' = [b \in S \ {a} |-> File(b)]
    BY <1>2, <2>2 DEF IfUp, IfDown
  <2>4. S \cup {a} \in SUBSET Ip /\ S \ {a} \in SUBSET Ip
    OBVIOUS
  <2>5. up' \subseteq Ip
    BY <1>2 DEF IfUp, IfDown, NetInv
  <2>6. NetInv'
    BY <2>3, <2>4, <2>5 DEF NetInv, File
  <2>7. UNCHANGED <<ip2InterfaceIdMap, nextInterfaceId, interfaceSender>>
    BY <1>2 DEF IfUp, IfDown, monVars
  <2>8. QED
    BY <2>6, <2>7 DEF IdInv, SenderInv, Known
<1>3. ASSUME Start \/ ReadUp PROVE IdsInv'
  <2>1. PopulateInterfaces /\ UNCHANGED <<up, files>>
    BY <1>3 DEF Start, ReadUp
  <2>2. NetInv'
    BY <2>1 DEF NetInv
  <2>3. QED
    BY <2>1, <2>2, PopulateKeepsIds, PopulateKeepsSenders
<1>4. ASSUME RemoveInterface PROVE IdsInv'
  <2>1. UNCHANGED <<up, files, ip2InterfaceIdMap, nextInterfaceId>>
    BY <1>4 DEF RemoveInterface
  <2>2. interfaceSender' = [interfaceSender EXCEPT ![mon.id] = NoSender]
    BY <1>4 DEF RemoveInterface
  <2>3. \A i \in Id : interfaceSender'[i] = NoSender \/ interfaceSender'[i] = interfaceSender[i]
    BY <2>2 DEF SenderInv
  <2>4. interfaceSender' = [i \in Id |-> interfaceSender'[i]]
    BY <2>2 DEF SenderInv
  <2>5. SenderInv'
    BY <2>1, <2>3, <2>4 DEF SenderInv
  <2>6. QED
    BY <2>1, <2>5 DEF NetInv, IdInv, Known
<1>5. ASSUME \/ Attach \/ ReadDown \/ InterfaceAdded \/ InterfaceRemoved \/ TestLocal \/ AddLocal
             \/ \E r \in Remote : AddRemote(r)
      PROVE  IdsInv'
  BY <1>1, <1>5 DEF Attach, ReadDown, InterfaceAdded, InterfaceRemoved, TestLocal, AddLocal,
                    AddRemote, monVars
<1>6. ASSUME \/ \E l \in Id, p \in Pair : SendRemoval(l, p)
             \/ \E m \in net : RecvChs(m) \/ RecvRemoval(m)
      PROVE  IdsInv'
  BY <1>1, <1>6 DEF SendRemoval, RecvChs, RecvRemoval, monVars
<1>7. CASE UNCHANGED vars
  BY <1>1, <1>7 DEF vars, monVars
<1>8. QED
  BY <1>2, <1>3, <1>4, <1>5, <1>6, <1>7 DEF Next, Network, Run

\* The ids are in order in every reachable state.
LEMMA IdsInvariant == Spec => []IdsInv
BY InitIds, StepIds, PTL DEF Spec

(***************************************************************************)
(* An interface id names one address for good, and the sender kept under   *)
(* it is that address's (populateInterfaces, removeInterface).             *)
(***************************************************************************)
THEOREM IdsNameAddresses == Spec => []IdNamesOneAddress
<1>1. IdsInv => IdNamesOneAddress
  <2> SUFFICES ASSUME IdsInv PROVE IdNamesOneAddress
    OBVIOUS
  <2>1. ASSUME NEW a \in Ip, ip2InterfaceIdMap[a] # 0
        PROVE  interfaceSender[ip2InterfaceIdMap[a]].ip \in {a, 0}
    <3>1. ip2InterfaceIdMap[a] \in Id
      <4>1. Known \subseteq Ip /\ IsFiniteSet(Ip)
        BY InterfacesAssumption DEF InterfacesAssumption, Known
      <4>2. Cardinality(Known) <= Cardinality(Ip) /\ Cardinality(Ip) \in Nat
        BY <4>1, FS_Subset, FS_CardinalityType
      <4>3. QED
        BY <2>1, <4>2 DEF IdsInv, IdInv, Id
    <3>2. CASE interfaceSender[ip2InterfaceIdMap[a]] = NoSender
      BY <3>2 DEF NoSender
    <3>3. CASE interfaceSender[ip2InterfaceIdMap[a]] # NoSender
      BY <2>1, <3>1, <3>3 DEF IdsInv, IdInv, SenderInv
    <3>4. QED
      BY <3>2, <3>3
  <2>2. QED
    BY <2>1 DEF IdsInv, IdInv, IdNamesOneAddress
<1>2. QED
  BY <1>1, IdsInvariant, PTL

(***************************************************************************)
(* And it stays: no step takes an id away or gives the address another, so *)
(* an address that comes back finds its id (populateInterfaces).           *)
(***************************************************************************)
THEOREM IdsStay ==
  Spec => [][\A a \in Ip : ip2InterfaceIdMap[a] # 0 => ip2InterfaceIdMap'[a] = ip2InterfaceIdMap[a]]_vars
<1> DEFINE Stays == \A a \in Ip : ip2InterfaceIdMap[a] # 0 => ip2InterfaceIdMap'[a] = ip2InterfaceIdMap[a]
<1>1. IdsInv /\ [Next]_vars => [Stays]_vars
  <2> SUFFICES ASSUME IdsInv, Next PROVE Stays
    OBVIOUS
  <2>1. PopulateInterfaces => Stays
    BY PopulateKeepsIds DEF IdsInv
  <2>2. UNCHANGED ip2InterfaceIdMap => Stays
    OBVIOUS
  <2> HIDE DEF Stays
  <2>3. ASSUME NEW a \in Ip, IfUp(a) \/ IfDown(a) PROVE Stays
    BY <2>2, <2>3 DEF IfUp, IfDown, monVars
  <2>4. Start \/ ReadUp => Stays
    BY <2>1 DEF Start, ReadUp
  <2>5. \/ Attach \/ ReadDown \/ InterfaceAdded \/ InterfaceRemoved \/ RemoveInterface \/ TestLocal
        \/ AddLocal \/ \E r \in Remote : AddRemote(r)
        => Stays
    BY <2>2 DEF Attach, ReadDown, InterfaceAdded, InterfaceRemoved, RemoveInterface, TestLocal,
                AddLocal, AddRemote, monVars
  <2>6. (\E l \in Id, pair \in Pair : SendRemoval(l, pair)) \/ (\E m \in net : RecvChs(m) \/ RecvRemoval(m))
        => Stays
    BY <2>2 DEF SendRemoval, RecvChs, RecvRemoval, monVars
  <2>7. QED
    BY <2>3, <2>4, <2>5, <2>6 DEF Next, Network, Run
<1>2. QED
  BY <1>1, IdsInvariant, PTL DEF Spec

-----------------------------------------------------------------------------
(* Channels and their senders.                                               *)

Shape ==
  /\ channels = [p \in Pair |-> channels[p]]
  /\ hs = [remotes |-> hs.remotes, r |-> hs.r, l |-> hs.l, todo |-> hs.todo]
  /\ mon = [pc |-> mon.pc, id |-> mon.id, todo |-> mon.todo]
  /\ pipe \in Seq(Event)

\* Interfaces go away only once the handshake has added its channels.
SettledInv ==
  /\ Settled => hs.l = 0
  /\ mon.pc \in {"removed", "delete"} => Settled
  /\ (\E i \in DOMAIN pipe : pipe[i][1] = "ifdown") => Settled

\* Whoever is about to add a channel has seen its sender, and whoever is about to
\* remove a sender has removed its channels.
HandInv ==
  /\ hs.l \in Id => interfaceSender[hs.l] # NoSender
  /\ mon.pc = "added" /\ mon.id \in Id => interfaceSender[mon.id] # NoSender
  /\ mon.pc = "removed" => \A p \in Pair : p[1] = mon.id /\ channels[p] # 0 => p[2] \in mon.todo
  /\ mon.pc = "delete" => \A p \in Pair : p[1] = mon.id => channels[p] = 0

ServeInv == Shape /\ SettledInv /\ HandInv /\ ChannelsHaveSender

(***************************************************************************)
(* populateInterfaces takes no sender away.                                *)
(***************************************************************************)
LEMMA PopulateKeepsSender ==
  ASSUME NetInv, SenderInv, PopulateInterfaces
  PROVE  \A i \in Id : interfaceSender[i] # NoSender => interfaceSender'[i] # NoSender
<1>1. interfaceSender' = [i \in Id |->
         IF interfaceSender[i] = NoSender /\ \E x \in Found : NewIdOf(x.ip) = i
           THEN CHOOSE x \in Found : NewIdOf(x.ip) = i ELSE interfaceSender[i]]
  BY DEF PopulateInterfaces
<1>2. QED
  BY <1>1

(***************************************************************************)
(* Adding a channel to an interface that has a sender is safe.             *)
(***************************************************************************)
LEMMA AddChannelServed ==
  ASSUME Shape, ChannelsHaveSender, NEW l, NEW r, AddChannel(<<l, r>>), UNCHANGED interfaceSender,
         l \in Id => interfaceSender[l] # NoSender
  PROVE  /\ ChannelsHaveSender'
         /\ channels' = [p \in Pair |-> channels'[p]]
<1>1. CASE channels[<<l, r>>] # 0
  BY <1>1 DEF AddChannel, ChannelsHaveSender, Shape
<1>2. CASE ~(channels[<<l, r>>] # 0)
  <2>1. channels' = [channels EXCEPT ![<<l, r>>] = born + 1]
    BY <1>2 DEF AddChannel
  <2>2. channels' = [p \in Pair |-> channels'[p]]
    BY <2>1 DEF Shape
  <2>3. ASSUME NEW p \in Pair, channels'[p] # 0 PROVE interfaceSender[p[1]] # NoSender
    <3>1. CASE p = <<l, r>>
      BY <3>1 DEF Pair
    <3>2. CASE p # <<l, r>>
      BY <2>1, <2>3, <3>2 DEF Shape, ChannelsHaveSender
    <3>3. QED
      BY <3>1, <3>2
  <2>4. QED
    BY <2>2, <2>3 DEF ChannelsHaveSender
<1>3. QED
  BY <1>1, <1>2

\* There is no channel at first.
LEMMA InitServe == Init => ServeInv
<1> SUFFICES ASSUME Init PROVE ServeInv
  OBVIOUS
<1>1. channels = [p \in Pair |-> 0] /\ pipe = <<>> /\ mon = Idle
      /\ hs = [remotes |-> Remote, r |-> 0, l |-> 0, todo |-> {}]
  BY DEF Init
<1>2. Shape
  BY <1>1 DEF Shape, Idle
<1>3. SettledInv /\ HandInv /\ ChannelsHaveSender
  BY <1>1 DEF SettledInv, HandInv, ChannelsHaveSender, Idle, Id
<1>4. QED
  BY <1>2, <1>3 DEF ServeInv

(***************************************************************************)
(* The steps of the invariant, for a program whose interfaces do not go    *)
(* away during the handshake.                                              *)
(***************************************************************************)
LEMMA StepServe ==
  ASSUME "duringHandshake" \notin FaultKinds, IdsInv, ServeInv, [Next]_vars
  PROVE  ServeInv'
<1> USE DEF ServeInv
<1>1. ASSUME UNCHANGED <<pipe, mon, interfaceSender, hs, channels>> PROVE ServeInv'
  BY <1>1 DEF Shape, SettledInv, HandInv, ChannelsHaveSender, Settled
<1>2. ASSUME NEW a \in Ip, IfUp(a) PROVE ServeInv'
  <2>1. UNCHANGED <<mon, interfaceSender, hs, channels>>
        /\ (pipe' = pipe \/ pipe' = Append(pipe, <<"ifup", a>>))
    BY <1>2 DEF IfUp, Tell, monVars, schVars
  <2>2. pipe' \in Seq(Event) /\ ((\E i \in DOMAIN pipe' : pipe'[i][1] = "ifdown")
                                   => \E i \in DOMAIN pipe : pipe[i][1] = "ifdown")
    <3>1. <<"ifup", a>> \in Event /\ pipe \in Seq(Event)
      BY DEF Event, Shape
    <3> DEFINE e == <<"ifup", a>>
    <3>2. e[1] # "ifdown"
      OBVIOUS
    <3> HIDE DEF e
    <3>3. CASE pipe' = Append(pipe, e)
      <4>1. pipe' \in Seq(Event) /\ DOMAIN pipe' = 1 .. Len(pipe) + 1
        BY <3>1, <3>3 DEF e
      <4>2. \A i \in DOMAIN pipe' : pipe'[i] = IF i \in DOMAIN pipe THEN pipe[i] ELSE e
        BY <3>1, <3>3, <4>1
      <4>3. QED
        BY <3>2, <4>1, <4>2
    <3>4. QED
      BY <2>1, <3>1, <3>3 DEF e
  <2>3. QED
    BY <2>1, <2>2 DEF Shape, SettledInv, HandInv, ChannelsHaveSender, Settled
<1>3. ASSUME NEW a \in Ip, IfDown(a) PROVE ServeInv'
  <2>1. UNCHANGED <<mon, interfaceSender, hs, channels>> /\ Settled
        /\ (pipe' = pipe \/ pipe' = Append(pipe, <<"ifdown", a>>))
    BY <1>3 DEF IfDown, Tell, monVars, schVars
  <2>2. pipe' \in Seq(Event)
    <3> DEFINE e == <<"ifdown", a>>
    <3>1. e \in Event /\ pipe \in Seq(Event)
      BY DEF Event, Shape
    <3> HIDE DEF e
    <3>2. Append(pipe, e) \in Seq(Event)
      BY <3>1
    <3>3. QED
      BY <2>1, <3>1, <3>2 DEF e
  <2>3. QED
    BY <2>1, <2>2 DEF Shape, SettledInv, HandInv, ChannelsHaveSender, Settled
<1>4. ASSUME Start PROVE ServeInv'
  <2>1. PopulateInterfaces /\ UNCHANGED <<pipe, mon, hs, channels>>
    BY <1>4 DEF Start, schVars
  <2>2. \A i \in Id : interfaceSender[i] # NoSender => interfaceSender'[i] # NoSender
    BY <2>1, PopulateKeepsSender DEF IdsInv
  <2>3. ChannelsHaveSender'
    BY <2>1, <2>2 DEF ChannelsHaveSender, Pair
  <2>4. QED
    BY <2>1, <2>2, <2>3 DEF Shape, SettledInv, HandInv, Settled
<1>5. ASSUME ReadUp PROVE ServeInv'
  <2>1. PopulateInterfaces /\ UNCHANGED <<hs, channels>> /\ pipe' = <<>>
    BY <1>5 DEF ReadUp, schVars
  <2>2. \A i \in Id : interfaceSender[i] # NoSender => interfaceSender'[i] # NoSender
    BY <2>1, PopulateKeepsSender DEF IdsInv
  <2>3. ChannelsHaveSender'
    BY <2>1, <2>2 DEF ChannelsHaveSender, Pair
  <2>4. \/ mon' = Idle
        \/ /\ mon'.pc = "added" /\ mon' = [pc |-> mon'.pc, id |-> mon'.id, todo |-> mon'.todo]
           /\ \E i \in Id : i = mon'.id /\ interfaceSender'[i] # NoSender
    BY <1>5 DEF ReadUp
  <2>5. Shape' /\ SettledInv'
    BY <2>1, <2>4 DEF Shape, SettledInv, Settled, Idle
  <2>6. HandInv'
    BY <2>1, <2>2, <2>4 DEF HandInv, Idle
  <2>7. QED
    BY <2>3, <2>5, <2>6
<1>6. ASSUME ReadDown PROVE ServeInv'
  <2>1. UNCHANGED <<interfaceSender, hs, channels>> /\ pipe' = <<>> /\ Settled
    <3>1. UNCHANGED <<interfaceSender, hs, channels>> /\ pipe' = <<>>
      BY <1>6 DEF ReadDown, monVars, schVars
    <3>2. pipe # <<>> /\ pipe[1][1] = "ifdown" /\ 1 \in DOMAIN pipe
      BY <1>6 DEF ReadDown, Shape
    <3>3. QED
      BY <3>1, <3>2 DEF SettledInv
  <2>2. \/ mon' = Idle
        \/ mon'.pc = "removed" /\ mon' = [pc |-> mon'.pc, id |-> mon'.id, todo |-> Remote]
    BY <1>6 DEF ReadDown
  <2>3. Shape' /\ SettledInv'
    BY <2>1, <2>2 DEF Shape, SettledInv, Settled, Idle
  <2>4. HandInv'
    BY <2>1, <2>2 DEF HandInv, Idle, Pair
  <2>5. QED
    BY <2>1, <2>3, <2>4 DEF ChannelsHaveSender
<1>7. ASSUME InterfaceAdded PROVE ServeInv'
  <2>1. UNCHANGED <<pipe, interfaceSender, hs>> /\ mon.pc = "added"
    BY <1>7 DEF InterfaceAdded, monVars
  <2>2. CASE mon.todo = {}
    <3>1. mon' = Idle /\ channels' = channels
      BY <1>7, <2>2 DEF InterfaceAdded
    <3>2. QED
      BY <2>1, <3>1 DEF Shape, SettledInv, HandInv, ChannelsHaveSender, Settled, Idle
  <2>3. CASE mon.todo # {}
    <3>1. mon' = [mon EXCEPT !.todo = @ \ {Min(@)}] /\ AddChannel(<<mon.id, Min(mon.todo)>>)
      BY <1>7, <2>3 DEF InterfaceAdded
    <3>2. mon' = [pc |-> "added", id |-> mon.id, todo |-> mon'.todo]
      BY <2>1, <3>1 DEF Shape
    <3>3. ChannelsHaveSender' /\ channels' = [p \in Pair |-> channels'[p]]
      BY <2>1, <3>1, AddChannelServed DEF HandInv
    <3>4. Shape' /\ SettledInv'
      BY <2>1, <3>2, <3>3 DEF Shape, SettledInv, Settled
    <3>5. HandInv'
      BY <2>1, <3>2 DEF HandInv
    <3>6. QED
      BY <3>3, <3>4, <3>5
  <2>4. QED
    BY <2>2, <2>3
<1>8. ASSUME InterfaceRemoved PROVE ServeInv'
  <2>1. UNCHANGED <<pipe, interfaceSender, hs>> /\ mon.pc = "removed" /\ Settled
    BY <1>8 DEF InterfaceRemoved, monVars, SettledInv
  <2>2. CASE mon.todo = {}
    <3>1. mon' = [mon EXCEPT !.pc = "delete"] /\ channels' = channels
      BY <1>8, <2>2 DEF InterfaceRemoved
    <3>2. mon' = [pc |-> "delete", id |-> mon.id, todo |-> mon.todo]
      BY <3>1 DEF Shape
    <3>3. \A p \in Pair : p[1] = mon.id => channels[p] = 0
      BY <2>1, <2>2 DEF HandInv
    <3>4. Shape' /\ SettledInv' /\ ChannelsHaveSender'
      BY <2>1, <3>1, <3>2 DEF Shape, SettledInv, ChannelsHaveSender, Settled
    <3>5. HandInv'
      BY <2>1, <3>1, <3>2, <3>3 DEF HandInv
    <3>6. QED
      BY <3>4, <3>5
  <2>3. CASE mon.todo # {}
    <3> DEFINE pair == <<mon.id, Min(mon.todo)>>
    <3>1. mon' = [mon EXCEPT !.todo = @ \ {Min(mon.todo)}] /\ channels' = [channels EXCEPT ![pair] = 0]
      BY <1>8, <2>3 DEF InterfaceRemoved
    <3>2. mon' = [pc |-> "removed", id |-> mon.id, todo |-> mon.todo \ {Min(mon.todo)}]
      BY <2>1, <3>1 DEF Shape
    <3>3. channels' = [p \in Pair |-> IF p = pair THEN 0 ELSE channels[p]]
      BY <3>1 DEF Shape
    <3>4. ASSUME NEW p \in Pair, p[1] = mon.id, channels'[p] # 0
          PROVE  p[2] \in mon.todo \ {Min(mon.todo)}
      <4>1. p # pair /\ channels[p] # 0
        BY <3>3, <3>4
      <4>2. p[2] \in mon.todo
        BY <2>1, <3>4, <4>1 DEF HandInv
      <4>3. p[2] # Min(mon.todo)
        BY <3>4, <4>1 DEF Pair
      <4>4. QED
        BY <4>2, <4>3
    <3> HIDE DEF pair
    <3>5. Shape' /\ SettledInv'
      BY <2>1, <3>2, <3>3 DEF Shape, SettledInv, Settled
    <3>6. HandInv'
      BY <2>1, <3>2, <3>4 DEF HandInv
    <3>7. ChannelsHaveSender'
      BY <2>1, <3>3 DEF ChannelsHaveSender
    <3>8. QED
      BY <3>5, <3>6, <3>7
  <2>4. QED
    BY <2>2, <2>3
<1>9. ASSUME RemoveInterface PROVE ServeInv'
  <2>1. UNCHANGED <<pipe, hs, channels>> /\ mon' = Idle /\ mon.pc = "delete"
        /\ interfaceSender' = [interfaceSender EXCEPT ![mon.id] = NoSender]
    BY <1>9 DEF RemoveInterface, schVars
  <2>2. hs.l = 0
    BY <2>1 DEF SettledInv
  <2>3. \A i \in Id : i # mon.id => interfaceSender'[i] = interfaceSender[i]
    BY <2>1 DEF IdsInv, SenderInv
  <2>4. ChannelsHaveSender'
    BY <2>1, <2>3 DEF ChannelsHaveSender, HandInv, Pair
  <2>5. Shape' /\ SettledInv'
    BY <2>1 DEF Shape, SettledInv, Settled, Idle
  <2>6. HandInv'
    BY <2>1, <2>2 DEF HandInv, Idle, Id
  <2>7. QED
    BY <2>4, <2>5, <2>6
<1>10. ASSUME NEW r \in Remote, AddRemote(r) PROVE ServeInv'
  <2>1. UNCHANGED <<pipe, mon, interfaceSender, channels>> /\ r \in hs.remotes
        /\ hs' = [hs EXCEPT !.remotes = @ \ {r}, !.r = r, !.todo = Id]
    BY <1>10 DEF AddRemote, monVars
  <2>2. hs' = [remotes |-> hs.remotes \ {r}, r |-> r, l |-> hs.l, todo |-> Id]
    BY <2>1 DEF Shape
  <2>3. ~Settled /\ r # 0
    BY <2>1, InterfacesAssumption DEF Settled, InterfacesAssumption
  <2>4. QED
    BY <2>1, <2>2, <2>3 DEF Shape, SettledInv, HandInv, ChannelsHaveSender, Settled
<1>11. ASSUME TestLocal PROVE ServeInv'
  <2>1. UNCHANGED <<pipe, mon, interfaceSender, channels>> /\ hs.r # 0 /\ hs.l = 0
    BY <1>11 DEF TestLocal, monVars, schVars
  <2>2. CASE hs.todo = {}
    <3>1. hs' = [remotes |-> hs.remotes, r |-> 0, l |-> 0, todo |-> {}]
      BY <1>11, <2>1, <2>2 DEF TestLocal, Shape
    <3>2. QED
      BY <2>1, <3>1 DEF Shape, SettledInv, HandInv, ChannelsHaveSender, Settled, Id
  <2>3. CASE hs.todo # {}
    <3> DEFINE l == Min(hs.todo)
               to == IF IsReachable(Routes, Iface[l], AddressOf(hs.r)) THEN l ELSE 0
    <3>1. hs' = [hs EXCEPT !.todo = @ \ {l}, !.l = to]
      BY <1>11, <2>3 DEF TestLocal
    <3>2. to \in Id => interfaceSender[to] # NoSender
      BY DEF IsReachable, Iface, NoSender, Id
    <3> HIDE DEF l, to
    <3>3. hs' = [remotes |-> hs.remotes, r |-> hs.r, l |-> to, todo |-> hs.todo \ {l}]
      BY <3>1 DEF Shape
    <3>4. QED
      BY <2>1, <3>2, <3>3 DEF Shape, SettledInv, HandInv, ChannelsHaveSender, Settled
  <2>4. QED
    BY <2>2, <2>3
<1>12. ASSUME AddLocal PROVE ServeInv'
  <2>1. UNCHANGED <<pipe, mon, interfaceSender>> /\ hs.l # 0 /\ AddChannel(<<hs.l, hs.r>>)
        /\ hs' = [hs EXCEPT !.l = 0]
    BY <1>12 DEF AddLocal, monVars
  <2>2. hs' = [remotes |-> hs.remotes, r |-> hs.r, l |-> 0, todo |-> hs.todo]
    BY <2>1 DEF Shape
  <2>3. ChannelsHaveSender' /\ channels' = [p \in Pair |-> channels'[p]]
    BY <2>1, AddChannelServed DEF HandInv
  <2>4. ~Settled
    BY <2>1 DEF SettledInv
  <2>5. mon.pc \notin {"removed", "delete"}
    BY <2>4 DEF SettledInv
  <2>6. Shape' /\ SettledInv'
    BY <2>1, <2>2, <2>3, <2>4 DEF Shape, SettledInv
  <2>7. HandInv'
    BY <2>1, <2>2, <2>5 DEF HandInv, Id
  <2>8. QED
    BY <2>3, <2>6, <2>7
<1>13. ASSUME \/ Attach \/ \E l \in Id, p \in Pair : SendRemoval(l, p)
              \/ \E m \in net : RecvChs(m) \/ RecvRemoval(m)
       PROVE  ServeInv'
  BY <1>1, <1>13 DEF Attach, SendRemoval, RecvChs, RecvRemoval, monVars, schVars
<1>14. CASE UNCHANGED vars
  BY <1>1, <1>14 DEF vars, monVars, schVars
<1>15. QED
  BY <1>2, <1>3, <1>4, <1>5, <1>6, <1>7, <1>8, <1>9, <1>10, <1>11, <1>12, <1>13, <1>14
  DEF Next, Network, Run

(***************************************************************************)
(* A channel has a sender for as long as it exists, whatever interfaces    *)
(* come and go once the handshake is over (interfaceAdded, addRemote,      *)
(* interfaceRemoved, removeInterface): ChannelHandler::send uses the       *)
(* pointer without looking.                                                *)
(***************************************************************************)
THEOREM ChannelsServed ==
  ASSUME "duringHandshake" \notin FaultKinds
  PROVE  Spec => []ChannelsHaveSender
<1>1. IdsInv /\ ServeInv /\ [Next]_vars => ServeInv'
  BY StepServe
<1>2. ServeInv => ChannelsHaveSender
  BY DEF ServeInv
<1>3. QED
  BY <1>1, <1>2, InitServe, IdsInvariant, PTL DEF Spec

-----------------------------------------------------------------------------
\* The interfaces that are up and their channels (Interfaces).

\* The events the monitor can be told of.
Up(a) == <<<<"ifup", a>>>>
Down(a) == <<<<"ifdown", a>>>>

\* The addresses whose slot has a sender.
Serves(a) == ip2InterfaceIdMap[a] # 0 /\ interfaceSender[ip2InterfaceIdMap[a]] # NoSender

\* The gateways answer, files are those of interfaces that are up, and what the last
\* script wrote is there when the monitor is told.
WorldInv ==
  /\ answers = {GwOf(a) : a \in Ip}
  /\ \E S \in SUBSET up : files = [a \in S |-> File(a)]
  /\ pipe = <<>> \/ \E a \in Ip : /\ mon.pc = "read"
                                  /\ \/ pipe = Up(a) /\ a \in up /\ a \in DOMAIN files
                                     \/ pipe = Down(a) /\ a \notin up

\* The interfaces with a sender are those that are up, but for the one of an event
\* the monitor has not dealt with.
ServingInv ==
  IF app = "new"
    THEN /\ pipe = <<>> /\ mon = Idle /\ remoteAddresses = {} /\ DOMAIN files \in {{}, up}
         /\ \A i \in Id : interfaceSender[i] = NoSender
    ELSE \A a \in Ip :
           Serves(a) <=> \/ a \in up /\ pipe # Up(a)
                         \/ pipe = Down(a)
                         \/ mon.pc \in {"removed", "delete"} /\ mon.id = ip2InterfaceIdMap[a]

\* An interface that goes was up before.
GoingInv ==
  mon.pc \in {"removed", "delete"} => \E a \in Ip \ up : mon.id = ip2InterfaceIdMap[a] /\ mon.id # 0

\* A sender with no channel to a known remote has one coming, or is going.
CoveredInv ==
  /\ born \in Nat /\ remoteAddresses = Remote \ hs.remotes /\ hs.remotes \subseteq Remote
  /\ hs.r \in remoteAddresses \cup {0} /\ hs.todo \subseteq Id /\ mon.todo \subseteq Remote
  /\ \A i \in Id, r \in remoteAddresses :
       \/ interfaceSender[i] = NoSender
       \/ channels[<<i, r>>] # 0
       \/ mon.pc = "added" /\ mon.id = i /\ r \in mon.todo
       \/ hs.r = r /\ (i \in hs.todo \/ hs.l = i)
       \/ mon.pc \in {"removed", "delete"} /\ mon.id = i

\* A sender keeps its address's interface.
OwnInv == \A i \in Id : interfaceSender[i] = NoSender
                        \/ interfaceSender[i].iface = IfaceOf(interfaceSender[i].ip)

\* The sender the monitor makes for an address.
SenderOf(a) == [ip |-> a, iface |-> IfaceOf(a), gw |-> GwOf(a)]

\* A set of numbers with a bound has a largest one.
LEMMA LargestNumber ==
  ASSUME NEW N \in Nat, NEW T, T \subseteq 1 .. N, T # {}
  PROVE  Max(T) \in T
<1> DEFINE D == {N - x : x \in T}
<1>1. D \subseteq Nat /\ D # {}
  <2>1. \A x \in T : N - x \in Nat
    OBVIOUS
  <2>2. QED
    BY <2>1
<1>2. PICK d \in D : \A e \in D : d <= e
  BY <1>1, LeastNumber
<1>3. PICK x \in T : d = N - x
  BY <1>2
<1>4. \A y \in T : N - y \in D /\ d <= N - y /\ y \in 1 .. N
  BY <1>2
<1>5. \A y \in T : x >= y
  BY <1>3, <1>4
<1>6. QED
  BY <1>3, <1>5 DEF Max

\* The files give the senders of their addresses.
LEMMA FilesGive ==
  ASSUME MultiHomed, NEW S \in SUBSET Ip, files = [a \in S |-> File(a)],
         answers = {GwOf(a) : a \in Ip}
  PROVE  IpMatrixUsingHack(files, answers) = {SenderOf(a) : a \in S}
<1>1. Ip \subseteq Nat /\ Null \notin Nat
  BY InterfacesAssumption, RoutingAssumption DEF InterfacesAssumption, RoutingAssumption
<1>2. \A n \in S : files[n] = File(n) /\ files[n].ip = n /\ files[n].iface = IfaceOf(n) /\ files[n].gw = GwOf(n)
  BY DEF File
<1>3. {n \in DOMAIN files : Complete(files[n])} = S
  BY <1>1, <1>2 DEF Complete, MultiHomed
<1>4. GatewaysUsingIfHack(files) = [a \in S |-> [iface |-> IfaceOf(a), gw |-> GwOf(a)]]
  <2>1. {files[n].ip : n \in S} = S
    BY <1>2
  <2>2. ASSUME NEW a \in S PROVE files[Max({n \in S : files[n].ip = a})] = File(a)
    <3>1. {n \in S : files[n].ip = a} = {a}
      BY <1>2
    <3>2. Max({a}) = a
      <4>1. a >= a
        BY <1>1
      <4>2. QED
        BY <4>1 DEF Max
    <3>3. QED
      BY <1>2, <3>1, <3>2
  <2>3. \A a \in S : File(a).iface = IfaceOf(a) /\ File(a).gw = GwOf(a)
    BY DEF File
  <2> DEFINE last(a) == files[Max({n \in S : files[n].ip = a})]
  <2>4. GatewaysUsingIfHack(files) = [a \in {files[n].ip : n \in S} |-> [iface |-> last(a).iface, gw |-> last(a).gw]]
    BY <1>3 DEF GatewaysUsingIfHack
  <2>5. \A a \in S : last(a) = File(a)
    BY <2>2
  <2> HIDE DEF last
  <2>6. GatewaysUsingIfHack(files) = [a \in S |-> [iface |-> last(a).iface, gw |-> last(a).gw]]
    BY <2>1, <2>4
  <2>7. \A a \in S : [iface |-> last(a).iface, gw |-> last(a).gw] = [iface |-> IfaceOf(a), gw |-> GwOf(a)]
    BY <2>3, <2>5
  <2>8. QED
    BY <2>6, <2>7
<1>5. \A a \in S : GwOf(a) \in answers
  OBVIOUS
<1> DEFINE m == [a \in S |-> [iface |-> IfaceOf(a), gw |-> GwOf(a)]]
<1>6. DOMAIN m = S /\ \A a \in S : m[a].iface = IfaceOf(a) /\ m[a].gw = GwOf(a)
  OBVIOUS
<1>7. IpMatrixUsingHack(files, answers)
        = {[ip |-> a, iface |-> m[a].iface, gw |-> m[a].gw] : a \in {x \in DOMAIN m : m[x].gw \in answers}}
  BY <1>4 DEF IpMatrixUsingHack
<1> HIDE DEF m
<1>8. {x \in DOMAIN m : m[x].gw \in answers} = S
  BY <1>5, <1>6
<1>9. QED
  BY <1>6, <1>7, <1>8 DEF SenderOf

\* The routes give the senders of the interfaces that are up.
LEMMA RoutesGive ==
  ASSUME MultiHomed, up \subseteq Ip, answers = {GwOf(a) : a \in Ip}
  PROVE  IpMatrixUsingRoute(Routes, Addresses, answers) = {SenderOf(a) : a \in up}
<1>1. PICK N \in Nat : N = Len(Table) /\ DOMAIN Table = 1 .. N
  BY DEF MultiHomed
<1> DEFINE lines == {j \in DOMAIN Table : \E a \in up : IfaceOf(a) = Table[j].iface}
           own(f) == {i \in Defaults(Routes) : Routes[i].iface = f}
           gws == AllGatewayAndIface(Routes)
<1>2. Routes = [i \in lines |-> Table[i]] /\ DOMAIN Routes = lines /\ \A i \in lines : Routes[i] = Table[i]
  BY DEF Routes
<1>3. Defaults(Routes) = {i \in lines : Table[i].destination = 0}
  BY <1>2 DEF Defaults
<1>4. ASSUME NEW a \in up
      PROVE  own(IfaceOf(a)) # {} /\ \A i \in own(IfaceOf(a)) : i \in lines /\ Table[i].gateway = GwOf(a)
  <2>1. PICK i \in Defaults(Table) : Table[i].iface = IfaceOf(a)
    BY DEF MultiHomed
  <2>2. i \in lines /\ Table[i].destination = 0
    BY <2>1 DEF Defaults
  <2>3. i \in own(IfaceOf(a))
    BY <1>2, <1>3, <2>1, <2>2
  <2>4. \A j \in own(IfaceOf(a)) : j \in lines /\ j \in Defaults(Table) /\ Table[j].iface = IfaceOf(a)
    BY <1>2, <1>3 DEF Defaults
  <2>5. QED
    BY <2>3, <2>4 DEF MultiHomed
<1>5. gws = [f \in {Routes[i].iface : i \in Defaults(Routes)} |-> Routes[Max(own(f))].gateway]
  BY DEF AllGatewayAndIface
<1>6. {Routes[i].iface : i \in Defaults(Routes)} = {IfaceOf(a) : a \in up}
  <2>1. \A i \in Defaults(Routes) : \E a \in up : IfaceOf(a) = Routes[i].iface
    BY <1>2, <1>3
  <2>2. \A a \in up : \E i \in Defaults(Routes) : Routes[i].iface = IfaceOf(a)
    BY <1>4
  <2> HIDE DEF lines, own, gws
  <2>3. QED
    BY <2>1, <2>2
<1>7. ASSUME NEW a \in up PROVE gws[IfaceOf(a)] = GwOf(a)
  <2>1. own(IfaceOf(a)) \subseteq 1 .. N /\ own(IfaceOf(a)) # {}
    BY <1>1, <1>4
  <2>2. Max(own(IfaceOf(a))) \in own(IfaceOf(a))
    <3> HIDE DEF own
    <3>1. QED
      BY <2>1, LargestNumber
  <2>3. IfaceOf(a) \in {Routes[i].iface : i \in Defaults(Routes)}
    BY <1>6
  <2> HIDE DEF lines, own, gws
  <2>4. gws[IfaceOf(a)] = Routes[Max(own(IfaceOf(a)))].gateway
    BY <1>5, <2>3
  <2>5. QED
    BY <1>2, <1>4, <2>2, <2>4
<1>8. DOMAIN Addresses = {IfaceOf(a) : a \in up} /\ \A a \in up : Addresses[IfaceOf(a)] = a
  BY DEF Addresses, MultiHomed
<1>9. DOMAIN gws = {IfaceOf(a) : a \in up}
  BY <1>5, <1>6
<1>10. IpMatrixUsingRoute(Routes, Addresses, answers)
         = {[ip |-> Addresses[f], iface |-> f, gw |-> gws[f]] : f \in {x \in DOMAIN gws \cap DOMAIN Addresses : gws[x] \in answers}}
  BY DEF IpMatrixUsingRoute
<1> HIDE DEF lines, own, gws
<1>11. {x \in DOMAIN gws \cap DOMAIN Addresses : gws[x] \in answers} = {IfaceOf(a) : a \in up}
  BY <1>7, <1>8, <1>9
<1>12. {[ip |-> Addresses[f], iface |-> f, gw |-> gws[f]] : f \in {IfaceOf(a) : a \in up}} = {SenderOf(a) : a \in up}
  BY <1>7, <1>8 DEF SenderOf
<1>13. QED
  BY <1>10, <1>11, <1>12

\* The addresses of those the monitor finds.
Reached == IF DOMAIN files = {} THEN up ELSE DOMAIN files

\* The monitor finds the interfaces of the files, or with no file those of the routes.
LEMMA FoundIs ==
  ASSUME MultiHomed, up \subseteq Ip, WorldInv
  PROVE  Found = {SenderOf(a) : a \in Reached} /\ Reached \subseteq up
<1>1. PICK S \in SUBSET up : files = [a \in S |-> File(a)]
  BY DEF WorldInv
<1>2. S \in SUBSET Ip /\ DOMAIN files = S /\ answers = {GwOf(a) : a \in Ip}
  BY <1>1 DEF WorldInv
<1>3. IpMatrixUsingHack(files, answers) = {SenderOf(a) : a \in S}
  BY <1>1, <1>2, FilesGive
<1>4. IpMatrixUsingRoute(Routes, Addresses, answers) = {SenderOf(a) : a \in up}
  BY <1>2, RoutesGive
<1>5. {SenderOf(a) : a \in S} # {} <=> S # {}
  OBVIOUS
<1>6. QED
  BY <1>2, <1>3, <1>4, <1>5 DEF Found, GetIpMatrix, Reached

\* populateInterfaces makes the senders of the interfaces it finds and takes none away.
LEMMA PopulateServes ==
  ASSUME MultiHomed, IdsInv, WorldInv, OwnInv, PopulateInterfaces
  PROVE  /\ \A a \in Ip : Serves(a)' <=> Serves(a) \/ a \in Reached
         /\ \A a \in Ip : ip2InterfaceIdMap'[a] # 0 => ip2InterfaceIdMap'[a] \in Id
         /\ OwnInv'
<1>1. up \subseteq Ip
  BY DEF IdsInv, NetInv
<1>2. Found = {SenderOf(a) : a \in Reached} /\ Reached \subseteq up
  BY <1>1, FoundIs
<1>3. \A a \in Reached : SenderOf(a).ip = a /\ SenderOf(a).iface = IfaceOf(a) /\ SenderOf(a) # NoSender /\ a \in Ip
  <2>1. \A a \in Reached : SenderOf(a).ip = a /\ SenderOf(a).iface = IfaceOf(a) /\ a \in Ip
    BY <1>1, <1>2 DEF SenderOf
  <2>2. NoSender.ip = 0 /\ 0 \notin Ip
    BY InterfacesAssumption DEF NoSender, InterfacesAssumption
  <2>3. QED
    BY <2>1, <2>2
<1>4. /\ ip2InterfaceIdMap' = [a \in Ip |-> NewIdOf(a)]
      /\ interfaceSender' = [i \in Id |->
           IF interfaceSender[i] = NoSender /\ \E x \in Found : NewIdOf(x.ip) = i
             THEN CHOOSE x \in Found : NewIdOf(x.ip) = i ELSE interfaceSender[i]]
  BY DEF PopulateInterfaces
<1>5. IdInv' /\ SenderInv' /\ \A a \in Ip : ip2InterfaceIdMap[a] # 0 => ip2InterfaceIdMap'[a] = ip2InterfaceIdMap[a]
  BY PopulateKeepsIds, PopulateKeepsSenders DEF IdsInv
<1>6. \A a \in Ip : ip2InterfaceIdMap'[a] # 0 => ip2InterfaceIdMap'[a] \in Id
  <2> DEFINE kn == {a \in Ip : ip2InterfaceIdMap'[a] # 0}
  <2>1. kn \subseteq Ip /\ IsFiniteSet(Ip) /\ kn = Known'
    BY InterfacesAssumption DEF InterfacesAssumption, Known
  <2>2. Cardinality(kn) <= Cardinality(Ip) /\ Cardinality(Ip) \in Nat
    BY <2>1, FS_Subset, FS_CardinalityType
  <2>3. nextInterfaceId' <= Cardinality(Ip) /\ nextInterfaceId' \in Nat
    BY <1>5, <2>1, <2>2 DEF IdInv
  <2>4. QED
    BY <1>5, <2>2, <2>3 DEF IdInv, Id
<1>7. ASSUME NEW a \in Reached PROVE ip2InterfaceIdMap'[a] # 0 /\ interfaceSender'[ip2InterfaceIdMap'[a]] # NoSender
  <2>1. a \in Ip /\ SenderOf(a) \in Found /\ SenderOf(a).ip = a
    BY <1>2, <1>3
  <2>2. ip2InterfaceIdMap'[a] # 0
    <3>1. CASE ip2InterfaceIdMap[a] # 0
      BY <1>5, <2>1, <3>1
    <3>2. CASE ip2InterfaceIdMap[a] = 0
      <4>1. a \in NewComers
        BY <2>1, <3>2 DEF NewComers
      <4>2. NewComers \subseteq Ip
        BY FoundAddresses DEF NewComers, IdsInv
      <4>3. Rank(a) \in Nat /\ Rank(a) > 0
        BY <4>1, <4>2, RankIsPlace
      <4>4. ip2InterfaceIdMap'[a] = nextInterfaceId + Rank(a)
        BY <1>4, <2>1, <4>1, NewIds
      <4>5. QED
        BY <4>3, <4>4 DEF IdsInv, IdInv
    <3>3. QED
      BY <3>1, <3>2
  <2> DEFINE i == ip2InterfaceIdMap'[a]
  <2>3. i \in Id /\ NewIdOf(SenderOf(a).ip) = i
    BY <1>4, <1>6, <2>1, <2>2
  <2> HIDE DEF i
  <2>4. CASE interfaceSender[i] = NoSender
    <3>1. interfaceSender'[i] = CHOOSE x \in Found : NewIdOf(x.ip) = i
      BY <1>4, <2>1, <2>3, <2>4
    <3>2. interfaceSender'[i] \in Found
      BY <2>1, <2>3, <3>1
    <3>3. QED
      BY <1>2, <1>3, <2>2, <3>2 DEF i
  <2>5. CASE interfaceSender[i] # NoSender
    BY <1>4, <2>2, <2>3, <2>5 DEF i
  <2>6. QED
    BY <2>4, <2>5
<1>8. ASSUME NEW a \in Ip, Serves(a) PROVE ip2InterfaceIdMap'[a] # 0 /\ interfaceSender'[ip2InterfaceIdMap'[a]] # NoSender
  <2>1. ip2InterfaceIdMap[a] # 0 /\ ip2InterfaceIdMap'[a] = ip2InterfaceIdMap[a] /\ ip2InterfaceIdMap[a] \in Id
        /\ interfaceSender[ip2InterfaceIdMap[a]] # NoSender
    BY <1>5, <1>6, <1>8 DEF Serves
  <2>2. QED
    BY <1>4, <2>1
<1>9. ASSUME NEW a \in Ip, ip2InterfaceIdMap'[a] # 0, interfaceSender'[ip2InterfaceIdMap'[a]] # NoSender, a \notin Reached
      PROVE  Serves(a)
  <2>1. ip2InterfaceIdMap'[a] = ip2InterfaceIdMap[a] /\ ip2InterfaceIdMap[a] \in Id
    <3>1. \A x \in Found : x.ip # a
      BY <1>2, <1>3, <1>9
    <3>2. a \notin NewComers
      BY <3>1 DEF NewComers
    <3>3. QED
      BY <1>4, <1>6, <1>9, <3>2, NewIds
  <2>2. CASE interfaceSender[ip2InterfaceIdMap[a]] = NoSender
    <3>1. PICK x \in Found : NewIdOf(x.ip) = ip2InterfaceIdMap[a]
      BY <1>4, <1>9, <2>1, <2>2
    <3>2. x.ip \in Reached /\ x.ip \in Ip
      BY <1>2, <1>3
    <3>3. ip2InterfaceIdMap'[x.ip] = ip2InterfaceIdMap'[a]
      BY <1>4, <2>1, <3>1, <3>2
    <3>4. x.ip = a
      BY <1>5, <1>9, <3>2, <3>3 DEF IdInv
    <3>5. QED
      BY <1>9, <3>2, <3>4
  <2>3. QED
    BY <1>9, <2>1, <2>2 DEF Serves
<1>10. OwnInv'
  <2>1. ASSUME NEW i \in Id
        PROVE interfaceSender'[i] = NoSender \/ interfaceSender'[i].iface = IfaceOf(interfaceSender'[i].ip)
    <3>1. CASE interfaceSender[i] = NoSender /\ \E x \in Found : NewIdOf(x.ip) = i
      <4>1. interfaceSender'[i] \in Found
        BY <1>4, <3>1
      <4>2. QED
        BY <1>2, <1>3, <4>1
    <3>2. CASE ~(interfaceSender[i] = NoSender /\ \E x \in Found : NewIdOf(x.ip) = i)
      BY <1>4, <3>2 DEF OwnInv
    <3>3. QED
      BY <3>1, <3>2
  <2>2. QED
    BY <2>1 DEF OwnInv, Id
<1>11. QED
  BY <1>1, <1>2, <1>6, <1>7, <1>8, <1>9, <1>10 DEF Serves

\* Together with the invariants above.
MatchInv == IdsInv /\ ServeInv /\ WorldInv /\ ServingInv /\ GoingInv /\ CoveredInv /\ OwnInv

\* What an event says.
LEMMA EventsTold ==
  \A a, b : /\ Up(a) # <<>> /\ Down(a) # <<>> /\ Up(a) # Down(b)
            /\ (Up(a) = Up(b) => a = b) /\ (Down(a) = Down(b) => a = b)
            /\ Append(<<>>, <<"ifup", a>>) = Up(a) /\ Append(<<>>, <<"ifdown", a>>) = Down(a)
            /\ Head(Up(a)) = <<"ifup", a>> /\ Head(Down(a)) = <<"ifdown", a>>
            /\ Head(Up(a))[1] = "ifup" /\ Head(Down(a))[1] = "ifdown"
            /\ Head(Up(a))[2] = a /\ Head(Down(a))[2] = a
<1> TAKE a, b
<1>1. Head(Up(a)) = <<"ifup", a>> /\ Head(Down(a)) = <<"ifdown", a>> /\ Head(Up(b)) = <<"ifup", b>> /\ Head(Down(b)) = <<"ifdown", b>>
  BY DEF Up, Down
<1>2. Up(a) # <<>> /\ Down(a) # <<>>
  BY DEF Up, Down
<1>3. Up(a)[1] = <<"ifup", a>> /\ Down(a)[1] = <<"ifdown", a>> /\ Up(b)[1] = <<"ifup", b>> /\ Down(b)[1] = <<"ifdown", b>>
  BY DEF Up, Down
<1>4. <<"ifup", a>>[1] = "ifup" /\ <<"ifdown", b>>[1] = "ifdown" /\ <<"ifdown", a>>[1] = "ifdown"
      /\ <<"ifup", a>>[2] = a /\ <<"ifup", b>>[2] = b /\ <<"ifdown", a>>[2] = a /\ <<"ifdown", b>>[2] = b
  OBVIOUS
<1>5. Append(<<>>, <<"ifup", a>>) = Up(a) /\ Append(<<>>, <<"ifdown", a>>) = Down(a)
  BY DEF Up, Down
<1>6. Up(a) # Down(b)
  BY <1>3, <1>4
<1>7. (Up(a) = Up(b) => a = b) /\ (Down(a) = Down(b) => a = b)
  BY <1>3, <1>4
<1>8. QED
  BY <1>1, <1>2, <1>4, <1>5, <1>6, <1>7

\* A slot with a sender is that of an address that is served.
LEMMA SenderServes ==
  ASSUME IdsInv
  PROVE  /\ \A i \in Id : interfaceSender[i] # NoSender =>
              LET a == interfaceSender[i].ip IN a \in Ip /\ ip2InterfaceIdMap[a] = i /\ Serves(a)
         /\ \A a \in Ip : ip2InterfaceIdMap[a] # 0 => ip2InterfaceIdMap[a] \in Id
         /\ \A a, b \in Ip : ip2InterfaceIdMap[a] = ip2InterfaceIdMap[b] /\ ip2InterfaceIdMap[a] # 0 => a = b
<1>1. 0 \notin Id
  BY DEF Id
<1>2. \A a \in Ip : ip2InterfaceIdMap[a] # 0 => ip2InterfaceIdMap[a] \in Id
  <2>1. Known \subseteq Ip /\ IsFiniteSet(Ip)
    BY InterfacesAssumption DEF InterfacesAssumption, Known
  <2>2. Cardinality(Known) <= Cardinality(Ip) /\ Cardinality(Ip) \in Nat
    BY <2>1, FS_Subset, FS_CardinalityType
  <2>3. QED
    BY <2>2 DEF IdsInv, IdInv, Id
<1>3. QED
  BY <1>1, <1>2 DEF IdsInv, IdInv, SenderInv, Serves

\* At first there is nothing.
LEMMA MatchBegins == Init => MatchInv
<1> SUFFICES ASSUME Init PROVE MatchInv
  OBVIOUS
<1>1. WorldInv
  <2>1. files = [a \in up |-> File(a)] \/ files = [a \in {} |-> File(a)]
    BY DEF Init
  <2>2. {} \in SUBSET up /\ up \in SUBSET up
    OBVIOUS
  <2>3. QED
    BY <2>1, <2>2 DEF Init, WorldInv
<1>2. /\ app = "new" /\ pipe = <<>> /\ mon = Idle /\ remoteAddresses = {}
      /\ hs = [remotes |-> Remote, r |-> 0, l |-> 0, todo |-> {}] /\ \A i \in Id : interfaceSender[i] = NoSender
  BY DEF Init
<1>3. DOMAIN files \in {{}, up} /\ born = 0
  BY DEF Init
<1>4. ServingInv /\ GoingInv /\ CoveredInv /\ OwnInv
  BY <1>2, <1>3 DEF ServingInv, GoingInv, CoveredInv, OwnInv, Idle
<1>5. QED
  BY <1>1, <1>4, InitIds, InitServe DEF MatchInv

\* In quiet times the interfaces with a sender are those that are up.
LEMMA QuietServes ==
  ASSUME MatchInv, app # "new", pipe = <<>>, mon.pc \notin {"removed", "delete"}
  PROVE  \A a \in Ip : Serves(a) <=> a \in up
<1>1. \A a : pipe # Up(a) /\ pipe # Down(a)
  BY EventsTold
<1>2. QED
  BY <1>1 DEF MatchInv, ServingInv

\* And so are the channels.
LEMMA MatchImplied == MatchInv => ChannelsMatchInterfaces
<1> SUFFICES ASSUME MatchInv, Quiet, Settled, app = "attached", NEW p \in Pair
             PROVE  channels[p] # 0 <=> \E a \in up : ip2InterfaceIdMap[a] = p[1]
  BY DEF ChannelsMatchInterfaces
<1>1. \A a \in Ip : Serves(a) <=> a \in up
  BY QuietServes DEF Quiet
<1>2. p[1] \in Id /\ p[2] \in Remote /\ p = <<p[1], p[2]>>
  BY DEF Pair
<1>3. up \subseteq Ip /\ IdsInv /\ ChannelsHaveSender
  BY DEF MatchInv, IdsInv, NetInv, ServeInv
<1>4. ASSUME channels[p] # 0 PROVE \E a \in up : ip2InterfaceIdMap[a] = p[1]
  <2>1. interfaceSender[p[1]] # NoSender
    BY <1>3, <1>4 DEF ChannelsHaveSender
  <2>2. QED
    BY <1>1, <1>2, <1>3, <2>1, SenderServes
<1>5. ASSUME NEW a \in up, ip2InterfaceIdMap[a] = p[1] PROVE channels[p] # 0
  <2>1. interfaceSender[p[1]] # NoSender
    BY <1>1, <1>3, <1>5 DEF Serves
  <2>2. p[2] \in remoteAddresses
    BY <1>2 DEF MatchInv, CoveredInv, Settled
  <2>3. p[1] # 0 /\ p[2] # 0 /\ hs.r = 0 /\ mon.pc = "read"
    BY <1>2, InterfacesAssumption DEF InterfacesAssumption, Id, Settled, Quiet
  <2>4. QED
    BY <1>2, <2>1, <2>2, <2>3 DEF MatchInv, CoveredInv
<1>6. QED
  BY <1>4, <1>5

\* What stays when the senders do.
LEMMA SameServes ==
  ASSUME UNCHANGED <<ip2InterfaceIdMap, interfaceSender>>
  PROVE  (\A a \in Ip : Serves(a)' <=> Serves(a)) /\ (OwnInv => OwnInv')
BY DEF Serves, OwnInv

\* An interface that comes up has an event of its own.
LEMMA IfUpKeeps ==
  ASSUME FaultKinds \cap {"arpLate", "busy", "duringHandshake"} = {}, MatchInv, NEW a \in Ip, IfUp(a)
  PROVE  WorldInv' /\ ServingInv' /\ GoingInv' /\ CoveredInv' /\ OwnInv'
<1>1. /\ app = "attached" /\ Quiet /\ a \notin up /\ up' = up \cup {a}
      /\ files' = [b \in DOMAIN files \cup {a} |-> File(b)]
      /\ answers' = answers \cup {GwOf(a)} /\ pipe' = Append(pipe, <<"ifup", a>>)
      /\ UNCHANGED <<app, mon, monVars, hs, schVars>>
  BY DEF IfUp, Expected, Tell, Quiet
<1>2. pipe = <<>> /\ mon.pc = "read" /\ pipe' = Up(a) /\ mon' = mon /\ app' = app
  <2>1. pipe = <<>> /\ mon.pc = "read" /\ pipe' = Append(pipe, <<"ifup", a>>) /\ mon' = mon /\ app' = app
    BY <1>1 DEF Quiet
  <2>2. QED
    BY <2>1, EventsTold
<1>3. \A b \in Ip : Serves(b) <=> b \in up
  BY <1>1, <1>2, QuietServes
<1>4. UNCHANGED <<ip2InterfaceIdMap, interfaceSender>>
  BY <1>1 DEF monVars
<1>5. (\A b \in Ip : Serves(b)' <=> Serves(b)) /\ OwnInv'
  BY <1>4, SameServes DEF MatchInv
<1>6. PICK S \in SUBSET up : files = [b \in S |-> File(b)]
  BY DEF MatchInv, WorldInv
<1>7. WorldInv'
  <2>1. S \cup {a} \in SUBSET up' /\ files' = [b \in S \cup {a} |-> File(b)] /\ a \in DOMAIN files'
    BY <1>1, <1>6
  <2>2. answers' = {GwOf(b) : b \in Ip}
    BY <1>1 DEF MatchInv, WorldInv
  <2>3. a \in up' /\ mon'.pc = "read"
    BY <1>1, <1>2
  <2>4. \E S2 \in SUBSET up' : files' = [b \in S2 |-> File(b)]
    BY <2>1
  <2>5. QED
    BY <1>2, <2>1, <2>2, <2>3, <2>4 DEF WorldInv, File
<1>8. ServingInv'
  <2>1. \A b \in Ip : pipe' # Down(b) /\ (pipe' = Up(b) <=> b = a)
    BY <1>2, EventsTold
  <2>2. app' # "new"
    BY <1>1, <1>2
  <2>3. \A b \in Ip : Serves(b)' <=> b \in up' /\ pipe' # Up(b)
    BY <1>1, <1>3, <1>5, <2>1
  <2>4. mon'.pc \notin {"removed", "delete"}
    BY <1>2
  <2>5. QED
    BY <2>1, <2>2, <2>3, <2>4 DEF ServingInv
<1>9. GoingInv'
  BY <1>2 DEF GoingInv
<1>10. CoveredInv'
  BY <1>1, <1>4 DEF MatchInv, CoveredInv, schVars
<1>11. QED
  BY <1>5, <1>7, <1>8, <1>9, <1>10

\* And so has one that goes down.
LEMMA IfDownKeeps ==
  ASSUME FaultKinds \cap {"arpLate", "busy", "duringHandshake"} = {}, MatchInv, NEW a \in Ip, IfDown(a)
  PROVE  WorldInv' /\ ServingInv' /\ GoingInv' /\ CoveredInv' /\ OwnInv'
<1>1. /\ app = "attached" /\ Quiet /\ a \in up /\ up' = up \ {a}
      /\ files' = [b \in DOMAIN files \ {a} |-> File(b)]
      /\ pipe' = Append(pipe, <<"ifdown", a>>)
      /\ UNCHANGED <<answers, app, mon, monVars, hs, schVars>>
  BY DEF IfDown, Expected, Tell, Quiet
<1>2. pipe = <<>> /\ mon.pc = "read" /\ pipe' = Down(a) /\ mon' = mon /\ app' = app
  <2>1. pipe = <<>> /\ mon.pc = "read" /\ pipe' = Append(pipe, <<"ifdown", a>>) /\ mon' = mon /\ app' = app
    BY <1>1 DEF Quiet
  <2>2. QED
    BY <2>1, EventsTold
<1>3. \A b \in Ip : Serves(b) <=> b \in up
  BY <1>1, <1>2, QuietServes
<1>4. UNCHANGED <<ip2InterfaceIdMap, interfaceSender>>
  BY <1>1 DEF monVars
<1>5. (\A b \in Ip : Serves(b)' <=> Serves(b)) /\ OwnInv'
  BY <1>4, SameServes DEF MatchInv
<1>6. PICK S \in SUBSET up : files = [b \in S |-> File(b)]
  BY DEF MatchInv, WorldInv
<1>7. WorldInv'
  <2>1. S \ {a} \in SUBSET up' /\ files' = [b \in S \ {a} |-> File(b)]
    BY <1>1, <1>6
  <2>2. answers' = {GwOf(b) : b \in Ip}
    BY <1>1 DEF MatchInv, WorldInv
  <2>3. a \notin up' /\ mon'.pc = "read"
    BY <1>1, <1>2
  <2>4. \E S2 \in SUBSET up' : files' = [b \in S2 |-> File(b)]
    BY <2>1
  <2>5. QED
    BY <1>2, <2>2, <2>3, <2>4 DEF WorldInv, File
<1>8. ServingInv'
  <2>1. \A b \in Ip : pipe' # Up(b) /\ (pipe' = Down(b) <=> b = a)
    BY <1>2, EventsTold
  <2>2. app' # "new"
    BY <1>1, <1>2
  <2>3. \A b \in Ip : Serves(b)' <=> b \in up' \/ pipe' = Down(b)
    BY <1>1, <1>3, <1>5, <2>1
  <2>4. mon'.pc \notin {"removed", "delete"}
    BY <1>2
  <2>5. QED
    BY <2>1, <2>2, <2>3, <2>4 DEF ServingInv
<1>9. GoingInv'
  BY <1>2 DEF GoingInv
<1>10. CoveredInv'
  BY <1>1, <1>4 DEF MatchInv, CoveredInv, schVars
<1>11. QED
  BY <1>5, <1>7, <1>8, <1>9, <1>10

\* At the start every interface that is up gets its sender.
LEMMA StartKeeps ==
  ASSUME MultiHomed, MatchInv, Start
  PROVE  WorldInv' /\ ServingInv' /\ GoingInv' /\ CoveredInv' /\ OwnInv'
<1>1. /\ app = "new" /\ app' = "started" /\ PopulateInterfaces
      /\ UNCHANGED <<up, files, answers, pipe, mon, hs, schVars>>
  BY DEF Start
<1>2. /\ pipe = <<>> /\ mon = Idle /\ remoteAddresses = {} /\ DOMAIN files \in {{}, up}
      /\ \A i \in Id : interfaceSender[i] = NoSender
  BY <1>1 DEF MatchInv, ServingInv
<1>3. (\A a \in Ip : Serves(a)' <=> Serves(a) \/ a \in Reached) /\ OwnInv'
  BY <1>1, PopulateServes DEF MatchInv
<1>4. Reached = up
  BY <1>2 DEF Reached
<1>5. \A a \in Ip : ~Serves(a)
  BY <1>2, SenderServes DEF MatchInv, Serves
<1>6. \A a \in Ip : pipe # Up(a) /\ pipe # Down(a)
  BY <1>2, EventsTold
<1>7. ServingInv'
  <2>1. app' # "new" /\ pipe' = pipe /\ up' = up /\ mon'.pc = "read"
    BY <1>1, <1>2 DEF Idle
  <2>2. QED
    BY <1>3, <1>4, <1>5, <1>6, <2>1 DEF ServingInv
<1>8. GoingInv' /\ CoveredInv'
  BY <1>1, <1>2 DEF MatchInv, GoingInv, CoveredInv, Idle, schVars
<1>9. WorldInv'
  BY <1>1 DEF MatchInv, WorldInv, File
<1>10. QED
  BY <1>3, <1>7, <1>8, <1>9

\* The monitor makes the sender of the interface that came up.
LEMMA ReadUpKeeps ==
  ASSUME MultiHomed, MatchInv, ReadUp
  PROVE  WorldInv' /\ ServingInv' /\ GoingInv' /\ CoveredInv' /\ OwnInv'
<1>1. /\ mon.pc = "read" /\ pipe # <<>> /\ Head(pipe)[1] = "ifup" /\ pipe' = <<>> /\ PopulateInterfaces
      /\ UNCHANGED <<up, files, answers, app, hs, schVars>>
  BY DEF ReadUp
<1>2. PICK a \in Ip : pipe = Up(a) /\ a \in up /\ a \in DOMAIN files
  <2>1. PICK a \in Ip : \/ pipe = Up(a) /\ a \in up /\ a \in DOMAIN files
                        \/ pipe = Down(a)
    BY <1>1 DEF MatchInv, WorldInv
  <2>2. pipe # Down(a)
    <3>1. Head(Down(a))[1] = "ifdown"
      BY EventsTold
    <3>2. QED
      BY <1>1, <3>1
  <2>3. QED
    BY <2>1, <2>2
<1>3. (\A b \in Ip : Serves(b)' <=> Serves(b) \/ b \in Reached) /\ OwnInv'
  BY <1>1, PopulateServes DEF MatchInv
<1>4. a \in Reached /\ Reached \subseteq up
  <2>1. up \subseteq Ip
    BY DEF MatchInv, IdsInv, NetInv
  <2>2. Reached \subseteq up
    BY <2>1, FoundIs DEF MatchInv
  <2>3. QED
    BY <1>2, <2>2 DEF Reached
<1>5. app # "new"
  BY <1>1 DEF MatchInv, ServingInv
<1>6. \A b \in Ip : pipe # Down(b) /\ (pipe = Up(b) <=> b = a)
  BY <1>2, EventsTold
<1>7. \A b \in Ip : Serves(b) <=> b \in up /\ b # a
  BY <1>1, <1>5, <1>6 DEF MatchInv, ServingInv
<1>8. \A b \in Ip : Serves(b)' <=> b \in up
  BY <1>2, <1>3, <1>4, <1>7
<1> DEFINE id == ip2InterfaceIdMap'[a]
<1>9. IdsInv'
  <2>1. NetInv' /\ IdInv' /\ SenderInv'
    BY <1>1, PopulateKeepsIds, PopulateKeepsSenders DEF MatchInv, IdsInv, NetInv, File
  <2>2. QED
    BY <2>1 DEF IdsInv
<1>10. id \in Id /\ interfaceSender'[id] # NoSender
  <2>1. Serves(a)'
    BY <1>2, <1>8
  <2>2. \A b \in Ip : ip2InterfaceIdMap'[b] # 0 => ip2InterfaceIdMap'[b] \in Id
    BY <1>1, PopulateServes DEF MatchInv
  <2>3. QED
    BY <2>1, <2>2 DEF Serves
<1>11. mon' = [pc |-> "added", id |-> id, todo |-> remoteAddresses]
  <2>1. Head(pipe)[2] = a
    BY <1>2, EventsTold
  <2>2. QED
    BY <1>10, <2>1 DEF ReadUp
<1> HIDE DEF id
<1>12. \A b \in Ip : <<>> # Up(b) /\ <<>> # Down(b)
  BY EventsTold
<1>13. ServingInv' /\ GoingInv'
  <2>1. app' # "new" /\ pipe' = <<>> /\ up' = up /\ mon'.pc = "added"
    BY <1>1, <1>5, <1>11
  <2>2. QED
    BY <1>8, <1>12, <2>1 DEF ServingInv, GoingInv
<1>14. WorldInv'
  BY <1>1 DEF MatchInv, WorldInv, File
<1>15. CoveredInv'
  <2>1. ASSUME NEW i \in Id, NEW r \in remoteAddresses, interfaceSender'[i] # NoSender, i # id
        PROVE  interfaceSender[i] # NoSender
    <3>1. PICK b \in Ip : ip2InterfaceIdMap'[b] = i
      BY <1>9, <2>1 DEF IdsInv, SenderInv
    <3>2. b # a /\ Serves(b)'
      <4>1. i # 0
        BY DEF Id
      <4>2. QED
        BY <2>1, <3>1, <4>1 DEF id, Serves
    <3>3. Serves(b)
      BY <1>7, <1>8, <3>1, <3>2
    <3>4. ip2InterfaceIdMap[b] = i
      BY <1>1, <3>1, <3>3, PopulateKeepsIds DEF MatchInv, IdsInv, Serves
    <3>5. QED
      BY <3>3, <3>4 DEF Serves
  <2>2. ASSUME NEW i \in Id, NEW r \in remoteAddresses, interfaceSender'[i] # NoSender, i # id
        PROVE  channels[<<i, r>>] # 0 \/ (hs.r = r /\ (i \in hs.todo \/ hs.l = i))
    BY <1>1, <2>1, <2>2 DEF MatchInv, CoveredInv
  <2>3. mon'.pc = "added" /\ mon'.id = id /\ mon'.todo = remoteAddresses
    BY <1>11
  <2>4. UNCHANGED <<channels, hs, remoteAddresses, born>>
    BY <1>1 DEF schVars
  <2>5. /\ born' \in Nat /\ remoteAddresses' = Remote \ hs'.remotes /\ hs'.remotes \subseteq Remote
        /\ hs'.r \in remoteAddresses' \cup {0} /\ hs'.todo \subseteq Id /\ mon'.todo \subseteq Remote
    BY <2>3, <2>4 DEF MatchInv, CoveredInv
  <2>6. QED
    BY <2>2, <2>3, <2>4, <2>5 DEF CoveredInv, Id
<1>16. QED
  BY <1>3, <1>13, <1>14, <1>15

\* The monitor is told that an interface went.
LEMMA ReadDownKeeps ==
  ASSUME MatchInv, ReadDown
  PROVE  WorldInv' /\ ServingInv' /\ GoingInv' /\ CoveredInv' /\ OwnInv'
<1>1. /\ mon.pc = "read" /\ pipe # <<>> /\ Head(pipe)[1] = "ifdown" /\ pipe' = <<>>
      /\ UNCHANGED <<up, files, answers, app, monVars, hs, schVars>>
  BY DEF ReadDown
<1>2. PICK a \in Ip : pipe = Down(a) /\ a \notin up
  <2>1. PICK a \in Ip : \/ pipe = Up(a)
                        \/ pipe = Down(a) /\ a \notin up
    BY <1>1 DEF MatchInv, WorldInv
  <2>2. pipe # Up(a)
    <3>1. Head(Up(a))[1] = "ifup"
      BY EventsTold
    <3>2. QED
      BY <1>1, <3>1
  <2>3. QED
    BY <2>1, <2>2
<1>3. app # "new"
  BY <1>1 DEF MatchInv, ServingInv
<1>4. \A b \in Ip : pipe # Up(b) /\ (pipe = Down(b) <=> b = a)
  BY <1>2, EventsTold
<1>5. \A b \in Ip : Serves(b) <=> b \in up \/ b = a
  BY <1>1, <1>3, <1>4 DEF MatchInv, ServingInv
<1>6. UNCHANGED <<ip2InterfaceIdMap, interfaceSender>>
  BY <1>1 DEF monVars
<1>7. (\A b \in Ip : Serves(b)' <=> Serves(b)) /\ OwnInv'
  BY <1>6, SameServes DEF MatchInv
<1>8. PICK id : id = ip2InterfaceIdMap[a]
  OBVIOUS
<1>9. id # 0 /\ mon' = [pc |-> "removed", id |-> id, todo |-> Remote]
  <2>1. id # 0 /\ Head(pipe)[2] = a
    BY <1>2, <1>5, <1>8, EventsTold DEF Serves
  <2>2. QED
    BY <1>8, <2>1 DEF ReadDown
<1>10. \A b \in Ip : <<>> # Up(b) /\ <<>> # Down(b)
  BY EventsTold
<1>11. \A b \in Ip : ip2InterfaceIdMap[b] = id <=> b = a
  BY <1>8, <1>9, SenderServes DEF MatchInv
<1>12. ServingInv'
  <2>1. app' # "new" /\ pipe' = <<>> /\ up' = up /\ mon'.pc = "removed" /\ mon'.id = id
        /\ ip2InterfaceIdMap' = ip2InterfaceIdMap
    BY <1>1, <1>3, <1>6, <1>9
  <2>2. QED
    BY <1>5, <1>7, <1>10, <1>11, <2>1 DEF ServingInv
<1>13. GoingInv'
  BY <1>1, <1>2, <1>6, <1>8, <1>9 DEF GoingInv
<1>14. WorldInv'
  BY <1>1 DEF MatchInv, WorldInv, File
<1>15. CoveredInv'
  <2>1. mon'.pc = "removed" /\ mon'.todo \subseteq Remote
    BY <1>9
  <2>2. UNCHANGED <<channels, hs, remoteAddresses, born>>
    BY <1>1 DEF schVars
  <2>3. QED
    BY <1>1, <1>6, <2>1, <2>2 DEF MatchInv, CoveredInv
<1>16. QED
  BY <1>7, <1>12, <1>13, <1>14, <1>15

\* What a new channel covers.
LEMMA AddChannelCovers ==
  ASSUME MatchInv, NEW l, NEW r, AddChannel(<<l, r>>)
  PROVE  /\ born' \in Nat
         /\ \A p \in Pair : channels[p] # 0 => channels'[p] # 0
         /\ <<l, r>> \in Pair => channels'[<<l, r>>] # 0
<1>1. born \in Nat /\ born + 1 # 0 /\ channels = [p \in Pair |-> channels[p]]
  BY DEF MatchInv, CoveredInv, ServeInv, Shape
<1>2. CASE channels[<<l, r>>] # 0
  BY <1>1, <1>2 DEF AddChannel
<1>3. CASE ~(channels[<<l, r>>] # 0)
  <2>1. channels' = [channels EXCEPT ![<<l, r>>] = born + 1] /\ born' = born + 1
    BY <1>3 DEF AddChannel
  <2>2. QED
    BY <1>1, <2>1
<1>4. QED
  BY <1>2, <1>3

\* What only a new channel changes leaves the senders to the interfaces.
LEMMA SendersStay ==
  ASSUME MatchInv, app # "new",
         UNCHANGED <<up, files, answers, pipe, app, ip2InterfaceIdMap, interfaceSender>>,
         \/ /\ mon.pc \in {"read", "added"} /\ mon'.pc \in {"read", "added"}
            /\ mon' = mon \/ pipe = <<>>
         \/ /\ mon.pc \in {"removed", "delete"} /\ mon'.pc \in {"removed", "delete"}
            /\ mon'.id = mon.id /\ pipe = <<>>
  PROVE  WorldInv' /\ ServingInv' /\ GoingInv' /\ OwnInv'
<1>1. (\A b \in Ip : Serves(b)' <=> Serves(b)) /\ OwnInv'
  BY SameServes DEF MatchInv
<1>2. WorldInv'
  <2>1. pipe = <<>> => WorldInv'
    BY DEF MatchInv, WorldInv, File
  <2>2. mon' = mon => WorldInv'
    BY DEF MatchInv, WorldInv, File, Up, Down
  <2>3. QED
    BY <2>1, <2>2
<1>3. ServingInv'
  <2>1. (mon.pc \in {"removed", "delete"} <=> mon'.pc \in {"removed", "delete"})
        /\ (mon.pc \in {"removed", "delete"} => mon'.id = mon.id)
    OBVIOUS
  <2>2. \A b : Up(b)' = Up(b) /\ Down(b)' = Down(b)
    BY DEF Up, Down
  <2>3. QED
    BY <1>1, <2>1, <2>2 DEF MatchInv, ServingInv
<1>4. GoingInv'
  BY DEF MatchInv, GoingInv
<1>5. QED
  BY <1>1, <1>2, <1>3, <1>4

\* The channels of an interface that came up, one after the other.
LEMMA InterfaceAddedKeeps ==
  ASSUME MatchInv, InterfaceAdded
  PROVE  WorldInv' /\ ServingInv' /\ GoingInv' /\ CoveredInv' /\ OwnInv'
<1>1. mon.pc = "added" /\ UNCHANGED <<up, files, answers, pipe, app, ip2InterfaceIdMap, interfaceSender, hs, remoteAddresses>>
  BY DEF InterfaceAdded, monVars
<1>2. pipe = <<>> /\ app # "new"
  BY <1>1 DEF MatchInv, WorldInv, ServingInv, Idle
<1>3. CASE mon.todo = {}
  <2>1. mon' = Idle /\ UNCHANGED <<channels, born>>
    BY <1>3 DEF InterfaceAdded
  <2>2. mon'.pc = "read" /\ mon'.todo = {}
    BY <2>1 DEF Idle
  <2>3. CoveredInv'
    BY <1>1, <1>3, <2>1, <2>2 DEF MatchInv, CoveredInv
  <2>4. QED
    BY <1>1, <1>2, <2>2, <2>3, SendersStay
<1>4. CASE mon.todo # {}
  <2>1. PICK r : r = Min(mon.todo)
    OBVIOUS
  <2>2. mon' = [mon EXCEPT !.todo = @ \ {r}] /\ AddChannel(<<mon.id, r>>)
    BY <1>4, <2>1 DEF InterfaceAdded
  <2>3. mon'.pc = "added" /\ mon'.id = mon.id /\ mon'.todo = mon.todo \ {r}
    BY <1>1, <2>2 DEF MatchInv, ServeInv, Shape
  <2>4. /\ born' \in Nat /\ \A p \in Pair : channels[p] # 0 => channels'[p] # 0
        /\ <<mon.id, r>> \in Pair => channels'[<<mon.id, r>>] # 0
    BY <2>2, AddChannelCovers
  <2>5. \A i \in Id, s \in remoteAddresses : <<i, s>> \in Pair
    BY DEF MatchInv, CoveredInv, Pair
  <2>6. CoveredInv'
    BY <1>1, <2>3, <2>4, <2>5 DEF MatchInv, CoveredInv
  <2>7. QED
    BY <1>1, <1>2, <2>3, <2>6, SendersStay
<1>5. QED
  BY <1>3, <1>4

\* The channels of one that goes.
LEMMA InterfaceRemovedKeeps ==
  ASSUME MatchInv, InterfaceRemoved
  PROVE  WorldInv' /\ ServingInv' /\ GoingInv' /\ CoveredInv' /\ OwnInv'
<1>1. mon.pc = "removed" /\ UNCHANGED <<up, files, answers, pipe, app, ip2InterfaceIdMap, interfaceSender, hs, remoteAddresses, born>>
  BY DEF InterfaceRemoved, monVars
<1>2. pipe = <<>> /\ app # "new"
  BY <1>1 DEF MatchInv, WorldInv, ServingInv, Idle
<1>3. mon'.pc \in {"removed", "delete"} /\ mon'.id = mon.id /\ mon'.todo \subseteq mon.todo
  <2>1. mon = [pc |-> mon.pc, id |-> mon.id, todo |-> mon.todo]
    BY DEF MatchInv, ServeInv, Shape
  <2>2. CASE mon.todo = {}
    <3>1. mon' = [mon EXCEPT !.pc = "delete"]
      BY <2>2 DEF InterfaceRemoved
    <3>2. QED
      BY <2>1, <3>1
  <2>3. CASE mon.todo # {}
    <3>1. PICK r : mon' = [mon EXCEPT !.todo = @ \ {r}]
      BY <2>3 DEF InterfaceRemoved
    <3>2. QED
      BY <1>1, <2>1, <3>1
  <2>4. QED
    BY <2>2, <2>3
<1>4. \A p \in Pair : p[1] # mon.id => channels'[p] = channels[p]
  <2>1. channels = [p \in Pair |-> channels[p]]
    BY DEF MatchInv, ServeInv, Shape
  <2>2. CASE mon.todo = {}
    BY <2>2 DEF InterfaceRemoved
  <2>3. CASE mon.todo # {}
    <3>1. channels' = [channels EXCEPT ![<<mon.id, Min(mon.todo)>>] = 0]
      BY <2>3 DEF InterfaceRemoved
    <3>2. QED
      BY <2>1, <3>1
  <2>4. QED
    BY <2>2, <2>3
<1>5. CoveredInv'
  <2>1. \A i \in Id, s \in remoteAddresses : <<i, s>> \in Pair /\ <<i, s>>[1] = i
    BY DEF MatchInv, CoveredInv, Pair
  <2>2. \A i \in Id, s \in remoteAddresses : i # mon.id => channels'[<<i, s>>] = channels[<<i, s>>]
    BY <1>4, <2>1
  <2>3. QED
    BY <1>1, <1>3, <2>2 DEF MatchInv, CoveredInv
<1>6. QED
  BY <1>1, <1>2, <1>3, <1>5, SendersStay

\* And its sender.
LEMMA RemoveInterfaceKeeps ==
  ASSUME MatchInv, RemoveInterface
  PROVE  WorldInv' /\ ServingInv' /\ GoingInv' /\ CoveredInv' /\ OwnInv'
<1>1. /\ mon.pc = "delete" /\ mon' = Idle /\ interfaceSender' = [interfaceSender EXCEPT ![mon.id] = NoSender]
      /\ UNCHANGED <<up, files, answers, pipe, app, ip2InterfaceIdMap, hs, remoteAddresses, channels, born>>
  BY DEF RemoveInterface, schVars
<1>2. pipe = <<>> /\ app # "new"
  BY <1>1 DEF MatchInv, WorldInv, ServingInv, Idle
<1>3. PICK a \in Ip : a \notin up /\ mon.id = ip2InterfaceIdMap[a] /\ mon.id # 0
  BY <1>1 DEF MatchInv, GoingInv
<1>4. mon.id \in Id /\ \A b \in Ip : ip2InterfaceIdMap[b] = mon.id <=> b = a
  BY <1>3, SenderServes DEF MatchInv
<1>5. \A i \in Id : interfaceSender'[i] = IF i = mon.id THEN NoSender ELSE interfaceSender[i]
  BY <1>1, <1>4 DEF MatchInv, IdsInv, SenderInv
<1>6. \A b : <<>> # Up(b) /\ <<>> # Down(b)
  BY EventsTold
<1>7. \A b \in Ip : Serves(b) <=> b \in up \/ b = a
  BY <1>1, <1>2, <1>4, <1>6 DEF MatchInv, ServingInv
<1>8. ASSUME NEW b \in Ip PROVE Serves(b)' <=> b \in up
  <2>1. CASE b = a
    BY <1>1, <1>3, <1>4, <1>5, <2>1 DEF Serves
  <2>2. CASE b # a
    <3>1. ip2InterfaceIdMap[b] # 0 => ip2InterfaceIdMap[b] \in Id /\ ip2InterfaceIdMap[b] # mon.id
      BY <1>4, <2>2, SenderServes DEF MatchInv
    <3>2. Serves(b)' <=> Serves(b)
      BY <1>1, <1>5, <3>1 DEF Serves
    <3>3. QED
      BY <1>7, <2>2, <3>2
  <2>3. QED
    BY <2>1, <2>2
<1>9. mon'.pc = "read" /\ mon'.todo = {}
  BY <1>1 DEF Idle
<1>10. ServingInv' /\ GoingInv'
  BY <1>1, <1>2, <1>6, <1>8, <1>9 DEF ServingInv, GoingInv
<1>11. WorldInv'
  BY <1>1, <1>2 DEF MatchInv, WorldInv, File
<1>12. OwnInv'
  BY <1>5 DEF MatchInv, OwnInv
<1>13. CoveredInv'
  BY <1>1, <1>5, <1>9 DEF MatchInv, CoveredInv
<1>14. QED
  BY <1>10, <1>11, <1>12, <1>13

\* Nothing that the senders are about changes.
LEMMA OthersKeep ==
  ASSUME MatchInv,
         UNCHANGED <<up, files, answers, pipe, mon, ip2InterfaceIdMap, interfaceSender, remoteAddresses>>,
         app' = app \/ (app = "started" /\ app' # "new")
  PROVE  WorldInv' /\ ServingInv' /\ GoingInv' /\ OwnInv'
<1>1. (\A b \in Ip : Serves(b)' <=> Serves(b)) /\ OwnInv'
  BY SameServes DEF MatchInv
<1>2. WorldInv'
  BY DEF MatchInv, WorldInv, File, Up, Down
<1>3. ServingInv'
  <2>1. \A b : Up(b)' = Up(b) /\ Down(b)' = Down(b)
    BY DEF Up, Down
  <2>2. app' = "new" <=> app = "new"
    OBVIOUS
  <2>3. QED
    BY <1>1, <2>1, <2>2 DEF MatchInv, ServingInv, Idle
<1>4. GoingInv'
  BY DEF MatchInv, GoingInv
<1>5. QED
  BY <1>1, <1>2, <1>3, <1>4

\* A remote of the handshake.
LEMMA AddRemoteKeeps ==
  ASSUME MatchInv, NEW r \in Remote, AddRemote(r)
  PROVE  WorldInv' /\ ServingInv' /\ GoingInv' /\ CoveredInv' /\ OwnInv'
<1>1. /\ app = "attached" /\ hs.r = 0 /\ r \in hs.remotes /\ remoteAddresses' = remoteAddresses \cup {r}
      /\ UNCHANGED <<up, files, answers, pipe, app, mon, ip2InterfaceIdMap, interfaceSender, channels, born>>
  BY DEF AddRemote, monVars
<1>2. hs'.remotes = hs.remotes \ {r} /\ hs'.r = r /\ hs'.todo = Id
  BY DEF MatchInv, ServeInv, Shape, AddRemote
<1>3. (\A b \in Ip : Serves(b)' <=> Serves(b)) /\ OwnInv'
  BY <1>1, SameServes DEF MatchInv
<1>4. WorldInv' /\ GoingInv'
  BY <1>1 DEF MatchInv, WorldInv, GoingInv, File, Up, Down
<1>5. ServingInv'
  <2>1. \A b : Up(b)' = Up(b) /\ Down(b)' = Down(b)
    BY DEF Up, Down
  <2>2. QED
    BY <1>1, <1>3, <2>1 DEF MatchInv, ServingInv
<1>6. CoveredInv'
  <2>1. \A s \in remoteAddresses : s # 0
    BY InterfacesAssumption DEF MatchInv, CoveredInv, InterfacesAssumption
  <2>2. Id' = Id
    BY DEF Id
  <2>3. QED
    BY <1>1, <1>2, <2>1, <2>2 DEF MatchInv, CoveredInv
<1>7. QED
  BY <1>3, <1>4, <1>5, <1>6

\* A sender that is there reaches the remote, so it is added.
LEMMA TestLocalKeeps ==
  ASSUME MultiHomed, MatchInv, TestLocal
  PROVE  WorldInv' /\ ServingInv' /\ GoingInv' /\ CoveredInv' /\ OwnInv'
<1>1. /\ hs.r # 0 /\ hs.l = 0
      /\ UNCHANGED <<up, files, answers, pipe, app, mon, ip2InterfaceIdMap, interfaceSender, remoteAddresses, channels, born>>
  BY DEF TestLocal, monVars, schVars
<1>2. WorldInv' /\ ServingInv' /\ GoingInv' /\ OwnInv'
  BY <1>1, OthersKeep
<1>3. hs = [remotes |-> hs.remotes, r |-> hs.r, l |-> hs.l, todo |-> hs.todo] /\ 0 \notin Id
  BY DEF MatchInv, ServeInv, Shape, Id
<1>4. CASE hs.todo = {}
  <2>1. hs'.remotes = hs.remotes /\ hs'.r = 0 /\ hs'.todo = {} /\ hs'.l = 0
    BY <1>1, <1>3, <1>4 DEF TestLocal
  <2>2. CoveredInv'
    BY <1>1, <1>3, <1>4, <2>1 DEF MatchInv, CoveredInv
  <2>3. QED
    BY <1>2, <2>2
<1>5. CASE hs.todo # {}
  <2>1. PICK l : l = Min(hs.todo)
    OBVIOUS
  <2>2. PICK to : to = IF IsReachable(Routes, Iface[l], AddressOf(hs.r)) THEN l ELSE 0
    OBVIOUS
  <2>3. hs' = [hs EXCEPT !.todo = @ \ {l}, !.l = to]
    BY <1>5, <2>1, <2>2 DEF TestLocal
  <2>4. hs'.remotes = hs.remotes /\ hs'.r = hs.r /\ hs'.todo = hs.todo \ {l} /\ hs'.l = to
    BY <1>3, <2>3
  <2>5. ASSUME l \in Id, interfaceSender[l] # NoSender PROVE to = l
    <3>1. PICK a \in Ip : a = interfaceSender[l].ip /\ Serves(a) /\ ip2InterfaceIdMap[a] = l
      BY <2>5, SenderServes DEF MatchInv
    <3>2. Iface[l] = IfaceOf(a)
      BY <2>5, <3>1 DEF MatchInv, OwnInv, Iface
    <3>3. a \in up
      <4>1. ~Settled
        BY <1>1 DEF Settled
      <4>2. mon.pc \notin {"removed", "delete"}
        BY <4>1 DEF MatchInv, ServeInv, SettledInv
      <4>3. pipe # Down(a)
        <5>1. Down(a)[1][1] = "ifdown" /\ 1 \in DOMAIN Down(a)
          BY DEF Down
        <5>2. QED
          BY <4>1, <5>1 DEF MatchInv, ServeInv, SettledInv
      <4>4. app # "new"
        BY <2>5 DEF MatchInv, ServingInv
      <4>5. QED
        BY <3>1, <4>2, <4>3, <4>4 DEF MatchInv, ServingInv
    <3>4. hs.r \in Remote
      BY <1>1 DEF MatchInv, CoveredInv
    <3>5. PICK i \in DOMAIN Table : Table[i].iface = IfaceOf(a) /\ Matches(Table[i], AddressOf(hs.r))
      BY <3>4 DEF MultiHomed
    <3>6. i \in DOMAIN Routes /\ Routes[i] = Table[i]
      BY <3>3, <3>5 DEF Routes
    <3>7. IfaceOf(a) # Null
      BY DEF MultiHomed
    <3>8. QED
      BY <2>2, <3>2, <3>5, <3>6, <3>7 DEF IsReachable
  <2>6. to \in {0, l}
    BY <2>2
  <2>7. CoveredInv'
    BY <1>1, <1>3, <2>4, <2>5 DEF MatchInv, CoveredInv
  <2>8. QED
    BY <1>2, <2>7
<1>6. QED
  BY <1>4, <1>5

\* The channel it was found to need.
LEMMA AddLocalKeeps ==
  ASSUME MatchInv, AddLocal
  PROVE  WorldInv' /\ ServingInv' /\ GoingInv' /\ CoveredInv' /\ OwnInv'
<1>1. /\ hs.l # 0 /\ hs' = [hs EXCEPT !.l = 0] /\ AddChannel(<<hs.l, hs.r>>)
      /\ UNCHANGED <<up, files, answers, pipe, app, mon, ip2InterfaceIdMap, interfaceSender, remoteAddresses>>
  BY DEF AddLocal, monVars
<1>2. WorldInv' /\ ServingInv' /\ GoingInv' /\ OwnInv'
  BY <1>1, OthersKeep
<1>3. hs'.remotes = hs.remotes /\ hs'.r = hs.r /\ hs'.todo = hs.todo /\ hs'.l = 0
  BY <1>1 DEF MatchInv, ServeInv, Shape
<1>4. /\ born' \in Nat /\ \A p \in Pair : channels[p] # 0 => channels'[p] # 0
      /\ <<hs.l, hs.r>> \in Pair => channels'[<<hs.l, hs.r>>] # 0
  BY <1>1, AddChannelCovers
<1>5. \A i \in Id, s \in remoteAddresses : <<i, s>> \in Pair
  BY DEF MatchInv, CoveredInv, Pair
<1>6. CoveredInv'
  BY <1>1, <1>3, <1>4, <1>5 DEF MatchInv, CoveredInv
<1>7. QED
  BY <1>2, <1>6

\* Every step keeps the invariant.
LEMMA MatchStep ==
  ASSUME MultiHomed, FaultKinds \cap {"arpLate", "busy", "duringHandshake"} = {}, MatchInv, [Next]_vars
  PROVE  MatchInv'
<1>1. IdsInv' /\ ServeInv'
  BY StepIds, StepServe DEF MatchInv
<1> DEFINE TheRest == WorldInv /\ ServingInv /\ GoingInv /\ CoveredInv /\ OwnInv
<1>2. Start \/ ReadUp \/ ReadDown \/ InterfaceAdded \/ InterfaceRemoved \/ RemoveInterface => TheRest'
  BY StartKeeps, ReadUpKeeps, ReadDownKeeps, InterfaceAddedKeeps, InterfaceRemovedKeeps, RemoveInterfaceKeeps
<1>3. (\E a \in Ip : IfUp(a) \/ IfDown(a)) => TheRest'
  BY IfUpKeeps, IfDownKeeps
<1>4. (\E r \in Remote : AddRemote(r)) \/ TestLocal \/ AddLocal => TheRest'
  BY AddRemoteKeeps, TestLocalKeeps, AddLocalKeeps
<1>5. ASSUME UNCHANGED <<up, files, answers, pipe, mon, monVars, hs, schVars>>,
             app' = app \/ (app = "started" /\ app' # "new")
      PROVE  TheRest'
  <2>1. WorldInv' /\ ServingInv' /\ GoingInv' /\ OwnInv'
    BY <1>5, OthersKeep DEF monVars, schVars
  <2>2. CoveredInv'
    BY <1>5 DEF MatchInv, CoveredInv, monVars, schVars
  <2>3. QED
    BY <2>1, <2>2
<1> HIDE DEF TheRest
<1>6. Attach => TheRest'
  BY <1>5 DEF Attach
<1>7. (\E l \in Id, p \in Pair : SendRemoval(l, p)) \/ (\E m \in net : RecvChs(m) \/ RecvRemoval(m)) => TheRest'
  BY <1>5 DEF SendRemoval, RecvChs, RecvRemoval
<1>8. UNCHANGED vars => TheRest'
  BY <1>5 DEF vars
<1>9. TheRest'
  BY <1>2, <1>3, <1>4, <1>6, <1>7, <1>8 DEF Next, Network, Run
<1>10. QED
  BY <1>1, <1>9 DEF TheRest, MatchInv

(***************************************************************************)
(* While nothing changes, a multi-homed client has a channel for every     *)
(* pair of one of its interfaces that are up and one of the server's, and  *)
(* for no others, in whatever order interfaces came and went once the      *)
(* handshake was over (populateInterfaces, interfaceAdded,                 *)
(* interfaceRemoved, addRemote).                                           *)
(***************************************************************************)
THEOREM ChannelsMatch ==
  ASSUME MultiHomed, FaultKinds \cap {"arpLate", "busy", "duringHandshake"} = {}
  PROVE  Spec => []ChannelsMatchInterfaces
<1>1. MatchInv /\ [Next]_vars => MatchInv'
  BY MatchStep
<1>2. QED
  BY <1>1, MatchBegins, MatchImplied, PTL DEF Spec

-----------------------------------------------------------------------------
\* Routing tables (Routing).

\* What a line of the routing table says, and the interfaces of the senders, when
\* interfaces have these names.
Route(Names) == [iface : Names, destination : Nat, gateway : Nat, mask : Nat]
Ifaces(Names) == Seq(Names \cup {Null})
Senders(iface, f) == {s \in DOMAIN iface : iface[s] = f}

\* The lines among the first n a packet can follow, and the one it should.
Usable(table, iface, ip, n) ==
  {i \in 1 .. n : Matches(table[i], ip) /\ Senders(iface, table[i].iface) # {}}
IsPick(i, table, u) ==
  /\ i \in u /\ \A j \in u : table[j].mask <= table[i].mask
  /\ IF table[i].mask = 0 THEN \A j \in u : j <= i
     ELSE \A j \in u : table[j].mask = table[i].mask => i <= j

\* What the loop has found after n lines.
Chosen(table, iface, i) == [mask |-> table[i].mask, id |-> Min(Senders(iface, table[i].iface))]
IsBest(b, table, iface, ip, n) ==
  LET u == Usable(table, iface, ip, n)
  IN \/ u = {} /\ b = [mask |-> 0, id |-> 0]
     \/ \E i \in u : IsPick(i, table, u) /\ b = Chosen(table, iface, i)

\* The loop as a function of the number of lines.
Searches(best, table, iface, ip) ==
  best = [n \in 0 .. Len(table) |->
            IF n = 0 THEN [mask |-> 0, id |-> 0] ELSE Consider(best[n - 1], table[n], ip, iface)]

\* A sender that is there has a least id.
LEMMA SenderFound ==
  ASSUME NEW Names, NEW iface \in Ifaces(Names), NEW f, Senders(iface, f) # {}
  PROVE  Min(Senders(iface, f)) \in Senders(iface, f)
<1>1. Senders(iface, f) \subseteq Nat
  BY DEF Senders, Ifaces
<1>2. \E x \in Senders(iface, f) : \A y \in Senders(iface, f) : x <= y
  BY <1>1, LeastNumber
<1>3. QED
  BY <1>2 DEF Min

\* One more line.
LEMMA BestGoesOn ==
  ASSUME NEW Names, NEW table \in Seq(Route(Names)), NEW iface \in Ifaces(Names), NEW ip, NEW n \in 1 .. Len(table),
         NEW b, IsBest(b, table, iface, ip, n - 1)
  PROVE  IsBest(Consider(b, table[n], ip, iface), table, iface, ip, n)
<1>1. PICK u : u = Usable(table, iface, ip, n - 1)
  OBVIOUS
<1>2. PICK v : v = Usable(table, iface, ip, n)
  OBVIOUS
<1>3. /\ n \in Nat /\ n - 1 \in Nat /\ Len(table) \in Nat /\ u \subseteq 1 .. n - 1 /\ n \notin u
      /\ \A i \in 1 .. n : table[i] \in Route(Names) /\ table[i].mask \in Nat
  <2>1. n \in Nat /\ n - 1 \in Nat /\ Len(table) \in Nat
    BY LenProperties
  <2>2. u \subseteq 1 .. n - 1
    BY <1>1 DEF Usable
  <2>3. \A i \in 1 .. n : i \in 1 .. Len(table)
    BY <2>1
  <2>4. \A i \in 1 .. n : table[i] \in Route(Names)
    BY <2>3, ElementOfSeq
  <2>5. QED
    BY <2>1, <2>2, <2>4 DEF Route
<1>4. v = u \cup {i \in {n} : Matches(table[n], ip) /\ Senders(iface, table[n].iface) # {}}
  BY <1>1, <1>2, <1>3 DEF Usable
<1>5. \/ u = {} /\ b = [mask |-> 0, id |-> 0]
      \/ \E i \in u : IsPick(i, table, u) /\ b = Chosen(table, iface, i)
  BY <1>1 DEF IsBest
<1>6. PICK c : c = Consider(b, table[n], ip, iface)
  OBVIOUS
<1>7. {i \in DOMAIN iface : iface[i] = table[n].iface} = Senders(iface, table[n].iface)
  BY DEF Senders
<1>8. c = IF Matches(table[n], ip) /\ Better(b, table[n]) /\ Senders(iface, table[n].iface) # {}
            THEN Chosen(table, iface, n) ELSE b
  BY <1>6, <1>7 DEF Consider, Chosen
<1>9. (v = {} /\ c = [mask |-> 0, id |-> 0]) \/ \E i \in v : IsPick(i, table, v) /\ c = Chosen(table, iface, i)
  <2>1. CASE ~(Matches(table[n], ip) /\ Senders(iface, table[n].iface) # {})
    <3>1. v = u /\ c = b
      BY <1>4, <1>8, <2>1
    <3>2. QED
      BY <1>5, <3>1
  <2>2. CASE Matches(table[n], ip) /\ Senders(iface, table[n].iface) # {}
    <3>1. v = u \cup {n} /\ n \in v
      BY <1>4, <2>2
    <3>2. CASE u = {}
      <4>1. b.mask = 0 /\ table[n].mask \in Nat
        BY <1>3, <1>5, <3>2
      <4>2. Better(b, table[n])
        BY <4>1 DEF Better
      <4>3. IsPick(n, table, v)
        BY <1>3, <3>1, <3>2 DEF IsPick
      <4>4. QED
        BY <1>8, <2>2, <3>1, <4>2, <4>3
    <3>3. CASE u # {}
      <4>1. PICK i \in u : IsPick(i, table, u) /\ b = Chosen(table, iface, i)
        BY <1>5, <3>3
      <4>2. b.mask = table[i].mask /\ i \in 1 .. n /\ i < n /\ i \in v
        BY <1>3, <3>1, <4>1 DEF Chosen
      <4>3. \A j \in u : j \in 1 .. n /\ j < n /\ table[j].mask \in Nat
        BY <1>3
      <4>4. CASE Better(b, table[n])
        <5>1. table[i].mask < table[n].mask \/ (table[i].mask = 0 /\ table[n].mask = 0)
          BY <4>2, <4>4 DEF Better
        <5>2. IsPick(n, table, v)
          BY <1>3, <3>1, <4>1, <4>2, <4>3, <5>1 DEF IsPick
        <5>3. QED
          BY <1>8, <2>2, <3>1, <4>4, <5>2
      <4>5. CASE ~Better(b, table[n])
        <5>1. ~(table[i].mask < table[n].mask) /\ ~(table[i].mask = 0 /\ table[n].mask = 0)
          BY <4>2, <4>5 DEF Better
        <5>2. IsPick(i, table, v)
          BY <1>3, <3>1, <4>1, <4>2, <4>3, <5>1 DEF IsPick
        <5>3. c = b
          BY <1>8, <4>5
        <5>4. QED
          BY <4>1, <4>2, <5>2, <5>3
      <4>6. QED
        BY <4>4, <4>5
    <3>4. QED
      BY <3>2, <3>3
  <2>3. QED
    BY <2>1, <2>2
<1>10. QED
  BY <1>2, <1>6, <1>9 DEF IsBest

\* There is one line to pick at most.
LEMMA BestIsOne ==
  ASSUME NEW Names, NEW table \in Seq(Route(Names)), NEW iface, NEW ip, NEW n \in 0 .. Len(table),
         NEW b, NEW c, IsBest(b, table, iface, ip, n), IsBest(c, table, iface, ip, n)
  PROVE  b = c
<1>1. PICK u : u = Usable(table, iface, ip, n)
  OBVIOUS
<1>2. \A i \in u : i \in Nat /\ table[i].mask \in Nat
  <2>1. Len(table) \in Nat /\ \A i \in u : i \in 1 .. n
    BY <1>1, LenProperties DEF Usable
  <2>2. \A i \in u : i \in 1 .. Len(table)
    BY <2>1
  <2>3. \A i \in u : table[i] \in Route(Names)
    BY <2>2, ElementOfSeq
  <2>4. QED
    BY <2>1, <2>3 DEF Route
<1>3. \A i, j \in u : IsPick(i, table, u) /\ IsPick(j, table, u) => i = j
  BY <1>2 DEF IsPick
<1>4. QED
  BY <1>1, <1>3 DEF IsBest

\* The loop has found the line to pick.
LEMMA SearchFinds ==
  ASSUME NEW Names, NEW table \in Seq(Route(Names)), NEW iface \in Ifaces(Names), NEW ip
  PROVE  \E b : /\ IsBest(b, table, iface, ip, Len(table))
                /\ GetSuitableInterfaceId(table, iface, ip) = b.id
<1>1. PICK N \in Nat : N = Len(table)
  BY LenProperties
<1>2. PICK g : g = [n \in 0 .. N |-> CHOOSE b : IsBest(b, table, iface, ip, n)]
  OBVIOUS
<1>3. IsBest([mask |-> 0, id |-> 0], table, iface, ip, 0)
  BY DEF IsBest, Usable
<1>4. \A n \in 0 .. N : \E b : IsBest(b, table, iface, ip, n)
  <2>1. PICK T : T = {n \in Nat : n \in 0 .. N /\ ~\E b : IsBest(b, table, iface, ip, n)}
    OBVIOUS
  <2>2. T = {}
    <3> SUFFICES ASSUME T # {} PROVE FALSE
      OBVIOUS
    <3>1. PICK n \in T : \A m \in T : n <= m
      BY <2>1, LeastNumber
    <3>2. n \in 0 .. N /\ ~\E b : IsBest(b, table, iface, ip, n)
      BY <2>1, <3>1
    <3>3. n # 0
      BY <1>3, <3>2
    <3>4. n \in 1 .. N /\ n - 1 \in 0 .. N /\ n - 1 \in Nat /\ n - 1 \notin T
      BY <1>1, <3>1, <3>2, <3>3
    <3>5. PICK b : IsBest(b, table, iface, ip, n - 1)
      BY <2>1, <3>4
    <3>6. QED
      BY <1>1, <3>2, <3>4, <3>5, BestGoesOn
  <2>3. QED
    BY <2>1, <2>2
<1>5. \A n \in 0 .. N : IsBest(g[n], table, iface, ip, n)
  <2>1. ASSUME NEW n \in 0 .. N PROVE IsBest(g[n], table, iface, ip, n)
    <3>1. g[n] = CHOOSE b : IsBest(b, table, iface, ip, n)
      BY <1>2
    <3>2. \E b : IsBest(b, table, iface, ip, n)
      BY <1>4
    <3>3. QED
      BY <3>1, <3>2
  <2>2. QED
    BY <2>1
<1>6. g[0] = [mask |-> 0, id |-> 0]
  BY <1>1, <1>3, <1>5, BestIsOne
<1>7. ASSUME NEW n \in 1 .. N PROVE g[n] = Consider(g[n - 1], table[n], ip, iface)
  <2>1. n \in 0 .. N /\ n - 1 \in 0 .. N
    BY <1>1
  <2>2. IsBest(Consider(g[n - 1], table[n], ip, iface), table, iface, ip, n)
    BY <1>1, <1>5, <2>1, BestGoesOn
  <2>3. QED
    BY <1>1, <1>5, <2>1, <2>2, BestIsOne
<1>8. Searches(g, table, iface, ip)
  <2>1. \A n \in 0 .. N : g[n] = IF n = 0 THEN [mask |-> 0, id |-> 0]
                                 ELSE Consider(g[n - 1], table[n], ip, iface)
    <3>1. \A n \in 0 .. N : n # 0 => n \in 1 .. N
      BY <1>1
    <3>2. QED
      BY <1>6, <1>7, <3>1
  <2>2. g = [n \in 0 .. N |-> g[n]]
    BY <1>2
  <2>3. g = [n \in 0 .. N |-> IF n = 0 THEN [mask |-> 0, id |-> 0]
                              ELSE Consider(g[n - 1], table[n], ip, iface)]
    BY ONLY <2>1, <2>2
  <2>4. QED
    BY <1>1, <2>3 DEF Searches
<1>9. PICK best : best = CHOOSE h : Searches(h, table, iface, ip)
  OBVIOUS
<1>10. Searches(best, table, iface, ip)
  BY <1>8, <1>9, Zenon
<1>11. best = [n \in 0 .. N |-> IF n = 0 THEN [mask |-> 0, id |-> 0]
                                ELSE Consider(best[n - 1], table[n], ip, iface)]
  BY <1>1, <1>10 DEF Searches
<1>12. PICK T : T = {n \in Nat : n \in 0 .. N /\ best[n] # g[n]}
  OBVIOUS
<1>13. T = {}
  <2> SUFFICES ASSUME T # {} PROVE FALSE
    OBVIOUS
  <2>1. PICK n \in T : \A m \in T : n <= m
    BY <1>12, LeastNumber
  <2>2. n \in 0 .. N /\ best[n] # g[n]
    BY <1>12, <2>1
  <2>3. n # 0
    BY <1>6, <1>11, <2>2
  <2>4. n \in 1 .. N /\ n - 1 \in 0 .. N /\ n - 1 \in Nat /\ n - 1 \notin T
    BY <1>1, <2>1, <2>2, <2>3
  <2>5. best[n - 1] = g[n - 1]
    BY <1>12, <2>4
  <2>6. best[n] = Consider(best[n - 1], table[n], ip, iface)
    BY <1>11, <2>2, <2>3
  <2>7. QED
    BY <1>7, <2>2, <2>4, <2>5, <2>6
<1>14. best[N] = g[N] /\ N \in 0 .. N
  BY <1>1, <1>12, <1>13
<1>15. GetSuitableInterfaceId(table, iface, ip) = best[Len(table)].id
  BY <1>9 DEF GetSuitableInterfaceId, Searches
<1>16. QED
  BY <1>1, <1>5, <1>14, <1>15

\* Whatever the routing table, the senders and the address are, getSuitableInterfaceId
\* takes the interface of a longest matching prefix that has a sender, the last of
\* several default routes, and none only when no line leads there.
THEOREM PrefixFollowed ==
  ASSUME NEW Names, Null \notin Names, NEW table \in Seq(Route(Names)),
         NEW iface \in Ifaces(Names), NEW ip
  PROVE  LongestPrefix(table, iface, ip)
<1>1. PICK N \in Nat : N = Len(table) /\ DOMAIN table = 1 .. N
  BY LenProperties
<1>2. PICK u : u = Usable(table, iface, ip, N)
  OBVIOUS
<1>3. {i \in DOMAIN table : /\ Matches(table[i], ip)
                            /\ \E s \in DOMAIN iface : iface[s] = table[i].iface} = u
  BY <1>1, <1>2 DEF Usable, Senders
<1>4. PICK l : l = {i \in u : \A j \in u : table[j].mask <= table[i].mask}
  OBVIOUS
<1>5. PICK id : id = GetSuitableInterfaceId(table, iface, ip)
  OBVIOUS
<1>6. PICK b : IsBest(b, table, iface, ip, N) /\ id = b.id
  BY <1>1, <1>5, SearchFinds
<1>7. PICK k : k = IF \E i \in l : table[i].mask = 0 THEN Max(l) ELSE Min(l)
  OBVIOUS
<1>8. SUFFICES IF u = {} THEN id = 0
               ELSE iface[id] = table[k].iface /\ IsReachable(table, iface[id], ip)
  BY <1>3, <1>4, <1>5, <1>7 DEF LongestPrefix
<1>9. CASE u = {}
  BY <1>2, <1>6, <1>9 DEF IsBest
<1>10. CASE u # {}
  <2>1. PICK i \in u : IsPick(i, table, u) /\ b = Chosen(table, iface, i)
    BY <1>2, <1>6, <1>10 DEF IsBest
  <2>2. \A j \in u : j \in Nat /\ j \in 1 .. N /\ table[j] \in Route(Names) /\ table[j].mask \in Nat
    <3>1. \A j \in u : j \in 1 .. N
      BY <1>2 DEF Usable
    <3>2. \A j \in u : table[j] \in Route(Names)
      BY <1>1, <3>1, ElementOfSeq
    <3>3. QED
      BY <3>1, <3>2 DEF Route
  <2>3. i \in l /\ \A j \in l : j \in u /\ table[j].mask = table[i].mask
    <3>1. \A j \in u : table[j].mask <= table[i].mask
      BY <2>1 DEF IsPick
    <3>2. QED
      BY <1>4, <2>2, <3>1
  <2>4. k = i
    <3>1. CASE table[i].mask = 0
      <4>1. \A j \in l : j \in Nat /\ j <= i
        BY <2>1, <2>2, <2>3, <3>1 DEF IsPick
      <4>2. Max(l) = i
        <5>1. PICK x : x = Max(l)
          OBVIOUS
        <5>2. x \in l /\ \A y \in l : x >= y
          BY <2>2, <2>3, <4>1, <5>1 DEF Max
        <5>3. QED
          BY <2>2, <2>3, <4>1, <5>1, <5>2
      <4>3. QED
        BY <1>7, <2>3, <3>1, <4>2
    <3>2. CASE table[i].mask # 0
      <4>1. \A j \in l : j \in Nat /\ i <= j
        BY <2>1, <2>2, <2>3, <3>2 DEF IsPick
      <4>2. Min(l) = i
        <5>1. PICK x : x = Min(l)
          OBVIOUS
        <5>2. x \in l /\ \A y \in l : x =< y
          BY <2>2, <2>3, <4>1, <5>1 DEF Min
        <5>3. QED
          BY <2>2, <2>3, <4>1, <5>1, <5>2
      <4>3. QED
        BY <1>7, <2>3, <3>2, <4>2
    <3>3. QED
      BY <3>1, <3>2
  <2>5. i \in 1 .. N /\ Matches(table[i], ip) /\ Senders(iface, table[i].iface) # {}
    BY <1>2 DEF Usable
  <2>6. id \in DOMAIN iface /\ iface[id] = table[i].iface
    <3>1. id = Min(Senders(iface, table[i].iface))
      BY <1>6, <2>1 DEF Chosen
    <3>2. id \in Senders(iface, table[i].iface)
      BY <2>5, <3>1, SenderFound
    <3>3. QED
      BY <3>2 DEF Senders
  <2>7. table[i].iface # Null
    BY <2>2 DEF Route
  <2>8. IsReachable(table, iface[id], ip)
    BY <1>1, <2>5, <2>6, <2>7 DEF IsReachable
  <2>9. QED
    BY <1>10, <2>4, <2>6, <2>8
<1>11. QED
  BY <1>9, <1>10

\* The two readers of the routing table (getAllGatewayAndIface, getGatewayAndIface) know
\* the same interfaces, and the same gateway of one with one default route.
THEOREM GatewaysFollowed ==
  ASSUME NEW Names, NEW table \in Seq(Route(Names))
  PROVE  GatewaysAgree(table)
<1>1. PICK N \in Nat : N = Len(table) /\ DOMAIN table = 1 .. N
  BY LenProperties
<1>2. \A i \in 1 .. N : table[i] \in Route(Names) /\ table[i].gateway \in Nat
  <2>1. \A i \in 1 .. N : table[i] \in Route(Names)
    BY <1>1, ElementOfSeq
  <2>2. QED
    BY <2>1 DEF Route
<1>3. PICK all : all = AllGatewayAndIface(table)
  OBVIOUS
<1>4. /\ DOMAIN all = {table[i].iface : i \in Defaults(table)}
      /\ \A f \in DOMAIN all : all[f] = table[Max({i \in Defaults(table) : table[i].iface = f})].gateway
  BY <1>3 DEF AllGatewayAndIface
<1>5. ASSUME NEW f
      PROVE  LET own == {i \in Defaults(table) : table[i].iface = f}
             IN /\ own = {} <=> f \notin DOMAIN all
                /\ own # {} => Min(own) \in own
  <2>1. PICK own : own = {i \in Defaults(table) : table[i].iface = f}
    OBVIOUS
  <2>2. own \subseteq Nat
    BY <1>1, <2>1 DEF Defaults
  <2>3. own # {} => Min(own) \in own
    BY <2>2, LeastNumber DEF Min
  <2>4. QED
    BY <1>4, <2>1, <2>3
<1>6. ASSUME NEW f PROVE GatewayAndIface(table, f) = Null <=> f \notin DOMAIN all
  <2>1. PICK own : own = {i \in Defaults(table) : table[i].iface = f}
    OBVIOUS
  <2>2. GatewayAndIface(table, f) = IF own = {} THEN Null ELSE table[Min(own)].gateway
    BY <2>1 DEF GatewayAndIface
  <2>3. (own = {} <=> f \notin DOMAIN all) /\ (own # {} => Min(own) \in own)
    BY <1>5, <2>1
  <2>4. own # {} => table[Min(own)].gateway \in Nat
    BY <1>1, <1>2, <2>1, <2>3 DEF Defaults
  <2>5. QED
    BY <2>2, <2>3, <2>4, RoutingAssumption DEF RoutingAssumption
<1>7. ASSUME NEW f \in DOMAIN all, Cardinality({i \in Defaults(table) : table[i].iface = f}) = 1
      PROVE  GatewayAndIface(table, f) = all[f]
  <2>1. PICK own : own = {i \in Defaults(table) : table[i].iface = f}
    OBVIOUS
  <2>2. IsFiniteSet(own)
    <3>1. IsFiniteSet(1 .. N) /\ own \subseteq 1 .. N
      BY <1>1, <2>1, FS_Interval DEF Defaults
    <3>2. QED
      BY <3>1, FS_Subset
  <2>3. PICK x : own = {x}
    BY <1>7, <2>1, <2>2, FS_Singleton
  <2>4. x \in Nat
    BY <1>1, <2>1, <2>3 DEF Defaults
  <2>5. Min(own) = x /\ Max(own) = x
    BY <2>3, <2>4 DEF Min, Max
  <2>6. GatewayAndIface(table, f) = table[x].gateway
    BY <2>1, <2>3, <2>5 DEF GatewayAndIface
  <2>7. all[f] = table[x].gateway
    BY <1>4, <2>1, <2>5
  <2>8. QED
    BY <2>6, <2>7
<1>8. QED
  BY <1>3, <1>6, <1>7 DEF GatewaysAgree

-----------------------------------------------------------------------------
\* The flows of a multiplexer (Multiplexer).

ReaderPlace == {"none", "reading", "read", "counted", "holding", "put", "ended"}

Status == UNION {[F -> Nat] : F \in SUBSET MuxId}

CounterTypes ==
  /\ nextFlowId \in MuxId /\ opened \subseteq MuxId
  /\ sent \in [MuxId -> Nat] /\ ackedUpto \in [MuxId -> Nat]
  /\ delivered \in [MuxId -> Nat] /\ readUpto \in [MuxId -> Nat]

AcceptTypes ==
  /\ children \subseteq MuxId /\ pendingFlows \subseteq MuxId /\ acceptSem \in Nat
  /\ acceptor \in [Acceptor -> {"idle", "woken"}] /\ accepted \in [MuxId -> Nat]

ReaderTypes ==
  /\ muxReader \in [MuxId -> [pc : ReaderPlace, status : Status \cup {NoStatus}]]
  /\ controlSlot \in Status \cup {NoStatus} /\ statuses \subseteq Status

MuxTypes == CounterTypes /\ AcceptTypes /\ ReaderTypes

\* A status never runs ahead of the readers.
Truthful(s) == \A g \in MuxId \cap DOMAIN s : s[g] \in Nat /\ s[g] <= readUpto[g]

StatusesTruthful ==
  /\ \A s \in statuses : Truthful(s)
  /\ controlSlot # NoStatus => Truthful(controlSlot)
  /\ \A f \in MuxId : muxReader[f].pc = "holding" => Truthful(muxReader[f].status)

\* What was known to be read, was read, arrived and was sent, in this order.
CountersInv ==
  \A f \in MuxId : /\ ackedUpto[f] <= readUpto[f] /\ readUpto[f] <= delivered[f]
                   /\ delivered[f] <= sent[f] /\ sent[f] <= FlowPackets
                   /\ sent[f] - ackedUpto[f] <= FlowWindow

\* A flow is in the map from its first packet to its last read, pending until it is
\* accepted, and read only then.
PlacesInv ==
  \A f \in MuxId : /\ f \in children <=> delivered[f] > 0 /\ readUpto[f] < FlowPackets
                   /\ f \in pendingFlows => f \in children /\ muxReader[f].pc = "none"
                   /\ muxReader[f].pc # "none" => delivered[f] > 0
                   /\ accepted[f] = IF f \in pendingFlows \/ delivered[f] = 0 THEN 0 ELSE 1

WokenAcceptors == {a \in Acceptor : acceptor[a] = "woken"}

WakeUpsInv == Cardinality(pendingFlows) = acceptSem + Cardinality(WokenAcceptors)

MuxInv == MuxTypes /\ StatusesTruthful /\ CountersInv /\ PlacesInv /\ WakeUpsInv

(***************************************************************************)
(* Nothing is sent, pending or awake at first.                             *)
(***************************************************************************)
LEMMA MuxInitInv == MultiplexerInit => MuxInv
<1> SUFFICES ASSUME MultiplexerInit PROVE MuxInv
  OBVIOUS
<1> USE MultiplexerAssumption DEF MultiplexerAssumption, MultiplexerInit
<1>1. CounterTypes /\ AcceptTypes
  BY DEF CounterTypes, AcceptTypes, MuxId
<1>2. ReaderTypes
  BY DEF ReaderTypes, ReaderPlace
<1>3. StatusesTruthful
  BY DEF StatusesTruthful
<1>4. CountersInv /\ PlacesInv
  BY DEF CountersInv, PlacesInv
<1>5. WakeUpsInv
  <2>1. WokenAcceptors = {}
    BY DEF WokenAcceptors
  <2>2. QED
    BY <2>1, FS_EmptySet DEF WakeUpsInv
<1>6. QED
  BY <1>1, <1>2, <1>3, <1>4, <1>5 DEF MuxInv, MuxTypes

\* The counter of flow ids stays a flow id.
LEMMA NextIdType == ASSUME nextFlowId \in MuxId PROVE (nextFlowId + 1) % FlowIdCnt \in MuxId
BY MultiplexerAssumption DEF MultiplexerAssumption, MuxId

\* What a status says of a flow is a number.
LEMMA StatusValue == ASSUME NEW s \in Status, NEW g \in DOMAIN s PROVE s[g] \in Nat
BY DEF Status

(***************************************************************************)
(* Types of the counters of packets.                                       *)
(***************************************************************************)
LEMMA CounterTypesKept ==
  ASSUME MuxTypes, [MultiplexerNext]_muxVars
  PROVE  CounterTypes'
<1> USE DEF MuxTypes, CounterTypes, senderVars, acceptorVars, statusVars
<1>1. ASSUME OpenMuxFlow PROVE CounterTypes'
  BY <1>1, NextIdType DEF OpenMuxFlow
<1>2. ASSUME NEW f \in MuxId, SendOnFlow(f) PROVE CounterTypes'
  BY <1>2 DEF SendOnFlow
<1>3. ASSUME NEW f \in MuxId, RecvOnFlow(f) PROVE CounterTypes'
  BY <1>3 DEF RecvOnFlow
<1>4. ASSUME NEW s \in statuses, RecvStatus(s) PROVE CounterTypes'
  <2>1. s \in Status
    BY DEF ReaderTypes
  <2> DEFINE v(g) == IF g \in opened \cap DOMAIN s /\ s[g] - ackedUpto[g] \in 0 .. FlowWindow
                     THEN s[g] ELSE ackedUpto[g]
  <2>2. \A g \in MuxId : v(g) \in Nat
    BY <2>1, StatusValue
  <2>3. ackedUpto' = [g \in MuxId |-> v(g)]
    BY <1>4 DEF RecvStatus
  <2> HIDE DEF v
  <2>4. QED
    BY <1>4, <2>2, <2>3 DEF RecvStatus
<1>5. ASSUME SendStatus PROVE CounterTypes'
  BY <1>5 DEF SendStatus
<1>6. ASSUME NEW a \in Acceptor, AcceptWakes(a) PROVE CounterTypes'
  BY <1>6 DEF AcceptWakes
<1>7. ASSUME NEW a \in Acceptor, AcceptTakes(a) PROVE CounterTypes'
  BY <1>7 DEF AcceptTakes
<1>8. ASSUME NEW f \in MuxId, ReadFromFlow(f) PROVE CounterTypes'
  BY <1>8 DEF ReadFromFlow
<1>9. ASSUME NEW f \in MuxId, CountRead(f) PROVE CounterTypes'
  BY <1>9 DEF CountRead
<1>10. ASSUME NEW f \in MuxId, TestCount(f) PROVE CounterTypes'
  BY <1>10 DEF TestCount
<1>11. ASSUME NEW f \in MuxId, PutStatus(f) PROVE CounterTypes'
  BY <1>11 DEF PutStatus
<1>12. ASSUME NEW f \in MuxId, ResetCount(f) PROVE CounterTypes'
  BY <1>12 DEF ResetCount
<1>13. ASSUME UNCHANGED muxVars PROVE CounterTypes'
  BY <1>13 DEF muxVars
<1>14. QED
  BY <1>1, <1>2, <1>3, <1>4, <1>5, <1>6, <1>7, <1>8, <1>9, <1>10, <1>11, <1>12, <1>13
     DEF MultiplexerNext, MultiplexerRun, ReaderStep

(***************************************************************************)
(* Types of the flows that exist and of the threads that accept.           *)
(***************************************************************************)
LEMMA AcceptTypesKept ==
  ASSUME MuxTypes, [MultiplexerNext]_muxVars
  PROVE  AcceptTypes'
<1> USE DEF MuxTypes, AcceptTypes, senderVars, acceptorVars, statusVars
<1>1. ASSUME OpenMuxFlow PROVE AcceptTypes'
  BY <1>1 DEF OpenMuxFlow
<1>2. ASSUME NEW f \in MuxId, SendOnFlow(f) PROVE AcceptTypes'
  BY <1>2 DEF SendOnFlow
<1>3. ASSUME NEW f \in MuxId, RecvOnFlow(f) PROVE AcceptTypes'
  BY <1>3 DEF RecvOnFlow
<1>4. ASSUME NEW s \in statuses, RecvStatus(s) PROVE AcceptTypes'
  BY <1>4 DEF RecvStatus
<1>5. ASSUME SendStatus PROVE AcceptTypes'
  BY <1>5 DEF SendStatus
<1>6. ASSUME NEW a \in Acceptor, AcceptWakes(a) PROVE AcceptTypes'
  BY <1>6 DEF AcceptWakes
<1>7. ASSUME NEW a \in Acceptor, AcceptTakes(a) PROVE AcceptTypes'
  BY <1>7 DEF AcceptTakes
<1>8. ASSUME NEW f \in MuxId, ReadFromFlow(f) PROVE AcceptTypes'
  BY <1>8 DEF ReadFromFlow
<1>9. ASSUME NEW f \in MuxId, CountRead(f) PROVE AcceptTypes'
  BY <1>9 DEF CountRead
<1>10. ASSUME NEW f \in MuxId, TestCount(f) PROVE AcceptTypes'
  BY <1>10 DEF TestCount
<1>11. ASSUME NEW f \in MuxId, PutStatus(f) PROVE AcceptTypes'
  BY <1>11 DEF PutStatus
<1>12. ASSUME NEW f \in MuxId, ResetCount(f) PROVE AcceptTypes'
  BY <1>12 DEF ResetCount
<1>13. ASSUME UNCHANGED muxVars PROVE AcceptTypes'
  BY <1>13 DEF muxVars
<1>14. QED
  BY <1>1, <1>2, <1>3, <1>4, <1>5, <1>6, <1>7, <1>8, <1>9, <1>10, <1>11, <1>12, <1>13
     DEF MultiplexerNext, MultiplexerRun, ReaderStep

(***************************************************************************)
(* Types of readers and statuses.                                          *)
(***************************************************************************)
LEMMA ReaderTypesKept ==
  ASSUME MuxTypes, [MultiplexerNext]_muxVars
  PROVE  ReaderTypes'
<1> USE DEF MuxTypes, ReaderTypes, senderVars, acceptorVars, statusVars
<1>1. ASSUME OpenMuxFlow PROVE ReaderTypes'
  BY <1>1 DEF OpenMuxFlow
<1>2. ASSUME NEW f \in MuxId, SendOnFlow(f) PROVE ReaderTypes'
  BY <1>2 DEF SendOnFlow
<1>3. ASSUME NEW f \in MuxId, RecvOnFlow(f) PROVE ReaderTypes'
  BY <1>3 DEF RecvOnFlow
<1>4. ASSUME NEW s \in statuses, RecvStatus(s) PROVE ReaderTypes'
  BY <1>4 DEF RecvStatus
<1>5. ASSUME SendStatus PROVE ReaderTypes'
  BY <1>5 DEF SendStatus
<1>6. ASSUME NEW a \in Acceptor, AcceptWakes(a) PROVE ReaderTypes'
  BY <1>6 DEF AcceptWakes
<1>7. ASSUME NEW a \in Acceptor, AcceptTakes(a) PROVE ReaderTypes'
  <2>1. PICK f \in pendingFlows : muxReader' = [muxReader EXCEPT ![f].pc = "reading"]
    BY <1>7 DEF AcceptTakes
  <2>2. f \in MuxId
    BY DEF AcceptTypes
  <2>3. [muxReader[f] EXCEPT !.pc = "reading"] \in [pc : ReaderPlace, status : Status \cup {NoStatus}]
    BY <2>2 DEF ReaderPlace
  <2>4. muxReader' \in [MuxId -> [pc : ReaderPlace, status : Status \cup {NoStatus}]]
    BY <2>1, <2>2, <2>3
  <2>5. QED
    BY <1>7, <2>4 DEF AcceptTakes
<1>8. ASSUME NEW f \in MuxId, ReadFromFlow(f) PROVE ReaderTypes'
  BY <1>8 DEF ReadFromFlow, ReaderAt, NextRead, ReaderPlace
<1>9. ASSUME NEW f \in MuxId, CountRead(f) PROVE ReaderTypes'
  BY <1>9 DEF CountRead, ReaderAt, NextRead, ReaderPlace
<1>10. ASSUME NEW f \in MuxId, TestCount(f) PROVE ReaderTypes'
  <2>1. ReceiverStatus(f) \in Status
    BY DEF ReceiverStatus, Status, CounterTypes, AcceptTypes
  <2>2. QED
    BY <1>10, <2>1 DEF TestCount, ReaderAt, NextRead, ReaderPlace
<1>11. ASSUME NEW f \in MuxId, PutStatus(f) PROVE ReaderTypes'
  BY <1>11 DEF PutStatus, ReaderAt, NextRead, ReaderPlace
<1>12. ASSUME NEW f \in MuxId, ResetCount(f) PROVE ReaderTypes'
  BY <1>12 DEF ResetCount, ReaderAt, NextRead, ReaderPlace
<1>13. ASSUME UNCHANGED muxVars PROVE ReaderTypes'
  BY <1>13 DEF muxVars
<1>14. QED
  BY <1>1, <1>2, <1>3, <1>4, <1>5, <1>6, <1>7, <1>8, <1>9, <1>10, <1>11, <1>12, <1>13
     DEF MultiplexerNext, MultiplexerRun, ReaderStep

(***************************************************************************)
(* The window of each flow: its sender is at most a window ahead of what it *)
(* knows to be read.                                                       *)
(***************************************************************************)
LEMMA CountersKept ==
  ASSUME MuxTypes, StatusesTruthful, CountersInv, [MultiplexerNext]_muxVars
  PROVE  CountersInv'
<1> USE DEF MuxTypes, CountersInv, senderVars, acceptorVars, statusVars
<1>1. ASSUME OpenMuxFlow PROVE CountersInv'
  BY <1>1 DEF OpenMuxFlow
<1>2. ASSUME NEW f \in MuxId, SendOnFlow(f) PROVE CountersInv'
  <2>1. ASSUME NEW g \in MuxId
        PROVE  sent'[g] = IF g = f THEN sent[g] + 1 ELSE sent[g]
    BY <1>2 DEF SendOnFlow, CounterTypes
  <2>2. UNCHANGED <<ackedUpto, delivered, readUpto>>
    BY <1>2 DEF SendOnFlow
  <2>3. sent[f] < FlowPackets /\ sent[f] - ackedUpto[f] < FlowWindow
    BY <1>2 DEF SendOnFlow
  <2>4. QED
    BY <2>1, <2>2, <2>3, MultiplexerAssumption DEF MultiplexerAssumption, CounterTypes
<1>3. ASSUME NEW f \in MuxId, RecvOnFlow(f) PROVE CountersInv'
  <2>1. ASSUME NEW g \in MuxId
        PROVE  delivered'[g] = IF g = f THEN delivered[g] + 1 ELSE delivered[g]
    BY <1>3 DEF RecvOnFlow, CounterTypes
  <2>2. UNCHANGED <<sent, ackedUpto, readUpto>>
    BY <1>3 DEF RecvOnFlow
  <2>3. delivered[f] < sent[f]
    BY <1>3 DEF RecvOnFlow
  <2>4. QED
    BY <2>1, <2>2, <2>3 DEF CounterTypes
<1>4. ASSUME NEW s \in statuses, RecvStatus(s) PROVE CountersInv'
  <2>1. ASSUME NEW f \in MuxId
        PROVE  /\ ackedUpto'[f] \in Nat /\ ackedUpto[f] <= ackedUpto'[f]
               /\ ackedUpto'[f] <= readUpto[f]
    <3>1. ackedUpto'[f] = IF f \in opened \cap DOMAIN s /\ s[f] - ackedUpto[f] \in 0 .. FlowWindow
                          THEN s[f] ELSE ackedUpto[f]
      BY <1>4 DEF RecvStatus
    <3>2. f \in DOMAIN s => s[f] \in Nat /\ s[f] <= readUpto[f]
      BY <1>4 DEF StatusesTruthful, Truthful
    <3>3. ackedUpto[f] \in Nat /\ ackedUpto[f] <= readUpto[f]
      BY DEF CounterTypes
    <3>4. QED
      BY <3>1, <3>2, <3>3, MultiplexerAssumption DEF MultiplexerAssumption
  <2>2. UNCHANGED <<sent, delivered, readUpto>>
    BY <1>4 DEF RecvStatus
  <2>3. QED
    BY <2>1, <2>2, MultiplexerAssumption DEF MultiplexerAssumption, CounterTypes
<1>5. ASSUME SendStatus PROVE CountersInv'
  BY <1>5 DEF SendStatus
<1>6. ASSUME NEW a \in Acceptor, AcceptWakes(a) PROVE CountersInv'
  BY <1>6 DEF AcceptWakes
<1>7. ASSUME NEW a \in Acceptor, AcceptTakes(a) PROVE CountersInv'
  BY <1>7 DEF AcceptTakes
<1>8. ASSUME NEW f \in MuxId, ReadFromFlow(f) PROVE CountersInv'
  <2>1. ASSUME NEW g \in MuxId
        PROVE  readUpto'[g] = IF g = f THEN readUpto[g] + 1 ELSE readUpto[g]
    BY <1>8 DEF ReadFromFlow, CounterTypes
  <2>2. UNCHANGED <<sent, ackedUpto, delivered>>
    BY <1>8 DEF ReadFromFlow
  <2>3. readUpto[f] < delivered[f]
    BY <1>8 DEF ReadFromFlow
  <2>4. QED
    BY <2>1, <2>2, <2>3 DEF CounterTypes
<1>9. ASSUME NEW f \in MuxId, CountRead(f) PROVE CountersInv'
  BY <1>9 DEF CountRead
<1>10. ASSUME NEW f \in MuxId, TestCount(f) PROVE CountersInv'
  BY <1>10 DEF TestCount
<1>11. ASSUME NEW f \in MuxId, PutStatus(f) PROVE CountersInv'
  BY <1>11 DEF PutStatus
<1>12. ASSUME NEW f \in MuxId, ResetCount(f) PROVE CountersInv'
  BY <1>12 DEF ResetCount
<1>13. ASSUME UNCHANGED muxVars PROVE CountersInv'
  BY <1>13 DEF muxVars
<1>14. QED
  BY <1>1, <1>2, <1>3, <1>4, <1>5, <1>6, <1>7, <1>8, <1>9, <1>10, <1>11, <1>12, <1>13
     DEF MultiplexerNext, MultiplexerRun, ReaderStep

(***************************************************************************)
(* Statuses on their way stay true, since what was read stays read.        *)
(***************************************************************************)
LEMMA StatusesKept ==
  ASSUME MuxTypes, StatusesTruthful, [MultiplexerNext]_muxVars
  PROVE  StatusesTruthful'
<1> USE DEF StatusesTruthful, Truthful, senderVars, acceptorVars, statusVars
<1>1. ASSUME OpenMuxFlow PROVE StatusesTruthful'
  BY <1>1 DEF OpenMuxFlow
<1>2. ASSUME NEW f \in MuxId, SendOnFlow(f) PROVE StatusesTruthful'
  BY <1>2 DEF SendOnFlow
<1>3. ASSUME NEW f \in MuxId, RecvOnFlow(f) PROVE StatusesTruthful'
  BY <1>3 DEF RecvOnFlow
<1>4. ASSUME NEW s \in statuses, RecvStatus(s) PROVE StatusesTruthful'
  BY <1>4 DEF RecvStatus
<1>5. ASSUME SendStatus PROVE StatusesTruthful'
  BY <1>5 DEF SendStatus
<1>6. ASSUME NEW a \in Acceptor, AcceptWakes(a) PROVE StatusesTruthful'
  BY <1>6 DEF AcceptWakes
<1>7. ASSUME NEW a \in Acceptor, AcceptTakes(a) PROVE StatusesTruthful'
  <2>1. UNCHANGED <<statuses, controlSlot, readUpto>>
    BY <1>7 DEF AcceptTakes
  <2>2. \A g \in MuxId : muxReader'[g].pc = "holding" => muxReader'[g] = muxReader[g]
    BY <1>7 DEF AcceptTakes, MuxTypes, ReaderTypes, AcceptTypes
  <2>3. QED
    BY <2>1, <2>2
<1>8. ASSUME NEW f \in MuxId, ReadFromFlow(f) PROVE StatusesTruthful'
  <2>1. \A g \in MuxId : readUpto[g] \in Nat /\ readUpto'[g] \in Nat /\ readUpto[g] <= readUpto'[g]
    BY <1>8 DEF ReadFromFlow, MuxTypes, CounterTypes
  <2>2. ASSUME NEW s, Truthful(s) PROVE Truthful(s)'
    BY <2>1, <2>2
  <2>3. UNCHANGED <<statuses, controlSlot>>
    BY <1>8 DEF ReadFromFlow
  <2>4. \A g \in MuxId : muxReader'[g].pc = "holding" => muxReader'[g] = muxReader[g]
    BY <1>8 DEF ReadFromFlow, ReaderAt, MuxTypes, ReaderTypes
  <2> HIDE DEF Truthful
  <2>5. QED
    BY <2>2, <2>3, <2>4
<1>9. ASSUME NEW f \in MuxId, CountRead(f) PROVE StatusesTruthful'
  BY <1>9 DEF CountRead, ReaderAt, NextRead
<1>10. ASSUME NEW f \in MuxId, TestCount(f) PROVE StatusesTruthful'
  <2>1. \A g \in MuxId \cap DOMAIN ReceiverStatus(f) :
            ReceiverStatus(f)[g] \in Nat /\ ReceiverStatus(f)[g] <= readUpto[g]
    BY DEF ReceiverStatus, MuxTypes, CounterTypes
  <2>2. QED
    BY <1>10, <2>1 DEF TestCount, ReaderAt, NextRead, MuxTypes, ReaderTypes
<1>11. ASSUME NEW f \in MuxId, PutStatus(f) PROVE StatusesTruthful'
  BY <1>11 DEF PutStatus, ReaderAt, NextRead
<1>12. ASSUME NEW f \in MuxId, ResetCount(f) PROVE StatusesTruthful'
  BY <1>12 DEF ResetCount, ReaderAt, NextRead
<1>13. ASSUME UNCHANGED muxVars PROVE StatusesTruthful'
  BY <1>13 DEF muxVars
<1>14. QED
  BY <1>1, <1>2, <1>3, <1>4, <1>5, <1>6, <1>7, <1>8, <1>9, <1>10, <1>11, <1>12, <1>13
     DEF MultiplexerNext, MultiplexerRun, ReaderStep

(***************************************************************************)
(* A flow is made once, accepted once and forgotten when it was read.      *)
(***************************************************************************)
LEMMA PlacesKept ==
  ASSUME MuxTypes, CountersInv, PlacesInv, [MultiplexerNext]_muxVars
  PROVE  PlacesInv'
<1> USE DEF MuxTypes, PlacesInv, senderVars, acceptorVars, statusVars
<1>1. ASSUME OpenMuxFlow PROVE PlacesInv'
  <2>1. UNCHANGED <<delivered, readUpto, children, pendingFlows, accepted, muxReader>>
    BY <1>1 DEF OpenMuxFlow
  <2>2. QED
    BY <2>1
<1>2. ASSUME NEW f \in MuxId, SendOnFlow(f) PROVE PlacesInv'
  <2>1. UNCHANGED <<delivered, readUpto, children, pendingFlows, accepted, muxReader>>
    BY <1>2 DEF SendOnFlow
  <2>2. QED
    BY <2>1
<1>3. ASSUME NEW f \in MuxId, RecvOnFlow(f) PROVE PlacesInv'
  <2>1. ASSUME NEW g \in MuxId PROVE delivered'[g] = IF g = f THEN delivered[g] + 1 ELSE delivered[g]
    BY <1>3 DEF RecvOnFlow, CounterTypes
  <2>2. UNCHANGED <<readUpto, accepted, muxReader>>
    BY <1>3 DEF RecvOnFlow
  <2>3. delivered[f] < FlowPackets /\ readUpto[f] < FlowPackets
    <3>1. delivered[f] < sent[f]
      BY <1>3 DEF RecvOnFlow
    <3>2. QED
      BY <3>1, MultiplexerAssumption DEF MultiplexerAssumption, CountersInv, CounterTypes
  <2>4. \A g \in MuxId : delivered[g] \in Nat
    BY DEF CounterTypes
  <2>5. CASE f \in children
    <3>1. UNCHANGED <<children, pendingFlows>>
      BY <1>3, <2>5 DEF RecvOnFlow
    <3>2. QED
      BY <2>1, <2>2, <2>4, <2>5, <3>1
  <2>6. CASE f \notin children
    <3>1. children' = children \cup {f} /\ pendingFlows' = pendingFlows \cup {f}
      BY <1>3, <2>6 DEF RecvOnFlow
    <3>2. delivered[f] = 0
      BY <2>3, <2>4, <2>6
    <3>3. QED
      BY <2>1, <2>2, <2>3, <2>4, <3>1, <3>2
  <2>7. QED
    BY <2>5, <2>6
<1>4. ASSUME NEW s \in statuses, RecvStatus(s) PROVE PlacesInv'
  <2>1. UNCHANGED <<delivered, readUpto, children, pendingFlows, accepted, muxReader>>
    BY <1>4 DEF RecvStatus
  <2>2. QED
    BY <2>1
<1>5. ASSUME SendStatus PROVE PlacesInv'
  <2>1. UNCHANGED <<delivered, readUpto, children, pendingFlows, accepted, muxReader>>
    BY <1>5 DEF SendStatus
  <2>2. QED
    BY <2>1
<1>6. ASSUME NEW a \in Acceptor, AcceptWakes(a) PROVE PlacesInv'
  <2>1. UNCHANGED <<delivered, readUpto, children, pendingFlows, accepted, muxReader>>
    BY <1>6 DEF AcceptWakes
  <2>2. QED
    BY <2>1
<1>7. ASSUME NEW a \in Acceptor, AcceptTakes(a) PROVE PlacesInv'
  <2>1. PICK f \in pendingFlows :
          /\ pendingFlows' = pendingFlows \ {f} /\ accepted' = [accepted EXCEPT ![f] = accepted[f] + 1]
          /\ muxReader' = [muxReader EXCEPT ![f].pc = "reading"]
    BY <1>7 DEF AcceptTakes
  <2>2. f \in MuxId
    BY DEF AcceptTypes
  <2>3. UNCHANGED <<delivered, readUpto, children>>
    BY <1>7 DEF AcceptTakes
  <2>4. ASSUME NEW g \in MuxId
        PROVE  /\ accepted'[g] = IF g = f THEN accepted[g] + 1 ELSE accepted[g]
               /\ g # f => muxReader'[g] = muxReader[g]
    BY <2>1, <2>2 DEF AcceptTypes, ReaderTypes
  <2>5. f \in children /\ delivered[f] > 0 /\ accepted[f] = 0 /\ delivered[f] # 0
    BY <2>2 DEF CounterTypes
  <2>6. QED
    BY <2>1, <2>2, <2>3, <2>4, <2>5
<1>8. ASSUME NEW f \in MuxId, ReadFromFlow(f) PROVE PlacesInv'
  <2>1. \A g \in MuxId : /\ muxReader'[g].pc = "none" => muxReader[g].pc = "none"
                        /\ muxReader[g].pc = "none" => muxReader'[g].pc = "none"
    BY <1>8 DEF ReadFromFlow, ReaderAt, NextRead, ReaderTypes
  <2>2. UNCHANGED <<delivered, pendingFlows, accepted>>
    BY <1>8 DEF ReadFromFlow
  <2>3. ASSUME NEW g \in MuxId PROVE readUpto'[g] = IF g = f THEN readUpto[g] + 1 ELSE readUpto[g]
    BY <1>8 DEF ReadFromFlow, CounterTypes
  <2>4. children' = IF readUpto'[f] = FlowPackets THEN children \ {f} ELSE children
    BY <1>8 DEF ReadFromFlow
  <2>5. f \notin pendingFlows /\ readUpto[f] < delivered[f] /\ delivered[f] <= FlowPackets
    <3>1. muxReader[f].pc = "reading" /\ readUpto[f] < delivered[f]
      BY <1>8 DEF ReadFromFlow
    <3>2. delivered[f] <= FlowPackets
      BY MultiplexerAssumption DEF MultiplexerAssumption, CountersInv, CounterTypes
    <3>3. QED
      BY <3>1, <3>2
  <2>6. delivered[f] \in Nat /\ readUpto[f] \in Nat /\ FlowPackets \in Nat
    BY MultiplexerAssumption DEF MultiplexerAssumption, CounterTypes
  <2>7. f \in children' <=> delivered'[f] > 0 /\ readUpto'[f] < FlowPackets
    BY <2>2, <2>3, <2>4, <2>5, <2>6
  <2>8. \A g \in MuxId : g # f => (g \in children' <=> g \in children)
    BY <2>4
  <2>9. QED
    BY <2>1, <2>2, <2>3, <2>5, <2>7, <2>8
<1>9. ASSUME NEW f \in MuxId, CountRead(f) PROVE PlacesInv'
  <2>1. \A g \in MuxId : /\ muxReader'[g].pc = "none" => muxReader[g].pc = "none"
                        /\ muxReader[g].pc = "none" => muxReader'[g].pc = "none"
    BY <1>9 DEF CountRead, ReaderAt, NextRead, ReaderTypes
  <2>2. UNCHANGED <<delivered, readUpto, children, pendingFlows, accepted>>
    BY <1>9 DEF CountRead
  <2>3. QED
    BY <2>1, <2>2
<1>10. ASSUME NEW f \in MuxId, TestCount(f) PROVE PlacesInv'
  <2>1. \A g \in MuxId : /\ muxReader'[g].pc = "none" => muxReader[g].pc = "none"
                        /\ muxReader[g].pc = "none" => muxReader'[g].pc = "none"
    BY <1>10 DEF TestCount, ReaderAt, NextRead, ReaderTypes
  <2>2. UNCHANGED <<delivered, readUpto, children, pendingFlows, accepted>>
    BY <1>10 DEF TestCount
  <2>3. QED
    BY <2>1, <2>2
<1>11. ASSUME NEW f \in MuxId, PutStatus(f) PROVE PlacesInv'
  <2>1. \A g \in MuxId : /\ muxReader'[g].pc = "none" => muxReader[g].pc = "none"
                        /\ muxReader[g].pc = "none" => muxReader'[g].pc = "none"
    BY <1>11 DEF PutStatus, ReaderAt, NextRead, ReaderTypes
  <2>2. UNCHANGED <<delivered, readUpto, children, pendingFlows, accepted>>
    BY <1>11 DEF PutStatus
  <2>3. QED
    BY <2>1, <2>2
<1>12. ASSUME NEW f \in MuxId, ResetCount(f) PROVE PlacesInv'
  <2>1. \A g \in MuxId : /\ muxReader'[g].pc = "none" => muxReader[g].pc = "none"
                        /\ muxReader[g].pc = "none" => muxReader'[g].pc = "none"
    BY <1>12 DEF ResetCount, ReaderAt, NextRead, ReaderTypes
  <2>2. UNCHANGED <<delivered, readUpto, children, pendingFlows, accepted>>
    BY <1>12 DEF ResetCount
  <2>3. QED
    BY <2>1, <2>2
<1>13. ASSUME UNCHANGED muxVars PROVE PlacesInv'
  BY <1>13 DEF muxVars
<1>14. QED
  BY <1>1, <1>2, <1>3, <1>4, <1>5, <1>6, <1>7, <1>8, <1>9, <1>10, <1>11, <1>12, <1>13
     DEF MultiplexerNext, MultiplexerRun, ReaderStep

(***************************************************************************)
(* There are finitely many flows and threads, so wake-ups can be counted.  *)
(***************************************************************************)
LEMMA Finite ==
  ASSUME AcceptTypes
  PROVE  /\ IsFiniteSet(pendingFlows) /\ Cardinality(pendingFlows) \in Nat
         /\ IsFiniteSet(WokenAcceptors) /\ Cardinality(WokenAcceptors) \in Nat
<1>1. IsFiniteSet(MuxId)
  <2>1. 0 \in Int /\ FlowIdCnt - 1 \in Int
    BY MultiplexerAssumption DEF MultiplexerAssumption
  <2>2. QED
    BY <2>1, FS_Interval DEF MuxId
<1>2. IsFiniteSet(pendingFlows)
  BY <1>1, FS_Subset DEF AcceptTypes
<1>3. IsFiniteSet(WokenAcceptors)
  BY MultiplexerAssumption, FS_Subset DEF MultiplexerAssumption, WokenAcceptors
<1>4. QED
  BY <1>2, <1>3, FS_CardinalityType

(***************************************************************************)
(* acceptFlow is woken once for each flow that is pending.                 *)
(***************************************************************************)
LEMMA WakeUpsKept ==
  ASSUME MuxTypes, PlacesInv, WakeUpsInv, [MultiplexerNext]_muxVars
  PROVE  WakeUpsInv'
<1> USE DEF MuxTypes, WakeUpsInv, WokenAcceptors, senderVars, acceptorVars, statusVars
<1>1. ASSUME OpenMuxFlow PROVE WakeUpsInv'
  <2>1. UNCHANGED <<pendingFlows, acceptSem, acceptor>>
    BY <1>1 DEF OpenMuxFlow
  <2>2. QED
    BY <2>1
<1>2. ASSUME NEW f \in MuxId, SendOnFlow(f) PROVE WakeUpsInv'
  <2>1. UNCHANGED <<pendingFlows, acceptSem, acceptor>>
    BY <1>2 DEF SendOnFlow
  <2>2. QED
    BY <2>1
<1>3. ASSUME NEW f \in MuxId, RecvOnFlow(f) PROVE WakeUpsInv'
  <2>1. acceptor' = acceptor
    BY <1>3 DEF RecvOnFlow
  <2>2. CASE f \in children
    BY <1>3, <2>1, <2>2 DEF RecvOnFlow
  <2>3. CASE f \notin children
    <3>1. pendingFlows' = pendingFlows \cup {f} /\ acceptSem' = acceptSem + 1
      BY <1>3, <2>3 DEF RecvOnFlow
    <3>2. f \notin pendingFlows
      BY <2>3 DEF PlacesInv
    <3>3. Cardinality(pendingFlows') = Cardinality(pendingFlows) + 1
      BY <3>1, <3>2, Finite, FS_AddElement
    <3>4. QED
      BY <2>1, <3>1, <3>3, Finite DEF AcceptTypes
  <2>4. QED
    BY <2>2, <2>3
<1>4. ASSUME NEW s \in statuses, RecvStatus(s) PROVE WakeUpsInv'
  <2>1. UNCHANGED <<pendingFlows, acceptSem, acceptor>>
    BY <1>4 DEF RecvStatus
  <2>2. QED
    BY <2>1
<1>5. ASSUME SendStatus PROVE WakeUpsInv'
  <2>1. UNCHANGED <<pendingFlows, acceptSem, acceptor>>
    BY <1>5 DEF SendStatus
  <2>2. QED
    BY <2>1
<1>6. ASSUME NEW a \in Acceptor, AcceptWakes(a) PROVE WakeUpsInv'
  <2>1. /\ acceptor[a] = "idle" /\ acceptSem > 0 /\ acceptSem' = acceptSem - 1
        /\ acceptor' = [acceptor EXCEPT ![a] = "woken"] /\ pendingFlows' = pendingFlows
    BY <1>6 DEF AcceptWakes
  <2>2. WokenAcceptors' = WokenAcceptors \cup {a} /\ a \notin WokenAcceptors
    BY <2>1 DEF AcceptTypes, WokenAcceptors
  <2>3. Cardinality(WokenAcceptors') = Cardinality(WokenAcceptors) + 1
    BY <2>2, Finite, FS_AddElement
  <2> HIDE DEF WokenAcceptors
  <2>4. QED
    BY <2>1, <2>3, Finite DEF AcceptTypes
<1>7. ASSUME NEW a \in Acceptor, AcceptTakes(a) PROVE WakeUpsInv'
  <2>1. PICK f \in pendingFlows : pendingFlows' = pendingFlows \ {f}
    BY <1>7 DEF AcceptTakes
  <2>2. /\ acceptor[a] = "woken" /\ acceptSem' = acceptSem
        /\ acceptor' = [acceptor EXCEPT ![a] = "idle"]
    BY <1>7 DEF AcceptTakes
  <2>3. WokenAcceptors' = WokenAcceptors \ {a} /\ a \in WokenAcceptors
    BY <2>2 DEF AcceptTypes, WokenAcceptors
  <2>4. Cardinality(WokenAcceptors') = Cardinality(WokenAcceptors) - 1
    BY <2>3, Finite, FS_RemoveElement
  <2>5. Cardinality(pendingFlows') = Cardinality(pendingFlows) - 1
    BY <2>1, Finite, FS_RemoveElement
  <2> HIDE DEF WokenAcceptors
  <2>6. QED
    BY <2>2, <2>4, <2>5, Finite DEF AcceptTypes
<1>8. ASSUME NEW f \in MuxId, ReadFromFlow(f) PROVE WakeUpsInv'
  <2>1. UNCHANGED <<pendingFlows, acceptSem, acceptor>>
    BY <1>8 DEF ReadFromFlow
  <2>2. QED
    BY <2>1
<1>9. ASSUME NEW f \in MuxId, CountRead(f) PROVE WakeUpsInv'
  <2>1. UNCHANGED <<pendingFlows, acceptSem, acceptor>>
    BY <1>9 DEF CountRead
  <2>2. QED
    BY <2>1
<1>10. ASSUME NEW f \in MuxId, TestCount(f) PROVE WakeUpsInv'
  <2>1. UNCHANGED <<pendingFlows, acceptSem, acceptor>>
    BY <1>10 DEF TestCount
  <2>2. QED
    BY <2>1
<1>11. ASSUME NEW f \in MuxId, PutStatus(f) PROVE WakeUpsInv'
  <2>1. UNCHANGED <<pendingFlows, acceptSem, acceptor>>
    BY <1>11 DEF PutStatus
  <2>2. QED
    BY <2>1
<1>12. ASSUME NEW f \in MuxId, ResetCount(f) PROVE WakeUpsInv'
  <2>1. UNCHANGED <<pendingFlows, acceptSem, acceptor>>
    BY <1>12 DEF ResetCount
  <2>2. QED
    BY <2>1
<1>13. ASSUME UNCHANGED muxVars PROVE WakeUpsInv'
  BY <1>13 DEF muxVars
<1>14. QED
  BY <1>1, <1>2, <1>3, <1>4, <1>5, <1>6, <1>7, <1>8, <1>9, <1>10, <1>11, <1>12, <1>13
     DEF MultiplexerNext, MultiplexerRun, ReaderStep

(***************************************************************************)
(* The invariant, and what it means for callers of acceptFlow and for senders. *)
(***************************************************************************)
THEOREM MuxInvariant == MultiplexerSpec => []MuxInv
<1>1. MuxInv /\ [MultiplexerNext]_muxVars => MuxInv'
  <2> SUFFICES ASSUME MuxInv, [MultiplexerNext]_muxVars PROVE MuxInv'
    OBVIOUS
  <2>1. MuxTypes'
    BY CounterTypesKept, AcceptTypesKept, ReaderTypesKept DEF MuxInv, MuxTypes
  <2>2. StatusesTruthful' /\ CountersInv'
    BY StatusesKept, CountersKept DEF MuxInv
  <2>3. PlacesInv' /\ WakeUpsInv'
    BY PlacesKept, WakeUpsKept DEF MuxInv
  <2>4. QED
    BY <2>1, <2>2, <2>3 DEF MuxInv
<1>2. QED
  BY MuxInitInv, <1>1, PTL DEF MultiplexerSpec

\* Flows do not get into each other's way: acceptFlow is woken once for each flow and
\* hands each out once, and no sender gets more than a window ahead of its reader, also
\* when the statuses of readers overtake each other.
THEOREM FlowsStayApart == MultiplexerSpec => []FlowsApart
<1>1. MuxInv => FlowsApart
  <2> SUFFICES ASSUME MuxInv PROVE FlowsApart
    OBVIOUS
  <2>1. Cardinality(pendingFlows) = acceptSem + Cardinality({a \in Acceptor : acceptor[a] = "woken"})
    BY DEF MuxInv, WakeUpsInv, WokenAcceptors
  <2>2. pendingFlows \subseteq children
    BY DEF MuxInv, MuxTypes, AcceptTypes, PlacesInv
  <2>3. \A f \in MuxId : accepted[f] = IF f \in pendingFlows \/ delivered[f] = 0 THEN 0 ELSE 1
    BY DEF MuxInv, PlacesInv
  <2>4. \A f \in MuxId : sent[f] - readUpto[f] <= FlowWindow
    BY MultiplexerAssumption DEF MultiplexerAssumption, MuxInv, MuxTypes, CounterTypes, CountersInv
  <2>5. QED
    BY <2>1, <2>2, <2>3, <2>4 DEF FlowsApart
<1>2. QED
  BY MuxInvariant, <1>1, PTL

\* pendingFlows.begin() in acceptFlow is an element: whoever was woken finds a flow, and
\* it is in the map of flows (APP_ASSERT(child)).
WokenFindsFlow == \A a \in Acceptor : acceptor[a] = "woken" => pendingFlows # {} /\ pendingFlows \subseteq children

\* acceptFlow finds a flow when it was woken, however many threads accept.
THEOREM AcceptFindsFlow == MultiplexerSpec => []WokenFindsFlow
<1>1. MuxInv => WokenFindsFlow
  <2> SUFFICES ASSUME MuxInv, NEW a \in Acceptor, acceptor[a] = "woken"
               PROVE  pendingFlows # {} /\ pendingFlows \subseteq children
    BY DEF WokenFindsFlow
  <2> USE DEF MuxInv, MuxTypes
  <2>1. a \in WokenAcceptors
    BY DEF WokenAcceptors
  <2>2. Cardinality(WokenAcceptors) # 0
    BY <2>1, Finite, FS_EmptySet
  <2>3. Cardinality(pendingFlows) # 0
    BY <2>2, Finite DEF WakeUpsInv, AcceptTypes
  <2>4. pendingFlows # {}
    BY <2>3, FS_EmptySet
  <2>5. QED
    BY <2>4 DEF AcceptTypes, PlacesInv
<1>2. QED
  BY MuxInvariant, <1>1, PTL

-----------------------------------------------------------------------------
\* The parts side by side (MCParts).

\* A behaviour about one of the parts.
PartsSpec == PartsInit /\ [][PartsNext]_partsVars

\* Every part begins as it does alone.
LEMMA PartsBegin ==
  PartsInit => /\ Init /\ FramesInit /\ PoolInit /\ RecvInit /\ FreeThreadsInit /\ RingInit
               /\ CounterInit /\ QueueInit /\ PacketPoolInit
  BY DEF PartsInit

\* A step of the parts is one of a part's own or leaves that part alone.
LEMMA PartsMove ==
  ASSUME [PartsNext]_partsVars
  PROVE  /\ [Next]_vars /\ [FramesNext]_framesVars /\ [PoolNext]_poolVars /\ [RecvNext]_recvVars
         /\ [FreeThreadsNext]_ftVars /\ [RingNext]_ringVars /\ [CounterNext]_counterVars
         /\ [QueueNext]_qVars /\ [PacketPoolNext]_packetVars
<1>1. CASE UNCHANGED partsVars
  BY <1>1 DEF partsVars
<1>2. CASE PartsNext
  BY <1>2 DEF PartsNext, Only
<1>3. QED
  BY <1>1, <1>2

\* The threads that send frames never share a buffer, and a frame that leaves has the
\* address, the length and the socket of its own datagram, however they interleave
\* (FramesSound; the frame sender of the interfaces).
THEOREM PartsFramesSound == ASSUME FrameFaults = {} PROVE PartsSpec => []FramesSound
<1>1. FramesInit /\ [][FramesNext]_framesVars => []FramesSound
  BY FramesAreSound
<1>2. QED
  BY <1>1, PartsBegin, PartsMove, PTL DEF PartsSpec

\* No job is lost, called twice or handed the data of another, by either pool of
\* threads, with any number of threads, callers and jobs (JobsSound).
THEOREM PartsJobsSound == PartsSpec => []JobsSound
<1>1. PoolInit /\ [][PoolNext]_poolVars => []JobsCalledOnce
  BY JobsAreCalledOnce DEF PoolSpec
<1>2. FreeThreadsInit /\ [][FreeThreadsNext]_ftVars => []JobsNotMixed
  BY JobsStayApart DEF FreeThreadsSpec
<1>3. JobsCalledOnce /\ JobsNotMixed => JobsSound
  BY DEF JobsSound
<1>4. QED
  BY <1>1, <1>2, <1>3, PartsBegin, PartsMove, PTL DEF PartsSpec

\* The receiver hands every datagram to one thread and every packet to the observers
\* it was told of, whatever order its threads run in (ReceiverSound).
THEOREM PartsReceiverSound == ASSUME RecvFaults = {} PROVE PartsSpec => []ReceiverSound
<1>1. RecvInit /\ [][RecvNext]_recvVars => []ReceiverSound
  BY ReceiverStaysSound DEF RecvSpec
<1>2. QED
  BY <1>1, PartsBegin, PartsMove, PTL DEF PartsSpec

\* No packet and no optional header has two owners, and the pools know how many are
\* out, whatever the threads do (PacketsApart).
THEOREM PartsPacketsApart == PartsSpec => []PacketsApart
<1>1. PacketPoolInit /\ [][PacketPoolNext]_packetVars => []PacketsApart
  BY PacketsStayApart DEF PacketPoolSpec
<1>2. QED
  BY <1>1, PartsBegin, PartsMove, PTL DEF PartsSpec

\* What comes out of a CircularBuffer or an AppLLQueue is what went in, in order, and
\* whoever waits on a ToZeroCounter comes back after it was zero (WaitsSound).
THEOREM PartsWaitsSound ==
  ASSUME "overlap" \notin RingFaults, "steal" \notin CounterFaults
  PROVE  PartsSpec => []WaitsSound
<1>1. RingInit /\ [][RingNext]_ringVars => []BytesInOrder
  BY BytesStayInOrder DEF RingSpec
<1>2. CounterInit /\ [][CounterNext]_counterVars => []ZeroWasSeen
  BY ZeroIsSeen DEF CounterSpec
<1>3. QueueInit /\ [][QueueNext]_qVars => []QueueInOrder
  BY QueueStaysInOrder DEF QueueSpec
<1>4. BytesInOrder /\ ZeroWasSeen /\ QueueInOrder => WaitsSound
  BY DEF WaitsSound
<1>5. QED
  BY <1>1, <1>2, <1>3, <1>4, PartsBegin, PartsMove, PTL DEF PartsSpec

\* A channel has its sender for as long as it exists, and while nothing changes the
\* channels are exactly those of the interfaces that are up (InterfacesSound).
THEOREM PartsInterfacesSound ==
  ASSUME FaultKinds \cap {"arpLate", "busy", "duringHandshake"} = {}
  PROVE  PartsSpec => []InterfacesSound
<1>1. Init /\ [][Next]_vars => []ChannelsHaveSender
  BY ChannelsServed DEF Spec
<1>2. Init /\ [][Next]_vars => []ChannelsMatchInterfaces
  BY MultiHomedAssumption, ChannelsMatch DEF Spec
<1>3. ChannelsHaveSender /\ ChannelsMatchInterfaces => InterfacesSound
  BY DEF InterfacesSound
<1>4. QED
  BY <1>1, <1>2, <1>3, PartsBegin, PartsMove, PTL DEF PartsSpec

\* The inputs of the search are tables and senders as the lemmas have them.
LEMMA RoutingInputsTyped ==
  ASSUME NEW i \in RoutingInputs
  PROVE  i.table \in Seq(Route(IfaceNames)) /\ i.iface \in Ifaces(IfaceNames)
<1>1. Entries \subseteq Route(IfaceNames)
  BY DEF Entries, Route
<1>2. Tables \subseteq Seq(Route(IfaceNames))
  <2>1. ASSUME NEW n \in 0 .. 3, NEW t \in [1 .. n -> Entries] PROVE t \in Seq(Route(IfaceNames))
    <3>1. n \in Nat /\ t \in [1 .. n -> Route(IfaceNames)]
      BY <1>1
    <3>2. QED
      BY <3>1, SeqDef
  <2>2. QED
    BY <2>1 DEF Tables
<1>3. {<<"eth0", "wlan0">>, <<"wlan0", Null>>, <<Null, Null>>} \subseteq Ifaces(IfaceNames)
  BY DEF Ifaces, IfaceNames
<1>4. QED
  BY <1>2, <1>3 DEF RoutingInputs

\* getSuitableInterfaceId takes the interface of a longest matching prefix, for every
\* table and address of the run, as PrefixFollowed says of any (RoutesFollowed).
THEOREM PartsRoutesFollowed == PartsSpec => []RoutesFollowed
<1> DEFINE Given == part = "routing" => input \in RoutingInputs
<1>1. PartsInit => Given
  BY DEF PartsInit, Inputs
<1>2. Given /\ [PartsNext]_partsVars => Given'
  <2> SUFFICES ASSUME Given, [PartsNext]_partsVars PROVE Given'
    OBVIOUS
  <2>1. part' = part /\ input' = input
    BY DEF PartsNext, Only, partsVars
  <2>2. QED
    BY <2>1
<1>3. Given => RoutesFollowed
  <2> SUFFICES ASSUME Given, part = "routing"
               PROVE  /\ \A ip \in {0, 4, 5, 6, 7} : LongestPrefix(input.table, input.iface, ip)
                      /\ GatewaysAgree(input.table)
    BY DEF RoutesFollowed
  <2>1. input.table \in Seq(Route(IfaceNames)) /\ input.iface \in Ifaces(IfaceNames)
    BY RoutingInputsTyped
  <2>2. QED
    BY <2>1, IfaceNamesAssumption, PrefixFollowed, GatewaysFollowed
<1>4. QED
  BY <1>1, <1>2, <1>3, PTL DEF PartsSpec
\* The packets and the datagrams of the run are packets and datagrams.
LEMMA WireInputsTyped ==
  /\ \A p \in Packets : p \in Packet
  /\ \A x \in ChecksumInputs : /\ x.ip \in [src : Nat, dst : Nat]
                               /\ x.udp \in [source : Nat, dest : Nat, len : Nat]
                               /\ x.payload \in Seq(Nat)
<1>1. PICK b \in Nat : b = ByteCnt /\ b >= 16
  <2>1. PICK n \in Nat : n = Nibble /\ n >= 4
    BY FieldsFitAssumption, WireAssumption
  <2>2. n * n >= 4 * n /\ n * n \in Nat
    BY <2>1
  <2>3. QED
    BY <2>1, <2>2 DEF ByteCnt
<1>2. ASSUME NEW k \in Nat \ {0} PROVE Weight[k] >= 16 * Weight[k - 1] /\ Weight[k - 1] \in Nat /\ Weight[k] \in Nat
  <2>1. PICK w \in Nat : w = Weight[k - 1]
    BY Weights
  <2>2. Weight[k] = b * w
    BY <1>1, <2>1, Weights
  <2>3. b * w >= 16 * w /\ b * w \in Nat
    BY <1>1
  <2>4. QED
    BY <2>1, <2>2, <2>3
<1>3. Weight[0] = 1
  BY Weights
<1>4. /\ Weight[1] >= 16 * Weight[0] /\ Weight[1] \in Nat /\ Weight[2] >= 16 * Weight[1] /\ Weight[2] \in Nat
      /\ Weight[3] >= 16 * Weight[2] /\ Weight[3] \in Nat /\ Weight[4] >= 16 * Weight[3] /\ Weight[4] \in Nat
      /\ Weight[5] >= 16 * Weight[4] /\ Weight[5] \in Nat /\ Weight[6] >= 16 * Weight[5] /\ Weight[6] \in Nat
      /\ Weight[7] >= 16 * Weight[6] /\ Weight[7] \in Nat /\ Weight[8] >= 16 * Weight[7] /\ Weight[8] \in Nat
  <2>1. /\ 1 - 1 = 0 /\ 2 - 1 = 1 /\ 3 - 1 = 2 /\ 4 - 1 = 3 /\ 5 - 1 = 4 /\ 6 - 1 = 5 /\ 7 - 1 = 6 /\ 8 - 1 = 7
        /\ 1 \in Nat \ {0} /\ 2 \in Nat \ {0} /\ 3 \in Nat \ {0} /\ 4 \in Nat \ {0}
        /\ 5 \in Nat \ {0} /\ 6 \in Nat \ {0} /\ 7 \in Nat \ {0} /\ 8 \in Nat \ {0}
    OBVIOUS
  <2>2. Weight[1] >= 16 * Weight[1 - 1] /\ Weight[2] >= 16 * Weight[2 - 1] /\ Weight[3] >= 16 * Weight[3 - 1]
        /\ Weight[4] >= 16 * Weight[4 - 1] /\ Weight[5] >= 16 * Weight[5 - 1] /\ Weight[6] >= 16 * Weight[6 - 1]
        /\ Weight[7] >= 16 * Weight[7 - 1] /\ Weight[8] >= 16 * Weight[8 - 1]
    BY <1>2, <2>1
  <2>3. /\ Weight[1] \in Nat /\ Weight[2] \in Nat /\ Weight[3] \in Nat /\ Weight[4] \in Nat
        /\ Weight[5] \in Nat /\ Weight[6] \in Nat /\ Weight[7] \in Nat /\ Weight[8] \in Nat
    BY <1>2, <2>1
  <2>4. QED
    BY <2>1, <2>2, <2>3
<1>5. Weight[1] >= 16 /\ Weight[2] >= 256 /\ Weight[4] >= 65536 /\ Weight[8] >= 1048576
  BY <1>3, <1>4
<1>6. \A n \in 0 .. 15 : n \in Field(1)
  BY <1>4, <1>5 DEF Field
<1>7. \A n \in 0 .. 255 : n \in Field(2)
  BY <1>4, <1>5 DEF Field
<1>8. 4711 \in Field(4)
  BY <1>4, <1>5 DEF Field
<1>9. 815 \in Field(8) /\ 123456 \in Field(8)
  BY <1>4, <1>5 DEF Field
<1>10. \A o \in Options : o \in OptionalHeader
  <2>1. [type |-> "ACK", info |-> <<17, 200>>] \in OptionalHeader
    <3>1. PICK f : f = <<17, 200>>
      OBVIOUS
    <3>2. f \in [1 .. 2 -> Nat] /\ f[1] = 17 /\ f[2] = 200
      BY <3>1
    <3>3. Len(Widths["ACK"]) = 2 /\ Widths["ACK"][1] = 2 /\ Widths["ACK"][2] = 2
      BY HeaderTables
    <3>4. f[1] \in Field(2) /\ f[2] \in Field(2)
      BY <1>7, <3>2
    <3>5. \A i \in 1 .. 2 : f[i] \in Field(Widths["ACK"][i])
      <4>1. \A i \in 1 .. 2 : i = 1 \/ i = 2
        OBVIOUS
      <4>2. QED
        BY <3>3, <3>4, <4>1
    <3>6. f \in FieldsOf("ACK")
      BY <3>2, <3>3, <3>5 DEF FieldsOf
    <3>7. QED
      BY <3>1, <3>6 DEF OptionalHeader
  <2>2. [type |-> "IP", info |-> <<2, 3, 4711>>] \in OptionalHeader
    <3>0. PICK l \in Nat : l = 4711
      OBVIOUS
    <3>1. PICK f : f = <<2, 3, l>>
      OBVIOUS
    <3>2. f \in [1 .. 3 -> Nat] /\ f[1] = 2 /\ f[2] = 3 /\ f[3] = l
      BY <3>1
    <3>3. Len(Widths["IP"]) = 3 /\ Widths["IP"][1] = 1 /\ Widths["IP"][2] = 1 /\ Widths["IP"][3] = 4
      BY HeaderTables
    <3>4. f[1] \in Field(1) /\ f[2] \in Field(1) /\ f[3] \in Field(4)
      BY <1>6, <1>8, <3>0, <3>2
    <3>5. \A i \in 1 .. 3 : f[i] \in Field(Widths["IP"][i])
      <4>1. \A i \in 1 .. 3 : i = 1 \/ i = 2 \/ i = 3
        OBVIOUS
      <4>2. QED
        BY <3>3, <3>4, <4>1
    <3>6. f \in FieldsOf("IP")
      BY <3>2, <3>3, <3>5 DEF FieldsOf
    <3>7. QED
      BY <3>0, <3>1, <3>6 DEF OptionalHeader
  <2>3. [type |-> "NONCE", info |-> <<815>>] \in OptionalHeader
    <3>1. PICK f : f = <<815>>
      OBVIOUS
    <3>2. f \in [1 .. 1 -> Nat] /\ f[1] = 815
      BY <3>1
    <3>3. Len(Widths["NONCE"]) = 1 /\ Widths["NONCE"][1] = 8
      BY HeaderTables
    <3>4. f[1] \in Field(8)
      BY <1>9, <3>2
    <3>5. \A i \in 1 .. 1 : f[i] \in Field(Widths["NONCE"][i])
      <4>1. \A i \in 1 .. 1 : i = 1
        OBVIOUS
      <4>2. QED
        BY <3>3, <3>4, <4>1
    <3>6. f \in FieldsOf("NONCE")
      BY <3>2, <3>3, <3>5 DEF FieldsOf
    <3>7. QED
      BY <3>1, <3>6 DEF OptionalHeader
  <2>4. [type |-> "CHANGE", info |-> <<9, 4>>] \in OptionalHeader
    <3>1. PICK f : f = <<9, 4>>
      OBVIOUS
    <3>2. f \in [1 .. 2 -> Nat] /\ f[1] = 9 /\ f[2] = 4
      BY <3>1
    <3>3. Len(Widths["CHANGE"]) = 2 /\ Widths["CHANGE"][1] = 1 /\ Widths["CHANGE"][2] = 1
      BY HeaderTables
    <3>4. f[1] \in Field(1) /\ f[2] \in Field(1)
      BY <1>6, <3>2
    <3>5. \A i \in 1 .. 2 : f[i] \in Field(Widths["CHANGE"][i])
      <4>1. \A i \in 1 .. 2 : i = 1 \/ i = 2
        OBVIOUS
      <4>2. QED
        BY <3>3, <3>4, <4>1
    <3>6. f \in FieldsOf("CHANGE")
      BY <3>2, <3>3, <3>5 DEF FieldsOf
    <3>7. QED
      BY <3>1, <3>6 DEF OptionalHeader
  <2>5. [type |-> "READ", info |-> <<<<1, 2>>, <<3, 40>>>>] \in OptionalHeader
    <3>1. PICK S : S = Field(2) \X Field(2)
      OBVIOUS
    <3>2. <<1, 2>> \in S /\ <<3, 40>> \in S
      BY <1>7, <3>1
    <3>3. PICK f : f = <<<<1, 2>>, <<3, 40>>>>
      OBVIOUS
    <3>4. f \in Seq(S) /\ Len(f) = 2
      BY <3>2, <3>3
    <3>5. 6 + 4 * Len(f) < Weight[2]
      BY <1>4, <1>5, <3>4
    <3>6. f \in FieldsOf("READ")
      BY <3>1, <3>4, <3>5 DEF FieldsOf
    <3>7. QED
      BY <3>3, <3>6 DEF OptionalHeader
  <2>6. QED
    BY <2>1, <2>2, <2>3, <2>4, <2>5 DEF Options
<1>11. ASSUME NEW p \in Packets PROVE p \in Packet
  <2>1. PICK o \in UNION {[1 .. n -> Options] : n \in 0 .. Nibble}, d \in {<<>>, <<7, 0, 9>>} :
          p = Carrying(o, d)
    BY DEF Packets
  <2>2. PICK S : S = OptionalHeader
    OBVIOUS
  <2>3. o \in Seq(S)
    <3>1. PICK n \in 0 .. Nibble : o \in [1 .. n -> Options]
      BY <2>1
    <3>2. n \in Nat
      BY WireAssumption
    <3>3. o \in [1 .. n -> S]
      BY <1>10, <2>2, <3>1
    <3>4. QED
      BY <3>2, <3>3
  <2>4. d \in Seq(Nat)
    <3>1. <<>> \in Seq(Nat) /\ <<7, 0, 9>> \in Seq(Nat)
      OBVIOUS
    <3>2. QED
      BY <2>1, <3>1
  <2>5. /\ 33 \in Field(2) /\ 255 \in Field(2) /\ 16 \in Field(2) /\ 15 \in Field(2) /\ 0 \in Field(2)
        /\ 9 \in Field(2) /\ 77 \in Field(2) /\ 240 \in Field(2)
    BY <1>7
  <2>6. PICK ts \in Field(8) : ts = 123456
    BY <1>9
  <2>7. p = [version |-> 1, ifcsrc |-> 3, ifcdst |-> 6, flag |-> 33, seqNo |-> 255, ackNo |-> 16,
             window |-> 15, fingerPrint |-> 0, flowId |-> 9, flowSeqNo |-> 77, origAckNo |-> 240,
             padding |-> 0, sentTS |-> ts, opt |-> o, data |-> d]
    BY <2>1, <2>6 DEF Carrying
  <2>8. o \in Seq(OptionalHeader)
    BY <2>2, <2>3
  <2>9. QED
    BY <2>4, <2>5, <2>7, <2>8 DEF Packet
<1>12. ASSUME NEW x \in ChecksumInputs
       PROVE  /\ x.ip \in [src : Nat, dst : Nat] /\ x.udp \in [source : Nat, dest : Nat, len : Nat]
              /\ x.payload \in Seq(Nat)
  <2>1. PICK s \in {0, 65535, 4660}, d \in {0, 255}, p \in UNION {[1 .. n -> {0, 1, 15}] : n \in 0 .. 4} :
          x = [ip |-> [src |-> s, dst |-> 258], udp |-> [source |-> 200, dest |-> d, len |-> 8 + Len(p)],
               payload |-> p]
    BY DEF ChecksumInputs
  <2>2. PICK n \in 0 .. 4 : p \in [1 .. n -> {0, 1, 15}]
    BY <2>1
  <2>3. p \in [1 .. n -> Nat] /\ n \in Nat
    BY <2>2
  <2>4. p \in Seq(Nat)
    BY <2>3, FunctionIsSeq
  <2>5. 8 + Len(p) \in Nat
    BY <2>4, LenProperties
  <2>6. s \in Nat /\ d \in Nat
    BY <2>1
  <2>7. QED
    BY <2>1, <2>4, <2>5, <2>6
<1>13. QED
  BY <1>11, <1>12

\* Every packet of the run comes back from its bytes, the dissector shows it, and every
\* checksum verifies, as HeadersReturn, DissectorShows and ChecksumsVerify say of any
\* (WireSound).
THEOREM PartsWireSound == PartsSpec => []WireSound
<1> DEFINE Given == /\ part = "wire" => input \in WireInputs
                    /\ part = "checksum" => input \in ChecksumInputs
<1>1. PartsInit => Given
  BY DEF PartsInit, Inputs
<1>2. Given /\ [PartsNext]_partsVars => Given'
  <2> SUFFICES ASSUME Given, [PartsNext]_partsVars PROVE Given'
    OBVIOUS
  <2>1. part' = part /\ input' = input
    BY DEF PartsNext, Only, partsVars
  <2>2. QED
    BY <2>1
<1>3. Given => WireSound
  <2> SUFFICES ASSUME Given PROVE WireSound
    OBVIOUS
  <2>1. ASSUME part = "wire" PROVE RoundTrip(input.pkt) /\ DissectorAgrees(input.pkt)
    <3>1. PICK p \in Packet : p = input.pkt
      BY <2>1, WireInputsTyped DEF WireInputs
    <3>2. RoundTrip(p) /\ DissectorAgrees(p)
      BY HeadersReturn, DissectorShows
    <3>3. QED
      BY <3>1, <3>2
  <2>2. ASSUME part = "checksum" PROVE ChecksumVerifies(input.ip, input.udp, input.payload)
    <3>1. /\ input.ip \in [src : Nat, dst : Nat] /\ input.udp \in [source : Nat, dest : Nat, len : Nat]
          /\ input.payload \in Seq(Nat)
      BY <2>2, WireInputsTyped
    <3>2. QED
      BY <3>1, ChecksumsVerify
  <2>3. QED
    BY <2>1, <2>2 DEF WireSound
<1>4. QED
  BY <1>1, <1>2, <1>3, PTL DEF PartsSpec
=============================================================================
