-------------------------- MODULE Connection_proofs --------------------------
(***************************************************************************)
(* Proofs about Connection: the server's maps between nonces and           *)
(* fingerprints, the hand-over of new flows to acceptFlow, and the object  *)
(* the server holds for a client that is up.                               *)
(***************************************************************************)
EXTENDS Connection, TLAPS

TheNonce == <<"serverAddress", 0>>
Holders == pendingClients \cup clients

MapTypes ==
  /\ nonce2Fp \in [Nonce -> Fp \cup {Null}]
  /\ fp2Nonce \in [Fp -> Nonce \cup {Null}]
  /\ nextId \in Nat
  /\ pendingClients \subseteq Fp /\ clients \subseteq Fp

\* Every client has the same nonce, since the port in it is never set.  So the maps
\* have one entry at most, and the server at most one client.
MapsInv ==
  /\ MapTypes
  /\ Client = {} => net = {} /\ Holders = {}
  /\ \A n \in Nonce : nonce2Fp[n] # Null => fp2Nonce[nonce2Fp[n]] = n
  /\ \A f \in Fp : fp2Nonce[f] # Null => nonce2Fp[fp2Nonce[f]] = f
  /\ \A f \in Holders : fp2Nonce[f] # Null
  /\ pendingClients \cap clients = {}

(***************************************************************************)
(* There is one nonce.                                                     *)
(***************************************************************************)
LEMMA OneNonce ==
  /\ \A n \in Nonce : n = TheNonce
  /\ \A c : NonceOf(c) = TheNonce
  /\ Client # {} => TheNonce \in Nonce
BY DEF Nonce, NonceOf, TheNonce

(***************************************************************************)
(* The server knows one client at a time, and none when a new fingerprint  *)
(* is given out.                                                           *)
(***************************************************************************)
LEMMA OneHolder ==
  ASSUME MapsInv
  PROVE  /\ \A f, g \in Holders : f = g
         /\ \A n \in Nonce : nonce2Fp[n] = Null => /\ \A f \in Fp : fp2Nonce[f] = Null
                                                   /\ Holders = {}
<1>1. \A f \in Fp : fp2Nonce[f] # Null => fp2Nonce[f] = TheNonce /\ nonce2Fp[TheNonce] = f
  BY OneNonce DEF MapsInv, MapTypes
<1>2. Holders \subseteq Fp
  BY DEF MapsInv, MapTypes, Holders
<1>3. \A f \in Fp : f # Null
  BY ConnectionAssumption DEF ConnectionAssumption, Fp
<1>4. QED
  BY <1>1, <1>2, <1>3, OneNonce DEF MapsInv

\* A counter taken modulo FpCnt is a fingerprint.
LEMMA NextFpType == ASSUME nextId \in Nat PROVE NextFp \in Fp
BY ConnectionAssumption DEF ConnectionAssumption, NextFp, Fp

(***************************************************************************)
(* There is no client at first.                                            *)
(***************************************************************************)
LEMMA InitMaps == Init => MapsInv
BY DEF Init, MapsInv, MapTypes, Holders

(***************************************************************************)
(* recvPacketFrom and the purge are all that touches the maps.             *)
(***************************************************************************)
LEMMA StepMaps == MapsInv /\ [Next]_vars => MapsInv'
<1> SUFFICES ASSUME MapsInv, [Next]_vars PROVE MapsInv'
  OBVIOUS
<1> USE DEF serverVars, acceptVars
<1>1. ASSUME UNCHANGED serverVars, Client = {} => net' = {} PROVE MapsInv'
  BY <1>1 DEF MapsInv, MapTypes, Holders
<1>2. ASSUME NEW c \in Client, ClientStep(c) PROVE MapsInv'
  <2>1. UNCHANGED serverVars
    BY <1>2 DEF ClientStep, StartClient, HandShake1, StartReturns, RetryHandShake, RetryClose, OpenFlow,
                CloseFlow, Close, WaitToClose, Destroy, ClientOnly
  <2>2. QED
    BY <1>1, <2>1
<1>3. ASSUME NEW m \in net, Lose(m) \/ HandShake2(m) \/ Close2(m) \/ RecvUnknown(m) \/ Refused(m)
      PROVE  MapsInv'
  <2>1. UNCHANGED serverVars /\ Client # {}
    BY <1>3 DEF Lose, HandShake2, Close2, RecvUnknown, Refused, MapsInv
  <2>2. QED
    BY <1>1, <2>1
<1>4. ASSUME NEW m \in net, RecvSyn(m) PROVE MapsInv'
  <2> DEFINE n == NonceOf(m.cl)
  <2>1. Client # {} /\ n \in Nonce /\ \A k \in Nonce : k = n
    BY OneNonce DEF MapsInv
  <2>2. CASE nonce2Fp[n] # Null
    BY <1>1, <1>4, <2>1, <2>2 DEF RecvSyn
  <2>3. CASE nonce2Fp[n] = Null
    <3>1. Holders = {} /\ \A f \in Fp : fp2Nonce[f] = Null
      BY <2>1, <2>3, OneHolder
    <3>2. NextFp \in Fp
      BY NextFpType DEF MapsInv, MapTypes
    <3>3. /\ nonce2Fp' = [nonce2Fp EXCEPT ![n] = NextFp]
          /\ fp2Nonce' = [fp2Nonce EXCEPT ![NextFp] = n]
          /\ nextId' = nextId + 1
          /\ pendingClients' = pendingClients \cup {NextFp} /\ clients' = clients
      BY <1>4, <2>3 DEF RecvSyn
    <3> HIDE DEF n
    <3>4. MapTypes'
      BY <2>1, <3>2, <3>3 DEF MapsInv, MapTypes
    <3>5. nonce2Fp'[n] = NextFp /\ fp2Nonce'[NextFp] = n
      BY <2>1, <3>2, <3>3 DEF MapsInv, MapTypes
    <3>6. \A f \in Fp : f # NextFp => fp2Nonce'[f] = Null
      BY <3>1, <3>3 DEF MapsInv, MapTypes
    <3>7. pendingClients' = {NextFp} /\ clients' = {} /\ Holders' = {NextFp}
      BY <3>1, <3>3 DEF Holders
    <3>8. n # Null
      BY <2>1, NonceAssumption
    <3>9. QED
      BY <2>1, <3>4, <3>5, <3>6, <3>7, <3>8 DEF MapsInv
  <2>4. QED
    BY <2>2, <2>3
<1>5. ASSUME NEW m \in net, RecvKnown(m) PROVE MapsInv'
  <2>1. /\ UNCHANGED <<nonce2Fp, fp2Nonce, nextId>> /\ m.fp \in Holders
        /\ pendingClients' = pendingClients \ {m.fp} /\ clients' = clients \cup {m.fp}
    BY <1>5 DEF RecvKnown, Holders
  <2>2. Holders' = Holders /\ pendingClients' \cap clients' = {} /\ clients' \subseteq Fp
    BY <2>1 DEF Holders, MapsInv, MapTypes
  <2>3. QED
    BY <2>1, <2>2 DEF MapsInv, MapTypes
<1>6. ASSUME NEW f \in Fp, RunClose(f) \/ RunPacket(f) \/ NewFlowNoticfication(f) \/ AcceptFlow(f)
                           \/ AcceptFrom(f) \/ EndFlow(f)
      PROVE  MapsInv'
  <2>1. UNCHANGED serverVars /\ (Client = {} => net' = net)
    BY <1>6 DEF RunClose, RunPacket, NewFlowNoticfication, AcceptFlow, AcceptFrom, EndFlow, MapsInv, Holders
  <2>2. QED
    BY <1>1, <2>1 DEF MapsInv
<1>7. ASSUME NEW f \in Fp, Purge(f) PROVE MapsInv'
  <2>1. f \in clients /\ f \in Holders /\ clients' = clients \ {f}
        /\ UNCHANGED <<net, nextId, pendingClients>>
    BY <1>7 DEF Purge, Holders
  <2>2. fp2Nonce[f] # Null /\ fp2Nonce[f] \in Nonce /\ nonce2Fp[fp2Nonce[f]] = f
    BY <2>1 DEF MapsInv, MapTypes
  <2>3. /\ nonce2Fp' = [nonce2Fp EXCEPT ![fp2Nonce[f]] = Null]
        /\ fp2Nonce' = [fp2Nonce EXCEPT ![f] = Null]
    BY <1>7, <2>2 DEF Purge
  <2>4. Holders' = {}
    BY <2>1, OneHolder DEF Holders, MapsInv
  <2>5. MapTypes'
    BY <2>1, <2>2, <2>3 DEF MapsInv, MapTypes
  <2>6. \A n \in Nonce : nonce2Fp'[n] = Null
    BY <2>2, <2>3, OneNonce DEF MapsInv, MapTypes
  <2>7. \A g \in Fp : fp2Nonce'[g] = Null
    <3>1. \A g \in Fp : fp2Nonce[g] # Null => fp2Nonce[g] = fp2Nonce[f]
      BY <2>2, OneNonce DEF MapsInv, MapTypes
    <3>2. \A g \in Fp : fp2Nonce[g] # Null => g = f
      BY <2>2, <3>1 DEF MapsInv
    <3>3. QED
      BY <2>3, <3>2 DEF MapsInv, MapTypes
  <2>8. QED
    BY <2>1, <2>4, <2>5, <2>6, <2>7 DEF MapsInv, Holders
<1>8. CASE UNCHANGED vars
  BY <1>1, <1>8 DEF vars, MapsInv
<1>9. QED
  BY <1>2, <1>3, <1>4, <1>5, <1>6, <1>7, <1>8 DEF Next, Arrive, ServerStep

\* The maps agree in every reachable state.
LEMMA MapsInvariant == Spec => []MapsInv
BY InitMaps, StepMaps, PTL DEF Spec

(***************************************************************************)
(* The maps of generateFingerPrint and the purge are inverse to each       *)
(* other, and lead to every client the server holds, also when the counter *)
(* for fingerprints has wrapped.                                           *)
(***************************************************************************)
THEOREM MapsInverse == Spec => []MapsAgree
<1>1. MapsInv => MapsAgree
  BY DEF MapsInv, MapTypes, MapsAgree, Holders
<1>2. QED
  BY <1>1, MapsInvariant, PTL

(***************************************************************************)
(* The server holds at most one client, since all have one nonce: what the *)
(* documentation calls the client's unique ID is shared by clients that    *)
(* are connected at once.                                                  *)
(***************************************************************************)
THEOREM OneClient == Spec => [](\A f, g \in pendingClients \cup clients : f = g)
<1>1. MapsInv => \A f, g \in pendingClients \cup clients : f = g
  BY OneHolder DEF Holders
<1>2. QED
  BY <1>1, MapsInvariant, PTL

-----------------------------------------------------------------------------
(* The hand-over of new flows from the thread of a client to acceptFlow.     *)

ObjWith(q) == [queue : {q}, sch : BOOLEAN, closed : BOOLEAN,
               children : Nat, waiting : Nat, announce : BOOLEAN]

Obj(o) == o \in ObjWith(o.queue)

One(b) == IF b THEN 1 ELSE 0

\* A flow acceptFlow has not returned is announced, or about to be, or acceptFlow
\* has already been told which client to ask.
FlowsOf(f) ==
  /\ Obj(c4s[f])
  /\ c4s[f].waiting = pendingFlow[f] + One(accepting = f) + One(c4s[f].announce)
  /\ c4s[f].waiting <= c4s[f].children
  /\ f \notin clients => c4s[f].children = 0

AcceptInv ==
  /\ DOMAIN c4s = Fp /\ pendingFlow \in [Fp -> Nat] /\ acceptSem \in Nat
  /\ accepting \in Fp \cup {Null}
  /\ \A f \in Fp : FlowsOf(f)
  /\ \A f \in clients : acceptSem = pendingFlow[f]
  /\ clients = {} => acceptSem = 0

(***************************************************************************)
(* The fields of an object after the changes the server makes to it.       *)
(***************************************************************************)
LEMMA ObjFields ==
  ASSUME NEW o, Obj(o)
  PROVE  /\ o.sch \in BOOLEAN /\ o.closed \in BOOLEAN /\ o.announce \in BOOLEAN
         /\ o.children \in Nat /\ o.waiting \in Nat
BY DEF Obj, ObjWith

\* A packet joins or leaves the queue.
LEMMA ObjQueue ==
  ASSUME NEW o, Obj(o), NEW q
  PROVE  LET p == [o EXCEPT !.queue = q]
         IN  Obj(p) /\ p.children = o.children /\ p.waiting = o.waiting /\ p.announce = o.announce
BY DEF Obj, ObjWith

\* RunClose.
LEMMA ObjClose ==
  ASSUME NEW o, Obj(o), NEW q
  PROVE  LET p == [o EXCEPT !.queue = q, !.sch = FALSE, !.closed = TRUE]
         IN  Obj(p) /\ p.children = o.children /\ p.waiting = o.waiting /\ p.announce = o.announce
BY DEF Obj, ObjWith

\* NewFlowNoticfication.
LEMMA ObjAnnounced ==
  ASSUME NEW o, Obj(o)
  PROVE  LET p == [o EXCEPT !.announce = FALSE]
         IN  Obj(p) /\ p.children = o.children /\ p.waiting = o.waiting /\ p.announce = FALSE
BY DEF Obj, ObjWith

\* AcceptFrom.
LEMMA ObjWaiting ==
  ASSUME NEW o, Obj(o), NEW w \in Nat
  PROVE  LET p == [o EXCEPT !.waiting = w]
         IN  Obj(p) /\ p.children = o.children /\ p.waiting = w /\ p.announce = o.announce
BY DEF Obj, ObjWith

\* EndFlow.
LEMMA ObjChildren ==
  ASSUME NEW o, Obj(o), NEW n \in Nat
  PROVE  LET p == [o EXCEPT !.children = n]
         IN  Obj(p) /\ p.children = n /\ p.waiting = o.waiting /\ p.announce = o.announce
BY DEF Obj, ObjWith

(***************************************************************************)
(* A client the server does not hold has nothing left to accept; one it    *)
(* holds has every wake-up there is.                                       *)
(***************************************************************************)
LEMMA AcceptFacts ==
  ASSUME MapsInv, AcceptInv
  PROVE  /\ \A f \in Fp : f \notin clients =>
              /\ pendingFlow[f] = 0 /\ accepting # f
              /\ c4s[f].announce = FALSE /\ c4s[f].waiting = 0 /\ c4s[f].children = 0
         /\ AcceptFindsClient
<1>1. \A f \in Fp : /\ c4s[f].announce \in BOOLEAN
                    /\ c4s[f].children \in Nat /\ c4s[f].waiting \in Nat
                    /\ pendingFlow[f] \in Nat
  BY ObjFields DEF AcceptInv, FlowsOf
<1>2. \A f \in Fp : f \notin clients => c4s[f].waiting = 0 /\ c4s[f].children = 0
  BY <1>1 DEF AcceptInv, FlowsOf
<1>3. \A f \in Fp : c4s[f].waiting = 0 =>
         pendingFlow[f] = 0 /\ accepting # f /\ c4s[f].announce = FALSE
  BY <1>1 DEF AcceptInv, FlowsOf, One
<1>4. accepting # Null => accepting \in clients /\ c4s[accepting].waiting > 0
  <2>1. accepting # Null => accepting \in Fp
    BY DEF AcceptInv
  <2>2. \A f \in Fp : accepting = f => c4s[f].waiting > 0
    BY <1>1, <1>3
  <2>3. QED
    BY <1>2, <2>1, <2>2
<1>5. acceptSem > 0 => \E f \in Fp : pendingFlow[f] > 0
  BY DEF AcceptInv, MapsInv, MapTypes
<1>6. \A f \in Fp : pendingFlow[f] > 0 => f \in clients
  BY <1>1, <1>2, <1>3
<1>7. QED
  BY <1>1, <1>2, <1>3, <1>4, <1>5, <1>6 DEF AcceptFindsClient

\* No flow is waiting at first.
LEMMA InitAccept == Init => AcceptInv
<1>1. Obj(NewServerObj) /\ NewServerObj.waiting = 0 /\ NewServerObj.children = 0
      /\ NewServerObj.announce = FALSE
  BY DEF Obj, ObjWith, NewServerObj
<1>2. Null \notin Fp
  BY ConnectionAssumption DEF ConnectionAssumption, Fp
<1>3. QED
  BY <1>1, <1>2 DEF Init, AcceptInv, FlowsOf, One

(***************************************************************************)
(* A change of one object that leaves its flows alone.                     *)
(***************************************************************************)
LEMMA SameFlows ==
  ASSUME MapsInv, AcceptInv, NEW k \in Fp, NEW o, Obj(o), SetObj(k, o), UNCHANGED acceptVars,
         o.children = c4s[k].children, o.waiting = c4s[k].waiting, o.announce = c4s[k].announce,
         clients' = clients \/ (clients' = clients \cup {k} /\ k \in Holders)
  PROVE  AcceptInv'
<1>1. DOMAIN c4s' = Fp /\ c4s'[k] = o /\ \A f \in Fp \ {k} : c4s'[f] = c4s[f]
  BY DEF AcceptInv, SetObj
<1>2. \A f \in Fp : /\ Obj(c4s'[f])
                    /\ c4s'[f].children = c4s[f].children /\ c4s'[f].waiting = c4s[f].waiting
                    /\ c4s'[f].announce = c4s[f].announce
  BY <1>1 DEF AcceptInv, FlowsOf
<1>3. \A f \in Fp : FlowsOf(f)'
  BY <1>2 DEF AcceptInv, FlowsOf, One, acceptVars
<1>4. k \in clients \/ clients' = clients \/ (clients = {} /\ clients' = {k} /\ pendingFlow[k] = 0)
  BY OneHolder, AcceptFacts DEF Holders
<1>5. (\A f \in clients' : acceptSem' = pendingFlow'[f]) /\ (clients' = {} => acceptSem' = 0)
  BY <1>4 DEF AcceptInv, acceptVars
<1>6. QED
  BY <1>1, <1>3, <1>5 DEF AcceptInv, acceptVars

(***************************************************************************)
(* A change of the flows of one client and what is known of them.          *)
(***************************************************************************)
LEMMA MoreFlows ==
  ASSUME MapsInv, AcceptInv, NEW k \in clients, UNCHANGED clients,
         DOMAIN c4s' = Fp, \A f \in Fp \ {k} : c4s'[f] = c4s[f], FlowsOf(k)',
         pendingFlow' \in [Fp -> Nat], \A f \in Fp \ {k} : pendingFlow'[f] = pendingFlow[f],
         acceptSem' = pendingFlow'[k],
         accepting' \in Fp \cup {Null}, \A f \in Fp \ {k} : accepting' = f <=> accepting = f
  PROVE  AcceptInv'
<1>1. \A f \in Fp \ {k} : FlowsOf(f)'
  BY DEF AcceptInv, FlowsOf, One
<1>2. clients = {k} /\ k \in Fp
  BY OneHolder DEF Holders, MapsInv, MapTypes
<1>3. QED
  BY <1>1, <1>2 DEF AcceptInv

(***************************************************************************)
(* The steps of the server that are about a client or its flows.           *)
(***************************************************************************)
LEMMA StepAccept == MapsInv /\ AcceptInv /\ [Next]_vars => AcceptInv'
<1> SUFFICES ASSUME MapsInv, AcceptInv, [Next]_vars PROVE AcceptInv'
  OBVIOUS
<1> USE DEF serverVars, acceptVars
<1>0. /\ clients \subseteq Fp /\ pendingClients \subseteq Fp /\ Null \notin Fp
      /\ \A f \in Fp : Obj(c4s[f])
  BY ConnectionAssumption DEF MapsInv, MapTypes, ConnectionAssumption, Fp, AcceptInv, FlowsOf
<1>1. ASSUME UNCHANGED <<clients, c4s, acceptVars>> PROVE AcceptInv'
  BY <1>1 DEF AcceptInv, FlowsOf, One
<1>2. ASSUME NEW c \in Client, ClientStep(c) PROVE AcceptInv'
  <2>1. UNCHANGED <<clients, c4s, acceptVars>>
    BY <1>2 DEF ClientStep, StartClient, HandShake1, StartReturns, RetryHandShake, RetryClose, OpenFlow,
                CloseFlow, Close, WaitToClose, Destroy, ClientOnly
  <2>2. QED
    BY <1>1, <2>1
<1>3. ASSUME NEW m \in net, Lose(m) \/ HandShake2(m) \/ Close2(m) \/ RecvUnknown(m) \/ Refused(m)
      PROVE  AcceptInv'
  <2>1. UNCHANGED <<clients, c4s, acceptVars>>
    BY <1>3 DEF Lose, HandShake2, Close2, RecvUnknown, Refused
  <2>2. QED
    BY <1>1, <2>1
<1>4. ASSUME NEW m \in net, RecvSyn(m) PROVE AcceptInv'
  <2>1. CASE nonce2Fp[NonceOf(m.cl)] # Null
    BY <1>1, <1>4, <2>1 DEF RecvSyn
  <2>2. CASE nonce2Fp[NonceOf(m.cl)] = Null
    <3>1. NonceOf(m.cl) \in Nonce
      BY OneNonce DEF MapsInv
    <3>2. clients = {} /\ NextFp \in Fp
      BY <2>2, <3>1, OneHolder, NextFpType DEF Holders, MapsInv, MapTypes
    <3>3. SetObj(NextFp, NewServerObj) /\ UNCHANGED <<clients, acceptVars>>
      BY <1>4, <2>2 DEF RecvSyn
    <3>4. c4s[NextFp].children = 0 /\ c4s[NextFp].waiting = 0 /\ c4s[NextFp].announce = FALSE
      BY <3>2, AcceptFacts
    <3>5. /\ Obj(NewServerObj) /\ NewServerObj.children = 0
          /\ NewServerObj.waiting = 0 /\ NewServerObj.announce = FALSE
      BY DEF NewServerObj, Obj, ObjWith
    <3>6. QED
      BY <3>2, <3>3, <3>4, <3>5, SameFlows
  <2>3. QED
    BY <2>1, <2>2
<1>5. ASSUME NEW m \in net, RecvKnown(m) PROVE AcceptInv'
  <2> DEFINE o == [c4s[m.fp] EXCEPT !.queue = Append(@, m)]
  <2>1. m.fp \in Holders /\ m.fp \in Fp /\ Obj(c4s[m.fp])
    BY <1>0, <1>5 DEF RecvKnown, Holders
  <2>2. /\ Obj(o) /\ o.children = c4s[m.fp].children /\ o.waiting = c4s[m.fp].waiting
        /\ o.announce = c4s[m.fp].announce
    BY <2>1, ObjQueue
  <2>3. SetObj(m.fp, o) /\ UNCHANGED acceptVars /\ clients' = clients \cup {m.fp}
    BY <1>5 DEF RecvKnown
  <2> HIDE DEF o
  <2>4. QED
    BY <2>1, <2>2, <2>3, SameFlows
<1>6. ASSUME NEW f \in Fp, RunClose(f) PROVE AcceptInv'
  <2> DEFINE o == [c4s[f] EXCEPT !.queue = Tail(@), !.sch = FALSE, !.closed = TRUE]
  <2>1. /\ Obj(o) /\ o.children = c4s[f].children /\ o.waiting = c4s[f].waiting
        /\ o.announce = c4s[f].announce
    BY <1>0, ObjClose
  <2>2. SetObj(f, o) /\ UNCHANGED <<clients, acceptVars>>
    BY <1>6 DEF RunClose
  <2> HIDE DEF o
  <2>3. QED
    BY <2>1, <2>2, SameFlows
<1>7. ASSUME NEW f \in Fp, RunPacket(f) PROVE AcceptInv'
  <2> DEFINE new == Head(c4s[f].queue).kind = "FLOW"
             n   == IF new THEN c4s[f].children + 1 ELSE c4s[f].children
             w   == IF new THEN c4s[f].waiting + 1 ELSE c4s[f].waiting
             q   == Tail(c4s[f].queue)
             p   == c4s[f]
             o   == [p EXCEPT !.queue = q, !.announce = new, !.children = n, !.waiting = w]
  <2>1. /\ f \in clients /\ ~c4s[f].announce /\ SetObj(f, o) /\ UNCHANGED <<clients, acceptVars>>
    BY <1>7 DEF RunPacket
  <2>2. n \in Nat /\ w \in Nat /\ new \in BOOLEAN
    BY <1>0, ObjFields
  <2> HIDE DEF n, w, new, q, p
  <2>3. Obj(o) /\ o.children = n /\ o.waiting = w /\ o.announce = new
    <3>1. Obj(p)
      BY <1>0 DEF p
    <3>2. QED
      BY <2>2, <3>1 DEF Obj, ObjWith
  <2>4. c4s[f].children \in Nat /\ c4s[f].waiting \in Nat
    BY <1>0, ObjFields
  <2>5. w = c4s[f].waiting + One(new) /\ n = c4s[f].children + One(new)
    BY <2>4 DEF One, n, w
  <2> HIDE DEF o
  <2>6. DOMAIN c4s' = Fp /\ c4s'[f] = o /\ \A g \in Fp \ {f} : c4s'[g] = c4s[g]
    BY <2>1 DEF AcceptInv, SetObj
  <2>7. FlowsOf(f)'
    <3>1. Obj(o) /\ o.waiting = c4s[f].waiting + One(new) /\ o.children = c4s[f].children + One(new)
      BY <2>3, <2>5
    <3>2. c4s[f].waiting = pendingFlow[f] + One(accepting = f) /\ c4s[f].waiting <= c4s[f].children
          /\ pendingFlow[f] \in Nat
      BY <2>1, <2>4 DEF AcceptInv, FlowsOf, One
    <3>3. c4s'[f].waiting = pendingFlow'[f] + One(accepting' = f) + One(c4s'[f].announce)
      BY <2>1, <2>3, <2>6, <3>1, <3>2
    <3>4. c4s'[f].waiting <= c4s'[f].children
      BY <2>4, <2>6, <3>1, <3>2 DEF One
    <3>5. QED
      BY <2>1, <2>6, <3>1, <3>3, <3>4 DEF FlowsOf
  <2>8. QED
    BY <2>1, <2>6, <2>7, MoreFlows DEF AcceptInv
<1>8. ASSUME NEW f \in Fp, NewFlowNoticfication(f) PROVE AcceptInv'
  <2> DEFINE o == [c4s[f] EXCEPT !.announce = FALSE]
  <2>1. /\ c4s[f].announce /\ SetObj(f, o) /\ UNCHANGED <<clients, accepting>>
        /\ pendingFlow' = [pendingFlow EXCEPT ![f] = @ + 1] /\ acceptSem' = acceptSem + 1
    BY <1>8 DEF NewFlowNoticfication
  <2>2. f \in clients
    BY <2>1, AcceptFacts
  <2>3. /\ Obj(o) /\ o.children = c4s[f].children /\ o.waiting = c4s[f].waiting
        /\ o.announce = FALSE
    BY <1>0, ObjAnnounced
  <2> HIDE DEF o
  <2>4. DOMAIN c4s' = Fp /\ c4s'[f] = o /\ \A g \in Fp \ {f} : c4s'[g] = c4s[g]
    BY <2>1 DEF AcceptInv, SetObj
  <2>5. /\ pendingFlow' \in [Fp -> Nat] /\ pendingFlow'[f] = pendingFlow[f] + 1
        /\ \A g \in Fp \ {f} : pendingFlow'[g] = pendingFlow[g]
    BY <2>1 DEF AcceptInv
  <2>6. FlowsOf(f)'
    BY <2>1, <2>3, <2>4, <2>5 DEF AcceptInv, FlowsOf, One
  <2>7. acceptSem' = pendingFlow'[f]
    BY <2>1, <2>2, <2>5 DEF AcceptInv
  <2>8. QED
    BY <2>1, <2>2, <2>4, <2>5, <2>6, <2>7, MoreFlows DEF AcceptInv
<1>9. ASSUME NEW f \in Fp, AcceptFlow(f) PROVE AcceptInv'
  <2>1. /\ accepting = Null /\ acceptSem > 0 /\ pendingFlow[f] > 0 /\ accepting' = f
        /\ UNCHANGED <<clients, c4s>> /\ acceptSem' = acceptSem - 1
        /\ pendingFlow' = [pendingFlow EXCEPT ![f] = @ - 1]
    BY <1>9 DEF AcceptFlow
  <2>2. f \in clients
    BY <2>1, AcceptFacts DEF AcceptFindsClient
  <2>3. /\ pendingFlow' \in [Fp -> Nat] /\ pendingFlow'[f] = pendingFlow[f] - 1
        /\ \A g \in Fp \ {f} : pendingFlow'[g] = pendingFlow[g]
    BY <2>1 DEF AcceptInv
  <2>4. FlowsOf(f)'
    <3>1. accepting # f
      BY <1>0, <2>1
    <3>2. QED
      BY <2>1, <2>3, <3>1 DEF AcceptInv, FlowsOf, One
  <2>5. acceptSem' = pendingFlow'[f]
    BY <2>1, <2>2, <2>3 DEF AcceptInv
  <2>6. \A g \in Fp \ {f} : accepting' = g <=> accepting = g
    BY <1>0, <2>1
  <2>7. QED
    BY <2>1, <2>2, <2>3, <2>4, <2>5, <2>6, MoreFlows DEF AcceptInv
<1>10. ASSUME NEW f \in Fp, AcceptFrom(f) PROVE AcceptInv'
  <2> DEFINE o == [c4s[f] EXCEPT !.waiting = @ - 1]
  <2>1. /\ accepting = f /\ f \in clients /\ c4s[f].waiting > 0 /\ SetObj(f, o)
        /\ accepting' = Null /\ UNCHANGED <<clients, pendingFlow, acceptSem>>
    BY <1>10 DEF AcceptFrom
  <2>2. c4s[f].waiting - 1 \in Nat /\ c4s[f].children \in Nat
    BY <1>0, <2>1, ObjFields
  <2>3. /\ Obj(o) /\ o.children = c4s[f].children /\ o.waiting = c4s[f].waiting - 1
        /\ o.announce = c4s[f].announce
    BY <1>0, <2>2, ObjWaiting
  <2> HIDE DEF o
  <2>4. DOMAIN c4s' = Fp /\ c4s'[f] = o /\ \A g \in Fp \ {f} : c4s'[g] = c4s[g]
    BY <2>1 DEF AcceptInv, SetObj
  <2>5. FlowsOf(f)'
    BY <1>0, <2>1, <2>2, <2>3, <2>4 DEF AcceptInv, FlowsOf, One
  <2>6. \A g \in Fp \ {f} : accepting' = g <=> accepting = g
    BY <1>0, <2>1
  <2>7. QED
    BY <2>1, <2>4, <2>5, <2>6, MoreFlows DEF AcceptInv
<1>11. ASSUME NEW f \in Fp, EndFlow(f) PROVE AcceptInv'
  <2> DEFINE o == [c4s[f] EXCEPT !.children = @ - 1]
  <2>1. /\ f \in clients /\ c4s[f].children > c4s[f].waiting /\ SetObj(f, o)
        /\ UNCHANGED <<clients, acceptVars>>
    BY <1>11 DEF EndFlow
  <2>2. c4s[f].children - 1 \in Nat /\ c4s[f].waiting \in Nat /\ c4s[f].children \in Nat
    BY <1>0, <2>1, ObjFields
  <2>3. /\ Obj(o) /\ o.children = c4s[f].children - 1 /\ o.waiting = c4s[f].waiting
        /\ o.announce = c4s[f].announce
    BY <1>0, <2>2, ObjChildren
  <2> HIDE DEF o
  <2>4. DOMAIN c4s' = Fp /\ c4s'[f] = o /\ \A g \in Fp \ {f} : c4s'[g] = c4s[g]
    BY <2>1 DEF AcceptInv, SetObj
  <2>5. FlowsOf(f)'
    BY <2>1, <2>2, <2>3, <2>4 DEF AcceptInv, FlowsOf, One
  <2>6. QED
    BY <2>1, <2>4, <2>5, MoreFlows DEF AcceptInv
<1>12. ASSUME NEW f \in Fp, Purge(f) PROVE AcceptInv'
  <2>1. /\ f \in clients /\ c4s[f].children = 0 /\ clients' = clients \ {f}
        /\ UNCHANGED <<c4s, acceptVars>>
    BY <1>12 DEF Purge, IsClosed
  <2>2. clients' = {} /\ clients = {f}
    BY <2>1, OneHolder DEF Holders
  <2>3. pendingFlow[f] = 0 /\ acceptSem = 0
    <3>1. c4s[f].waiting \in Nat /\ c4s[f].announce \in BOOLEAN /\ pendingFlow[f] \in Nat
      BY <1>0, ObjFields DEF AcceptInv
    <3>2. QED
      BY <2>1, <3>1 DEF AcceptInv, FlowsOf, One
  <2>4. \A g \in Fp : FlowsOf(g)'
    BY <2>1, <2>2 DEF AcceptInv, FlowsOf, One
  <2>5. QED
    BY <2>1, <2>2, <2>3, <2>4 DEF AcceptInv
<1>13. CASE UNCHANGED vars
  BY <1>1, <1>13 DEF vars
<1>14. QED
  BY <1>2, <1>3, <1>4, <1>5, <1>6, <1>7, <1>8, <1>9, <1>10, <1>11, <1>12, <1>13
  DEF Next, Arrive, ServerStep

(***************************************************************************)
(* acceptFlow finds the client it was woken for, however flows arrive,     *)
(* clients close and the purge runs.  Purging waits for the last flow to   *)
(* be accepted (AcceptInv), and one client at a time makes the number of   *)
(* wake-ups the number of flows of that client.                            *)
(***************************************************************************)
THEOREM AcceptSafe == Spec => []AcceptFindsClient
<1>1. Init => MapsInv /\ AcceptInv
  BY InitMaps, InitAccept
<1>2. MapsInv /\ AcceptInv /\ [Next]_vars => (MapsInv /\ AcceptInv)'
  BY StepMaps, StepAccept
<1>3. MapsInv /\ AcceptInv => AcceptFindsClient
  BY AcceptFacts
<1>4. QED
  BY <1>1, <1>2, <1>3, PTL DEF Spec

-----------------------------------------------------------------------------
(* A client that is up is served.                                            *)

ClientRec == [app : AppState, connected : BOOLEAN, fp : Fp, tries : Nat, posted : BOOLEAN,
              closeTry : Nat, locked : BOOLEAN, flow : {"none", "open", "closed"}]

\* No application thread uses the connection, although its threads may still run.
Resting(c) == cli[c].app \in {"idle", "closed", "left", "stuck", "gone"}

\* The connection of c has not begun to close.
Entering(c) == cli[c].app \in {"setup", "starting", "up", "failed"}

ClientOK(c) ==
  /\ cli[c] \in ClientRec
  /\ ~Resting(c) /\ cli[c].connected => cli[c].fp \in Holders
  /\ cli[c].app \in {"up", "closing", "waiting"} => cli[c].connected
  /\ cli[c].app = "idle" => ~cli[c].connected
  /\ cli[c].closeTry > 0 => cli[c].app \in {"closing", "waiting", "closed", "gone"}
  /\ cli[c].app = "closed" => ~cli[c].locked

\* A datagram leads to a client the server holds; one of a close is from a client
\* that closes.
MsgOK(m) ==
  /\ m \in Message
  /\ m.kind \in {"SYNACK", "CFN"} => m.fp \in Holders
  /\ m.kind \in {"CFN", "CFNACK"} => cli[m.cl].closeTry > 0

\* An object the server has closed or is about to close.
Closing(o) == o.closed \/ ~o.sch \/ \E i \in DOMAIN o.queue : o.queue[i].kind = "CFN"

QueueOK(q) ==
  /\ q \in Seq(Message)
  /\ \A i \in DOMAIN q : q[i].kind = "CFN" => cli[q[i].cl].closeTry > 0

\* A close has reached the server or is on its way there.
CloseBegun ==
  \/ \E f \in Holders : Closing(c4s[f])
  \/ \E m \in net : m.kind = "CFN"

\* One client at a time is at work, and while any trace of an earlier close is
\* left no client is entering.
ServedInv ==
  /\ DOMAIN cli = Client /\ \A c \in Client : ClientOK(c)
  /\ \A c, d \in Client : Resting(c) \/ Resting(d) \/ c = d
  /\ \A n \in Nonce : nonce2Fp[n] # Null => nonce2Fp[n] \in Holders
  /\ \A m \in net : MsgOK(m)
  /\ \A f \in Holders : QueueOK(c4s[f].queue)
  /\ CloseBegun => /\ \E c \in Client : cli[c].closeTry > 0
                   /\ \A c \in Client : ~Entering(c)

\* What is in a queue is a message.
LEMMA QueueMessages == \A q \in Seq(Message) : \A i \in DOMAIN q : q[i] \in Message
OBVIOUS

(***************************************************************************)
(* A packet joins a queue, and leaves it at its head.                      *)
(***************************************************************************)
LEMMA QueueGrows ==
  ASSUME NEW q, QueueOK(q), NEW m, MsgOK(m)
  PROVE  /\ QueueOK(Append(q, m))
         /\ \A i \in DOMAIN Append(q, m) : Append(q, m)[i].kind = "CFN" =>
               m.kind = "CFN" \/ \E j \in DOMAIN q : q[j].kind = "CFN"
<1>1. q \in Seq(Message) /\ m \in Message
  BY DEF QueueOK, MsgOK
<1>2. Append(q, m) \in Seq(Message)
  BY <1>1
<1>3. \A i \in DOMAIN Append(q, m) : Append(q, m)[i] = m \/ (i \in DOMAIN q /\ Append(q, m)[i] = q[i])
  BY <1>1
<1>4. QED
  BY <1>2, <1>3 DEF QueueOK, MsgOK

LEMMA QueueShrinks ==
  ASSUME NEW q, QueueOK(q), q # <<>>
  PROVE  /\ QueueOK(Tail(q))
         /\ Head(q) \in Message /\ (Head(q).kind = "CFN" => cli[Head(q).cl].closeTry > 0)
         /\ \A i \in DOMAIN Tail(q) : Tail(q)[i].kind = "CFN" => \E j \in DOMAIN q : q[j].kind = "CFN"
         /\ Head(q).kind = "CFN" => \E j \in DOMAIN q : q[j].kind = "CFN"
<1>1. q \in Seq(Message)
  BY DEF QueueOK
<1>2. Tail(q) \in Seq(Message) /\ Head(q) = q[1] /\ 1 \in DOMAIN q
  BY <1>1
<1>3. \A i \in DOMAIN Tail(q) : i + 1 \in DOMAIN q /\ Tail(q)[i] = q[i + 1]
  BY <1>1
<1>4. Head(q) \in Message
  BY <1>1, <1>2, QueueMessages
<1>5. QED
  BY <1>2, <1>3, <1>4 DEF QueueOK

(***************************************************************************)
(* The fields of a client after the end of its wait.                       *)
(***************************************************************************)
LEMMA WakeFields ==
  ASSUME NEW o \in ClientRec
  PROVE  LET w == WakeCloser(o)
         IN  /\ w \in ClientRec /\ w.fp = o.fp /\ w.connected = o.connected
             /\ w.closeTry = o.closeTry
             /\ o.app = "waiting" => w.app = "closed" /\ ~w.locked
             /\ o.app # "waiting" => w.app = o.app /\ w.locked = o.locked
<1>1. CASE o.app = "waiting"
  <2>1. WakeCloser(o) = [o EXCEPT !.app = "closed", !.locked = FALSE]
    BY <1>1 DEF WakeCloser, ClientRec
  <2>2. QED
    BY <1>1, <2>1 DEF ClientRec, AppState
<1>2. CASE o.app # "waiting"
  <2>1. WakeCloser(o) = o
    BY <1>2 DEF WakeCloser, ClientRec
  <2>2. QED
    BY <1>2, <2>1
<1>3. QED
  BY <1>1, <1>2

(***************************************************************************)
(* No client is at work at first.                                          *)
(***************************************************************************)
LEMMA InitServed == Init => ServedInv
<1> SUFFICES ASSUME Init PROVE ServedInv
  OBVIOUS
<1>1. EmptyFp \in Fp /\ Holders = {} /\ net = {}
  BY ConnectionAssumption DEF ConnectionAssumption, Fp, EmptyFp, Init, Holders
<1>2. NewClient \in ClientRec /\ NewClient.app = "idle" /\ NewClient.closeTry = 0
      /\ ~NewClient.connected
  BY <1>1 DEF NewClient, ClientRec, AppState
<1>3. DOMAIN cli = Client /\ \A c \in Client : cli[c] = NewClient
  BY DEF Init
<1>4. \A c \in Client : ClientOK(c) /\ Resting(c)
  BY <1>2, <1>3 DEF ClientOK, Resting
<1>5. \A n \in Nonce : nonce2Fp[n] = Null
  BY DEF Init
<1>6. QED
  BY <1>1, <1>3, <1>4, <1>5 DEF ServedInv, CloseBegun

(***************************************************************************)
(* A client up has an open object at the server.                           *)
(***************************************************************************)
LEMMA ServedFacts == MapsInv /\ AcceptInv /\ ServedInv => ServedWhileUp
<1> SUFFICES ASSUME MapsInv, AcceptInv, ServedInv, NEW c \in Client, cli[c].app = "up"
             PROVE  /\ cli[c].fp \in pendingClients \cup clients
                    /\ ~c4s[cli[c].fp].closed /\ c4s[cli[c].fp].sch
  BY DEF ServedWhileUp
<1>1. cli[c].fp \in Holders
  BY DEF ServedInv, ClientOK, Resting
<1>2. ~CloseBegun
  BY DEF ServedInv, Entering
<1>3. ~Closing(c4s[cli[c].fp])
  BY <1>1, <1>2 DEF CloseBegun
<1>4. QED
  BY <1>1, <1>3 DEF Closing, Holders

(***************************************************************************)
(* What a step of a client, which changes nothing at the server, has to    *)
(* keep.                                                                   *)
(***************************************************************************)
LEMMA ClientMoves ==
  ASSUME ServedInv, NEW c \in Client, cli' = [cli EXCEPT ![c] = cli'[c]], ClientOK(c)',
         UNCHANGED <<nonce2Fp, pendingClients, clients, c4s>>,
         \A m \in net' : m \in net \/ MsgOK(m)',
         cli[c].closeTry > 0 => cli'[c].closeTry > 0,
         Resting(c)' \/ ~Resting(c) \/ \A d \in Client \ {c} : Resting(d),
         Entering(c)' => Entering(c) \/ ~CloseBegun,
         (\E m \in net' : m \notin net /\ m.kind = "CFN") => ~Entering(c)' /\ ~Resting(c)
  PROVE  ServedInv'
<1>1. DOMAIN cli' = Client /\ \A d \in Client \ {c} : cli'[d] = cli[d]
  BY DEF ServedInv
<1>2. Holders' = Holders
  BY DEF Holders
<1>3. \A d \in Client : ClientOK(d)'
  BY <1>1, <1>2 DEF ServedInv, ClientOK, Resting
<1>4. \A d \in Client \ {c} : Resting(d)' = Resting(d) /\ Entering(d)' = Entering(d)
  BY <1>1 DEF Resting, Entering
<1>5. \A d \in Client : cli[d].closeTry > 0 => cli'[d].closeTry > 0
  BY <1>1
<1>6. \A d, e \in Client : Resting(d)' \/ Resting(e)' \/ d = e
  BY <1>4 DEF ServedInv
<1>7. \A m \in net' : MsgOK(m)'
  <2>1. \A m \in net : MsgOK(m) /\ m.cl \in Client
    BY DEF ServedInv, MsgOK, Message
  <2>2. \A m \in net : MsgOK(m)'
    BY <1>2, <1>5, <2>1 DEF MsgOK
  <2>3. QED
    BY <2>2
<1>8. \A f \in Holders' : QueueOK(c4s[f].queue)'
  <2>1. ASSUME NEW f \in Holders PROVE QueueOK(c4s[f].queue)'
    <3>1. c4s[f].queue \in Seq(Message) /\ QueueOK(c4s[f].queue) /\ c4s' = c4s
      BY DEF ServedInv, QueueOK
    <3>2. \A i \in DOMAIN c4s[f].queue : c4s[f].queue[i].cl \in Client
      BY <3>1, QueueMessages DEF Message
    <3>3. QED
      BY <1>5, <3>1, <3>2 DEF QueueOK
  <2>2. QED
    BY <1>2, <2>1
<1>9. ASSUME CloseBegun' PROVE (\E d \in Client : cli'[d].closeTry > 0) /\ \A d \in Client : ~Entering(d)'
  <2>1. CASE CloseBegun
    BY <1>4, <1>5, <2>1 DEF ServedInv
  <2>2. CASE ~CloseBegun
    <3>1. PICK m \in net' : m \notin net /\ m.kind = "CFN"
      BY <1>2, <1>9, <2>2 DEF CloseBegun
    <3>2. m.cl \in Client /\ cli'[m.cl].closeTry > 0
      BY <1>7, <3>1 DEF MsgOK, Message
    <3>3. ~Entering(c)' /\ ~Resting(c)
      BY <3>1
    <3>4. \A d \in Client \ {c} : ~Entering(d)'
      BY <1>4, <3>3 DEF ServedInv, Resting, Entering
    <3>5. QED
      BY <3>2, <3>3, <3>4
  <2>3. QED
    BY <2>1, <2>2
<1>10. QED
  BY <1>1, <1>2, <1>3, <1>6, <1>7, <1>8, <1>9 DEF ServedInv

(***************************************************************************)
(* The same for a step of the server, or of the network, that leaves every *)
(* client object at the server as it is but for one.                       *)
(***************************************************************************)
LEMMA ServerMoves ==
  ASSUME ServedInv, UNCHANGED cli, NEW k,
         \A n \in Nonce : nonce2Fp'[n] # Null => nonce2Fp'[n] \in Holders',
         \A f \in Holders : f \in Holders',
         \A f \in Holders' \ {k} : f \in Holders /\ c4s'[f] = c4s[f],
         \A m \in net' : m \in net \/ MsgOK(m)',
         k \in Holders' => QueueOK(c4s'[k].queue) /\ (Closing(c4s'[k]) => CloseBegun),
         \A m \in net' : m.kind = "CFN" => m \in net
  PROVE  ServedInv'
<1>1. \A c \in Client : ClientOK(c)' /\ Entering(c)' = Entering(c) /\ Resting(c)' = Resting(c)
  BY DEF ServedInv, ClientOK, Entering, Resting
<1>2. \A m \in net' : MsgOK(m)'
  BY DEF ServedInv, MsgOK
<1>3. \A f \in Holders' : QueueOK(c4s[f].queue)'
  <2>1. ASSUME NEW f \in Holders', f # k PROVE QueueOK(c4s[f].queue)'
    BY <2>1 DEF ServedInv, QueueOK
  <2>2. ASSUME k \in Holders' PROVE QueueOK(c4s[k].queue)'
    BY <2>2 DEF QueueOK
  <2>3. QED
    BY <2>1, <2>2
<1>4. CloseBegun' => CloseBegun
  BY DEF CloseBegun
<1>5. QED
  BY <1>1, <1>2, <1>3, <1>4 DEF ServedInv

(***************************************************************************)
(* The steps of a client.                                                  *)
(***************************************************************************)
LEMMA ClientServed ==
  ASSUME "overlap" \notin FaultKinds, MapsInv, ServedInv, NEW c \in Client, ClientStep(c)
  PROVE  ServedInv'
<1> USE DEF serverVars, acceptVars, ClientOnly, Set
<1> DEFINE r == cli[c]
           s == cli'[c]
<1>1. /\ r \in ClientRec /\ ClientOK(c) /\ DOMAIN cli = Client
      /\ \A m \in net : MsgOK(m)
  BY DEF ServedInv, ClientOK
<1>2. UNCHANGED <<nonce2Fp, pendingClients, clients, c4s>> /\ Holders' = Holders
  BY DEF ClientStep, StartClient, HandShake1, StartReturns, RetryHandShake, RetryClose, OpenFlow,
         CloseFlow, Close, WaitToClose, Destroy, Holders
<1>3. EmptyFp \in Fp /\ MaxCloses \in Nat
  BY ConnectionAssumption DEF ConnectionAssumption, Fp, EmptyFp
<1>4. CASE StartClient(c)
  <2>1. r.app = "idle" /\ cli' = [cli EXCEPT ![c] = [r EXCEPT !.app = "setup"]] /\ net' = net
    BY <1>4 DEF StartClient
  <2>2. s \in ClientRec /\ s.app = "setup" /\ s.closeTry = r.closeTry /\ s.connected = r.connected
    BY <1>1, <2>1 DEF ClientRec, AppState
  <2>3. r.closeTry = 0 /\ ~r.connected
    BY <1>1, <2>1 DEF ClientOK, ClientRec
  <2>4. \A d \in Client \ {c} : Resting(d)
    BY <1>4 DEF StartClient, Forgotten, Resting
  <2>5. ~CloseBegun
    <3>1. Client # {c} => Holders = {}
      BY <1>4 DEF StartClient, Forgotten, Holders
    <3>2. Holders = {} => ~CloseBegun
      BY DEF ServedInv, MsgOK, CloseBegun
    <3>3. Client = {c} => ~\E d \in Client : cli[d].closeTry > 0
      BY <2>3
    <3>4. QED
      BY <3>1, <3>2, <3>3 DEF ServedInv
  <2>6. QED
    BY <1>1, <1>2, <2>1, <2>2, <2>3, <2>4, <2>5, ClientMoves DEF ClientOK
<1>5. ASSUME NEW app \in {"starting", r.app}, r.app = "setup" \/ app = r.app, SendSyn(c, app)
      PROVE  ServedInv'
  <2>1. cli' = [cli EXCEPT ![c] = [r EXCEPT !.app = app, !.tries = @ + 1]]
        /\ net' = net \cup {Syn(c)}
    BY <1>5 DEF SendSyn
  <2>2. app \in AppState
    BY <1>1 DEF ClientRec, AppState
  <2> HIDE DEF r
  <2>3. s \in ClientRec /\ s.app = app /\ s.closeTry = r.closeTry /\ s.connected = r.connected
        /\ s.fp = r.fp /\ s.locked = r.locked
    <3>1. r.tries + 1 \in Nat /\ DOMAIN r = DOMAIN [r EXCEPT !.app = app, !.tries = @ + 1]
      BY <1>1 DEF ClientRec
    <3>2. s = [r EXCEPT !.app = app, !.tries = @ + 1]
      BY <1>1, <2>1
    <3>3. QED
      BY <1>1, <2>2, <3>1, <3>2 DEF ClientRec
  <2> USE DEF r
  <2>4. app = r.app \/ (r.app = "setup" /\ app = "starting")
    BY <1>5
  <2>5. ClientOK(c)'
    BY <1>1, <1>2, <2>3, <2>4 DEF ClientOK, Resting
  <2>6. Resting(c)' = Resting(c) /\ Entering(c)' = Entering(c)
    BY <2>3, <2>4 DEF Resting, Entering
  <2>7. \A m \in net' : m \in net \/ (MsgOK(m)' /\ m.kind = "SYN")
    BY <1>3, <2>1 DEF Syn, MsgOK, Message
  <2>8. QED
    BY <1>1, <1>2, <2>1, <2>3, <2>5, <2>6, <2>7, ClientMoves
<1>6. CASE HandShake1(c)
  BY <1>5, <1>6 DEF HandShake1
<1>7. CASE StartReturns(c)
  <2> DEFINE app == IF r.connected THEN "up" ELSE "failed"
  <2>1. r.app = "starting" /\ cli' = [cli EXCEPT ![c] = [r EXCEPT !.posted = FALSE, !.app = app]]
        /\ net' = net
    BY <1>7 DEF StartReturns
  <2>2. /\ app \in {"up", "failed"} /\ (app = "up" => r.connected) /\ r.closeTry = 0
    BY <1>1, <2>1 DEF ClientOK, ClientRec
  <2> HIDE DEF app
  <2>3. s \in ClientRec /\ s.app = app /\ s.closeTry = r.closeTry /\ s.connected = r.connected
        /\ s.fp = r.fp /\ s.locked = r.locked
    BY <1>1, <2>1, <2>2 DEF ClientRec, AppState
  <2>4. ClientOK(c)'
    BY <1>1, <1>2, <2>1, <2>2, <2>3 DEF ClientOK, Resting
  <2>5. ~Resting(c) /\ Entering(c)
    BY <2>1 DEF Resting, Entering
  <2>6. QED
    BY <1>1, <1>2, <2>1, <2>3, <2>4, <2>5, ClientMoves
<1>8. CASE RetryHandShake(c)
  <2>1. CASE r.tries \in 1 .. MaxTries - 1
    BY <1>5, <1>8, <2>1 DEF RetryHandShake
  <2>2. CASE r.tries \notin 1 .. MaxTries - 1
    <3>1. cli' = [cli EXCEPT ![c] = [r EXCEPT !.posted = TRUE]] /\ net' = net
      BY <1>8, <2>2 DEF RetryHandShake
    <3>2. s \in ClientRec /\ s.app = r.app /\ s.closeTry = r.closeTry /\ s.connected = r.connected
          /\ s.fp = r.fp /\ s.locked = r.locked
      BY <1>1, <3>1 DEF ClientRec
    <3>3. ClientOK(c)' /\ Resting(c)' = Resting(c) /\ Entering(c)' = Entering(c)
      BY <1>1, <1>2, <3>2 DEF ClientOK, Resting, Entering
    <3>4. QED
      BY <1>1, <1>2, <3>1, <3>2, <3>3, ClientMoves
  <2>3. QED
    BY <2>1, <2>2
<1>9. ASSUME NEW o \in ClientRec, Close1(c, o), o.fp = r.fp, o.connected, r.connected, ~Resting(c),
             o.app \in {"closing", "waiting"}
      PROVE  ServedInv'
  <2>1. r.fp \in Holders
    BY <1>1, <1>9 DEF ClientOK
  <2>2. CASE o.closeTry >= MaxCloses
    <3> DEFINE t == [o EXCEPT !.closeTry = MaxCloses + 1]
    <3>1. cli' = [cli EXCEPT ![c] = WakeCloser(t)] /\ net' = net
      BY <1>9, <2>2 DEF Close1
    <3>2. t \in ClientRec /\ t.app = o.app /\ t.fp = r.fp /\ t.connected /\ t.closeTry = MaxCloses + 1
      BY <1>3, <1>9 DEF ClientRec
    <3> HIDE DEF t
    <3>3. s = WakeCloser(t)
      BY <1>1, <3>1
    <3>4. /\ s \in ClientRec /\ s.fp = r.fp /\ s.connected /\ s.closeTry = MaxCloses + 1
          /\ s.app \in {"closing", "closed"} /\ (s.app = "closed" => ~s.locked)
      BY <1>9, <3>2, <3>3, WakeFields
    <3>5. ClientOK(c)' /\ ~Entering(c)' /\ s.closeTry > 0
      BY <1>2, <1>3, <2>1, <3>4 DEF ClientOK, Resting, Entering
    <3>6. QED
      BY <1>2, <1>9, <3>1, <3>3, <3>5, ClientMoves
  <2>3. CASE ~(o.closeTry >= MaxCloses)
    <3>1. cli' = [cli EXCEPT ![c] = [o EXCEPT !.closeTry = @ + 1]] /\ net' = net \cup {Cfn(c)}
      BY <1>9, <2>3 DEF Close1
    <3>2. s \in ClientRec /\ s.app = o.app /\ s.fp = r.fp /\ s.connected /\ s.closeTry > 0
      BY <1>1, <1>9, <3>1 DEF ClientRec
    <3>3. ClientOK(c)' /\ ~Entering(c)'
      BY <1>2, <1>9, <2>1, <3>2 DEF ClientOK, Resting, Entering
    <3>4. \A m \in net' : m \in net \/ MsgOK(m)'
      <4>1. Cfn(c) \in Message /\ Cfn(c).fp = r.fp /\ Cfn(c).cl = c /\ Cfn(c).kind = "CFN"
        BY <1>1 DEF Cfn, Message, ClientRec
      <4>2. ASSUME NEW m, m = Cfn(c) PROVE MsgOK(m)'
        BY <1>2, <2>1, <3>2, <4>1, <4>2 DEF MsgOK
      <4>3. QED
        BY <3>1, <4>2
    <3>5. QED
      BY <1>2, <1>9, <3>1, <3>2, <3>3, <3>4, ClientMoves
  <2>4. QED
    BY <2>2, <2>3
<1>10. CASE RetryClose(c)
  <2>1. Close1(c, r) /\ r.connected /\ r.closeTry > 0 /\ Running(c)
    BY <1>10 DEF RetryClose
  <2>2. r.app \in {"closing", "waiting"}
    BY <1>1, <2>1 DEF ClientOK, Running
  <2>3. QED
    BY <1>1, <1>9, <2>1, <2>2 DEF Resting
<1>11. CASE OpenFlow(c) \/ CloseFlow(c)
  <2>1. PICK fl \in {"open", "closed"} : cli' = [cli EXCEPT ![c] = [r EXCEPT !.flow = fl]]
    BY <1>11 DEF OpenFlow, CloseFlow
  <2>2. net' \subseteq net \cup {FlowPkt(c)}
    BY <1>11 DEF OpenFlow, CloseFlow
  <2>3. s \in ClientRec /\ s.app = r.app /\ s.closeTry = r.closeTry /\ s.connected = r.connected
        /\ s.fp = r.fp /\ s.locked = r.locked
    BY <1>1, <2>1 DEF ClientRec
  <2>4. ClientOK(c)' /\ Resting(c)' = Resting(c) /\ Entering(c)' = Entering(c)
    BY <1>1, <1>2, <2>3 DEF ClientOK, Resting, Entering
  <2>5. \A m \in net' : m \in net \/ (MsgOK(m)' /\ m.kind = "FLOW")
    BY <1>1, <2>2 DEF FlowPkt, MsgOK, Message, ClientRec
  <2>6. QED
    BY <1>1, <1>2, <2>1, <2>3, <2>4, <2>5, ClientMoves
<1>12. CASE Close(c)
  <2>1. r.app \in {"up", "failed"} /\ r.closeTry = 0
    BY <1>1, <1>12 DEF Close, ClientOK, ClientRec
  <2>2. CASE r.connected
    <3> DEFINE o == [r EXCEPT !.app = "closing", !.locked = TRUE]
    <3>1. o \in ClientRec /\ o.fp = r.fp /\ o.connected = r.connected /\ o.app = "closing"
      BY <1>1 DEF ClientRec, AppState
    <3>2. Close1(c, o)
      BY <1>12, <2>1, <2>2 DEF Close
    <3> HIDE DEF o
    <3>3. QED
      BY <1>9, <2>1, <2>2, <3>1, <3>2 DEF Resting
  <2>3. CASE ~r.connected
    <3>1. cli' = [cli EXCEPT ![c] = [r EXCEPT !.app = "left", !.locked = TRUE]] /\ net' = net
      BY <1>12, <2>3 DEF Close
    <3>2. s \in ClientRec /\ s.app = "left" /\ s.closeTry = 0
      BY <1>1, <2>1, <3>1 DEF ClientRec, AppState
    <3>3. ClientOK(c)' /\ Resting(c)' /\ ~Entering(c)'
      BY <3>2 DEF ClientOK, Resting, Entering
    <3>4. QED
      BY <1>2, <2>1, <3>1, <3>2, <3>3, ClientMoves
  <2>4. QED
    BY <2>2, <2>3
<1>13. CASE WaitToClose(c)
  <2>1. r.app = "closing" /\ cli' = [cli EXCEPT ![c] = [r EXCEPT !.app = "waiting"]] /\ net' = net
    BY <1>13 DEF WaitToClose
  <2>2. s \in ClientRec /\ s.app = "waiting" /\ s.closeTry = r.closeTry /\ s.connected = r.connected
        /\ s.fp = r.fp
    BY <1>1, <2>1 DEF ClientRec, AppState
  <2>3. ClientOK(c)' /\ ~Resting(c) /\ ~Entering(c)'
    BY <1>1, <1>2, <2>1, <2>2 DEF ClientOK, Resting, Entering
  <2>4. QED
    BY <1>1, <1>2, <2>1, <2>2, <2>3, ClientMoves
<1>14. CASE Destroy(c)
  <2> DEFINE app == IF r.locked THEN "stuck" ELSE "gone"
  <2>1. r.app \in {"left", "closed"} /\ net' = net
        /\ cli' = [cli EXCEPT ![c] = [r EXCEPT !.app = app, !.locked = TRUE]]
    BY <1>14 DEF Destroy
  <2>2. app \in {"stuck", "gone"} /\ (r.closeTry > 0 => app = "gone")
    BY <1>1, <2>1 DEF ClientOK
  <2> HIDE DEF app
  <2>3. s \in ClientRec /\ s.app = app /\ s.closeTry = r.closeTry
    BY <1>1, <2>1, <2>2 DEF ClientRec, AppState
  <2>4. ClientOK(c)' /\ Resting(c)' /\ ~Entering(c)'
    BY <2>2, <2>3 DEF ClientOK, Resting, Entering
  <2>5. QED
    BY <1>2, <2>1, <2>3, <2>4, ClientMoves
<1>15. QED
  BY <1>4, <1>6, <1>7, <1>8, <1>10, <1>11, <1>12, <1>13, <1>14 DEF ClientStep

(***************************************************************************)
(* A datagram arrives or is lost.                                          *)
(***************************************************************************)
LEMMA NetServed ==
  ASSUME MapsInv, AcceptInv, ServedInv, NEW m \in net, Arrive(m) \/ Lose(m)
  PROVE  ServedInv'
<1> USE DEF serverVars, acceptVars, Set
<1>1. /\ MsgOK(m) /\ m \in Message /\ m.cl \in Client /\ m.fp \in Fp
      /\ \A n \in net : MsgOK(n)
      /\ \A c \in Client : ClientOK(c) /\ cli[c] \in ClientRec
      /\ DOMAIN cli = Client
  BY DEF ServedInv, MsgOK, Message, ClientOK
<1>2. ASSUME UNCHANGED <<cli, nonce2Fp, pendingClients, clients, c4s>>,
             \A n \in net' : n \in net \/ (MsgOK(n)' /\ n.kind # "CFN")
      PROVE  ServedInv'
  <2>1. Holders' = Holders
    BY <1>2 DEF Holders
  <2>2. \A n \in Nonce : nonce2Fp'[n] # Null => nonce2Fp'[n] \in Holders'
    BY <1>2, <2>1 DEF ServedInv
  <2>3. ASSUME m.fp \in Holders'
        PROVE  QueueOK(c4s'[m.fp].queue) /\ (Closing(c4s'[m.fp]) => CloseBegun)
    BY <1>2, <2>1, <2>3 DEF ServedInv, CloseBegun
  <2>4. QED
    BY <1>2, <2>1, <2>2, <2>3, ServerMoves
<1>3. CASE Lose(m) \/ Refused(m)
  BY <1>2, <1>3 DEF Lose, Refused
<1>4. CASE HandShake2(m)
  <2> DEFINE c == m.cl
             s == cli'[c]
  <2>1. /\ UNCHANGED <<nonce2Fp, pendingClients, clients, c4s>> /\ Running(c)
        /\ cli' = [cli EXCEPT ![c] = [cli[c] EXCEPT !.fp = m.fp, !.connected = TRUE, !.tries = 0,
                                                   !.posted = TRUE]]
        /\ \A n \in net' : n \in net \/ n = [kind |-> "ACK", cl |-> m.cl, fp |-> m.fp]
    BY <1>4 DEF HandShake2, Answer
  <2>2. s \in ClientRec /\ s.app = cli[c].app /\ s.closeTry = cli[c].closeTry /\ s.connected
        /\ s.fp = m.fp /\ s.locked = cli[c].locked
    BY <1>1, <2>1 DEF ClientRec
  <2>3. m.fp \in Holders /\ Holders' = Holders
    BY <1>1, <1>4, <2>1 DEF HandShake2, MsgOK, Holders
  <2>4. cli[c].app # "idle"
    BY <2>1 DEF Running
  <2>5. ClientOK(c)' /\ Resting(c)' = Resting(c) /\ Entering(c)' = Entering(c)
    BY <1>1, <2>2, <2>3, <2>4 DEF ClientOK, Resting, Entering
  <2>6. \A n \in net' : n \in net \/ (MsgOK(n)' /\ n.kind # "CFN")
    BY <1>1, <2>1 DEF MsgOK, Message
  <2>7. QED
    BY <1>1, <2>1, <2>2, <2>5, <2>6, ClientMoves
<1>5. CASE Close2(m)
  <2> DEFINE c == m.cl
             s == cli'[c]
  <2>1. /\ UNCHANGED <<nonce2Fp, pendingClients, clients, c4s>> /\ Running(c)
        /\ cli' = [cli EXCEPT ![c] = WakeCloser(cli[c])]
        /\ \A n \in net' : n \in net \/ n = Ack(c)
    BY <1>5 DEF Close2, Answer
  <2>2. cli[c].closeTry > 0
    BY <1>1, <1>5 DEF Close2, MsgOK
  <2>3. cli[c].app \in {"closing", "waiting"}
    BY <1>1, <2>1, <2>2 DEF ClientOK, Running
  <2>4. /\ s \in ClientRec /\ s.fp = cli[c].fp /\ s.connected = cli[c].connected
        /\ s.closeTry = cli[c].closeTry /\ s.app \in {"closing", "closed"}
        /\ (s.app = "closed" => ~s.locked)
    BY <1>1, <2>1, <2>3, WakeFields
  <2>5. Holders' = Holders
    BY <2>1 DEF Holders
  <2>6. ClientOK(c)' /\ ~Resting(c) /\ ~Entering(c)'
    BY <1>1, <2>3, <2>4, <2>5 DEF ClientOK, Resting, Entering
  <2>7. \A n \in net' : n \in net \/ (MsgOK(n)' /\ n.kind # "CFN")
    BY <1>1, <2>1 DEF MsgOK, Message, Ack, ClientRec
  <2>8. QED
    BY <1>1, <2>1, <2>2, <2>4, <2>6, <2>7, ClientMoves
<1>6. CASE RecvUnknown(m)
  <2>1. /\ UNCHANGED <<cli, nonce2Fp, pendingClients, clients, c4s>>
        /\ \A n \in net' : n \in net \/ (n = CfnAck(m.cl) /\ m.kind = "CFN")
    BY <1>6 DEF RecvUnknown, Answer
  <2>2. EmptyFp \in Fp
    BY ConnectionAssumption DEF ConnectionAssumption, Fp, EmptyFp
  <2>3. \A n \in net' : n \in net \/ (MsgOK(n)' /\ n.kind # "CFN")
    BY <1>1, <2>1, <2>2 DEF MsgOK, Message, CfnAck
  <2>4. QED
    BY <1>2, <2>1, <2>3
<1>7. CASE RecvSyn(m)
  <2> DEFINE n == NonceOf(m.cl)
  <2>1. n \in Nonce /\ \A k \in Nonce : k = n
    BY <1>1, OneNonce DEF Nonce
  <2>2. CASE nonce2Fp[n] # Null
    <3>1. /\ UNCHANGED <<cli, nonce2Fp, pendingClients, clients, c4s>>
          /\ \A k \in net' : k \in net \/ k = SynAck(m.cl, nonce2Fp[n])
      BY <1>7, <2>2 DEF RecvSyn, Answer
    <3>2. nonce2Fp[n] \in Holders /\ nonce2Fp[n] \in Fp /\ Holders' = Holders
      BY <2>1, <2>2, <3>1 DEF ServedInv, MapsInv, MapTypes, Holders
    <3> HIDE DEF n
    <3>3. \A k \in net' : k \in net \/ (MsgOK(k)' /\ k.kind # "CFN")
      BY <1>1, <3>1, <3>2 DEF MsgOK, Message, SynAck
    <3>4. QED
      BY <1>2, <3>1, <3>3
  <2>3. CASE nonce2Fp[n] = Null
    <3>1. /\ UNCHANGED <<cli, clients>> /\ nonce2Fp' = [nonce2Fp EXCEPT ![n] = NextFp]
          /\ pendingClients' = pendingClients \cup {NextFp}
          /\ SetObj(NextFp, NewServerObj)
          /\ \A k \in net' : k \in net \/ k = SynAck(m.cl, NextFp)
      BY <1>7, <2>3 DEF RecvSyn, Answer
    <3>2. NextFp \in Fp /\ Holders = {}
      BY <2>1, <2>3, NextFpType, OneHolder DEF MapsInv, MapTypes
    <3> HIDE DEF n
    <3>3. Holders' = {NextFp}
      BY <3>1, <3>2 DEF Holders
    <3>4. c4s'[NextFp] = NewServerObj
      BY <3>1, <3>2 DEF SetObj, AcceptInv
    <3>5. \A k \in Nonce : nonce2Fp'[k] = NextFp
      BY <2>1, <3>1 DEF MapsInv, MapTypes
    <3>6. QueueOK(c4s'[NextFp].queue) /\ ~Closing(c4s'[NextFp])
      BY <3>4 DEF NewServerObj, QueueOK, Closing
    <3>7. \A k \in net' : k \in net \/ (MsgOK(k)' /\ k.kind # "CFN")
      BY <1>1, <3>1, <3>2, <3>3 DEF MsgOK, Message, SynAck
    <3> HIDE DEF Holders, NextFp
    <3>8. \A f \in Holders' \ {NextFp} : f \in Holders /\ c4s'[f] = c4s[f]
      BY <3>3
    <3>9. QED
      BY <3>1, <3>2, <3>3, <3>5, <3>6, <3>7, <3>8, ServerMoves
  <2>4. QED
    BY <2>2, <2>3
<1>8. CASE RecvKnown(m)
  <2> DEFINE f == m.fp
  <2>1. /\ UNCHANGED <<cli, nonce2Fp>> /\ f \in Holders
        /\ pendingClients' = pendingClients \ {f} /\ clients' = clients \cup {f}
        /\ SetObj(f, [c4s[f] EXCEPT !.queue = Append(@, m)])
        /\ \A n \in net' : n \in net
    BY <1>8 DEF RecvKnown, Take, Holders
  <2>2. Holders' = Holders
    BY <2>1 DEF Holders
  <2>3. /\ c4s'[f] = [c4s[f] EXCEPT !.queue = Append(@, m)]
        /\ \A g \in Fp \ {f} : c4s'[g] = c4s[g]
    BY <1>1, <2>1 DEF SetObj, AcceptInv
  <2>4. /\ c4s'[f].queue = Append(c4s[f].queue, m) /\ c4s'[f].sch = c4s[f].sch
        /\ c4s'[f].closed = c4s[f].closed
    BY <1>1, <2>3 DEF AcceptInv, FlowsOf, Obj, ObjWith
  <2>5. QueueOK(c4s[f].queue)
    BY <2>1 DEF ServedInv
  <2>6. QueueOK(c4s'[f].queue) /\ (Closing(c4s'[f]) => Closing(c4s[f]) \/ m.kind = "CFN")
    BY <1>1, <2>4, <2>5, QueueGrows DEF Closing
  <2>7. Closing(c4s'[f]) => CloseBegun
    BY <2>1, <2>6 DEF CloseBegun
  <2>8. Holders \subseteq Fp
    BY DEF Holders, MapsInv, MapTypes
  <2>9. \A n \in Nonce : nonce2Fp'[n] # Null => nonce2Fp'[n] \in Holders'
    BY <2>1, <2>2 DEF ServedInv
  <2>10. QED
    BY <2>1, <2>2, <2>3, <2>6, <2>7, <2>8, <2>9, ServerMoves
<1>9. QED
  BY <1>3, <1>4, <1>5, <1>6, <1>7, <1>8 DEF Arrive

(***************************************************************************)
(* The steps of the server's other threads.                                *)
(***************************************************************************)
LEMMA ServerServed ==
  ASSUME "late" \notin FaultKinds, MapsInv, AcceptInv, ServedInv, NEW f \in Fp, ServerStep(f)
  PROVE  ServedInv'
<1> USE DEF serverVars, acceptVars
<1>1. /\ Holders \subseteq Fp /\ \A m \in net : MsgOK(m) /\ m \in Message
      /\ \A g \in Fp : Obj(c4s[g])
      /\ DOMAIN c4s = Fp
  BY DEF Holders, MapsInv, MapTypes, ServedInv, MsgOK, AcceptInv, FlowsOf
<1>2. ASSUME NEW o, SetObj(f, o), UNCHANGED <<cli, nonce2Fp, pendingClients, clients>>,
             \A m \in net' : m \in net \/ (MsgOK(m)' /\ m.kind # "CFN"),
             f \in Holders => QueueOK(o.queue) /\ (Closing(o) => CloseBegun)
      PROVE  ServedInv'
  <2>1. Holders' = Holders
    BY <1>2 DEF Holders
  <2>2. c4s'[f] = o /\ \A g \in Fp \ {f} : c4s'[g] = c4s[g]
    BY <1>1, <1>2 DEF SetObj
  <2>3. \A n \in Nonce : nonce2Fp'[n] # Null => nonce2Fp'[n] \in Holders'
    BY <1>2, <2>1 DEF ServedInv
  <2>4. QED
    BY <1>1, <1>2, <2>1, <2>2, <2>3, ServerMoves
<1>3. ASSUME f \in Holders
      PROVE  /\ QueueOK(c4s[f].queue)
             /\ Closing(c4s[f]) => CloseBegun
  BY <1>3 DEF ServedInv, CloseBegun
<1>4. CASE RunClose(f)
  <2> DEFINE q == c4s[f].queue
             o == [c4s[f] EXCEPT !.queue = Tail(q), !.sch = FALSE, !.closed = TRUE]
  <2>1. /\ f \in clients /\ q # <<>> /\ Head(q).kind = "CFN"
        /\ SetObj(f, o) /\ UNCHANGED <<cli, nonce2Fp, pendingClients, clients>>
        /\ net' = net \cup {CfnAck(Head(q).cl)}
    BY <1>4 DEF RunClose
  <2>2. f \in Holders /\ QueueOK(q)
    BY <1>3, <2>1 DEF Holders
  <2>3. /\ QueueOK(Tail(q)) /\ Head(q) \in Message /\ cli[Head(q).cl].closeTry > 0
        /\ \E j \in DOMAIN q : q[j].kind = "CFN"
    BY <2>1, <2>2, QueueShrinks
  <2>4. CloseBegun
    BY <2>2, <2>3 DEF CloseBegun, Closing
  <2>5. o.queue = Tail(q)
    BY <1>1 DEF Obj, ObjWith
  <2>6. EmptyFp \in Fp
    BY ConnectionAssumption DEF ConnectionAssumption, Fp, EmptyFp
  <2> HIDE DEF o, q
  <2>7. \A m \in net' : m \in net \/ (MsgOK(m)' /\ m.kind # "CFN")
    BY <2>1, <2>3, <2>6 DEF MsgOK, Message, CfnAck
  <2>8. QED
    BY <1>2, <2>1, <2>3, <2>4, <2>5, <2>7
<1>5. CASE RunPacket(f)
  <2> DEFINE q == c4s[f].queue
             new == Head(q).kind = "FLOW"
             o == [c4s[f] EXCEPT !.queue = Tail(@), !.announce = new,
                                 !.children = IF new THEN @ + 1 ELSE @,
                                 !.waiting = IF new THEN @ + 1 ELSE @]
  <2>1. /\ f \in clients /\ q # <<>> /\ SetObj(f, o)
        /\ UNCHANGED <<cli, net, nonce2Fp, pendingClients, clients>>
    BY <1>5 DEF RunPacket
  <2>2. f \in Holders /\ QueueOK(q)
    BY <1>3, <2>1 DEF Holders
  <2>3. o.queue = Tail(q) /\ o.sch = c4s[f].sch /\ o.closed = c4s[f].closed
    BY <1>1 DEF Obj, ObjWith
  <2>4. QueueOK(Tail(q)) /\ \A i \in DOMAIN Tail(q) : Tail(q)[i].kind = "CFN" =>
                                                        \E j \in DOMAIN q : q[j].kind = "CFN"
    BY <2>1, <2>2, QueueShrinks
  <2>5. Closing(o) => Closing(c4s[f])
    <3> HIDE DEF o
    <3>1. QED
      BY <2>3, <2>4 DEF Closing
  <2> HIDE DEF o
  <2>6. QED
    BY <1>2, <1>3, <2>1, <2>2, <2>3, <2>4, <2>5
<1>6. CASE NewFlowNoticfication(f)
  <2> DEFINE o == [c4s[f] EXCEPT !.announce = FALSE]
  <2>1. SetObj(f, o) /\ UNCHANGED <<cli, net, nonce2Fp, pendingClients, clients>>
    BY <1>6 DEF NewFlowNoticfication
  <2>2. o.queue = c4s[f].queue /\ o.sch = c4s[f].sch /\ o.closed = c4s[f].closed
    BY <1>1 DEF Obj, ObjWith
  <2> HIDE DEF o
  <2>3. QED
    BY <1>2, <1>3, <2>1, <2>2 DEF Closing
<1>7. CASE AcceptFlow(f)
  <2>1. UNCHANGED <<cli, net, nonce2Fp, pendingClients, clients, c4s>>
    BY <1>7 DEF AcceptFlow
  <2>2. Holders' = Holders
    BY <2>1 DEF Holders
  <2>3. \A n \in Nonce : nonce2Fp'[n] # Null => nonce2Fp'[n] \in Holders'
    BY <2>1, <2>2 DEF ServedInv
  <2>4. QED
    BY <1>3, <2>1, <2>2, <2>3, ServerMoves
<1>8. CASE AcceptFrom(f)
  <2> DEFINE o == [c4s[f] EXCEPT !.waiting = @ - 1]
  <2>1. SetObj(f, o) /\ UNCHANGED <<cli, net, nonce2Fp, pendingClients, clients>>
    BY <1>8 DEF AcceptFrom
  <2>2. o.queue = c4s[f].queue /\ o.sch = c4s[f].sch /\ o.closed = c4s[f].closed
    BY <1>1 DEF Obj, ObjWith
  <2> HIDE DEF o
  <2>3. QED
    BY <1>2, <1>3, <2>1, <2>2 DEF Closing
<1>9. CASE EndFlow(f)
  <2> DEFINE o == [c4s[f] EXCEPT !.children = @ - 1]
  <2>1. SetObj(f, o) /\ UNCHANGED <<cli, net, nonce2Fp, pendingClients, clients>>
    BY <1>9 DEF EndFlow
  <2>2. o.queue = c4s[f].queue /\ o.sch = c4s[f].sch /\ o.closed = c4s[f].closed
    BY <1>1 DEF Obj, ObjWith
  <2> HIDE DEF o
  <2>3. QED
    BY <1>2, <1>3, <2>1, <2>2 DEF Closing
<1>10. CASE Purge(f)
  <2>1. f \in clients /\ Settled(f) /\ clients' = clients \ {f}
        /\ UNCHANGED <<cli, net, pendingClients, c4s>>
    BY <1>10 DEF Purge
  <2>2. Holders = {f} /\ Holders' = {}
    BY <2>1, OneHolder DEF Holders, MapsInv
  <2>3. \A n \in Nonce : nonce2Fp'[n] = Null
    <3>1. fp2Nonce[f] # Null /\ fp2Nonce[f] \in Nonce
      BY <1>1, <2>2 DEF MapsInv, MapTypes
    <3>2. nonce2Fp' = [nonce2Fp EXCEPT ![fp2Nonce[f]] = Null]
      BY <1>10, <3>1 DEF Purge
    <3>3. QED
      BY <3>1, <3>2, OneNonce DEF MapsInv, MapTypes
  <2>4. \A m \in net : m.kind \notin {"SYNACK", "CFN"}
    BY <1>1, <2>1, <2>2 DEF Settled, MsgOK
  <2>5. \A c \in Client : ClientOK(c)' /\ Resting(c)' = Resting(c)
    <3>1. \A c \in Client : ClientOK(c) /\ (cli[c].fp = f => Resting(c))
      BY <2>1 DEF ServedInv, Settled, Resting
    <3>2. QED
      BY <2>1, <2>2, <3>1 DEF ClientOK, Resting
  <2>6. \A m \in net' : MsgOK(m)'
    BY <1>1, <2>1, <2>4 DEF MsgOK
  <2>7. ~CloseBegun'
    BY <2>1, <2>2, <2>4 DEF CloseBegun
  <2>8. QED
    BY <2>1, <2>2, <2>3, <2>5, <2>6, <2>7 DEF ServedInv
<1>11. QED
  BY <1>4, <1>5, <1>6, <1>7, <1>8, <1>9, <1>10 DEF ServerStep

(***************************************************************************)
(* From the moment startClient returns success until the client closes,    *)
(* the server holds an open object under the client's fingerprint: however *)
(* handshakes, flows and closes are retried, lost and duplicated, as long  *)
(* as clients of one process connect one after the other ("overlap") and   *)
(* nothing of a closed client arrives after it was purged ("late").        *)
(***************************************************************************)
THEOREM Served ==
  ASSUME "overlap" \notin FaultKinds, "late" \notin FaultKinds
  PROVE  Spec => []ServedWhileUp
<1>1. Init => MapsInv /\ AcceptInv /\ ServedInv
  BY InitMaps, InitAccept, InitServed
<1>2. MapsInv /\ AcceptInv /\ ServedInv /\ [Next]_vars => ServedInv'
  <2>1. ASSUME ServedInv, UNCHANGED vars PROVE ServedInv'
    <3>1. \A c \in Client : ClientOK(c)' = ClientOK(c) /\ Resting(c)' = Resting(c)
                            /\ Entering(c)' = Entering(c)
      BY <2>1 DEF vars, serverVars, ClientOK, Resting, Entering, Holders
    <3>2. net' = net /\ \A m \in net : MsgOK(m)' = MsgOK(m)
      BY <2>1 DEF vars, serverVars, MsgOK, Holders
    <3>3. Holders' = Holders /\ c4s' = c4s /\ cli' = cli /\ nonce2Fp' = nonce2Fp
      BY <2>1 DEF vars, serverVars, Holders
    <3>4. CloseBegun' = CloseBegun
      BY <3>2, <3>3 DEF CloseBegun
    <3>5. \A f \in Holders : QueueOK(c4s[f].queue)'
      BY <2>1, <3>3 DEF ServedInv, QueueOK
    <3>6. QED
      BY <2>1, <3>1, <3>2, <3>3, <3>4, <3>5 DEF ServedInv
  <2>2. QED
    BY <2>1, ClientServed, NetServed, ServerServed DEF Next
<1>3. MapsInv /\ AcceptInv /\ [Next]_vars => (MapsInv /\ AcceptInv)'
  BY StepMaps, StepAccept
<1>4. MapsInv /\ AcceptInv /\ ServedInv => ServedWhileUp
  BY ServedFacts
<1>5. QED
  BY <1>1, <1>2, <1>3, <1>4, PTL DEF Spec
=============================================================================
