---------------------------- MODULE Waits_proofs ----------------------------
(***************************************************************************)
(* The proofs about what threads wait on and hand each other things by:    *)
(* the receiver, the counter that is waited on, the buffer of a stream and *)
(* the queue of the local flows.  Each has an inductive invariant of its   *)
(* own; the first section is about sequences, the last about the packets   *)
(* that go over the wire, their headers and checksums.                     *)
(***************************************************************************)
EXTENDS Wire, Receiver, ToZeroCounter, CircularBuffer, LLQueue,
        FiniteSetTheorems, SequenceTheorems, WellFoundedInduction, TLAPS

\* Numbers and sequences.

\* The order of the naturals as a relation.
Smaller == OpToRel(<, Nat)

\* Every set of numbers has a least one.
LEMMA LeastNumber ==
  ASSUME NEW T, T \subseteq Nat, T # {}
  PROVE  \E n \in T : \A m \in T : n <= m
<1>1. IsWellFoundedOn(Smaller, Nat)
  BY NatLessThanWellFounded DEF OpToRel, Smaller
<1>2. PICK n \in T : \A m \in T : <<m, n>> \notin Smaller
  BY <1>1, WFMin
<1>3. ASSUME NEW m \in T PROVE n <= m
  <2>1. <<m, n>> \notin Smaller /\ m \in Nat /\ n \in Nat
    BY <1>2
  <2>2. QED
    BY <2>1 DEF OpToRel, Smaller
<1>4. QED
  BY <1>3

(***************************************************************************)
(* Stacks and queues whose elements are all different.                     *)
(***************************************************************************)
Unique(s) == \A i, j \in 1 .. Len(s) : s[i] = s[j] => i = j

\* What is in a sequence, and where.
LEMMA Elements ==
  ASSUME NEW S, NEW s \in Seq(S)
  PROVE  /\ Len(s) \in Nat /\ DOMAIN s = 1 .. Len(s)
         /\ ToSet(s) = {s[i] : i \in 1 .. Len(s)}
         /\ ToSet(s) \subseteq S
         /\ s # <<>> <=> Len(s) > 0
         /\ \A i \in 1 .. Len(s) : s[i] \in ToSet(s)
<1>1. Len(s) \in Nat /\ DOMAIN s = 1 .. Len(s) /\ \A i \in 1 .. Len(s) : s[i] \in S
  BY LenProperties, ElementOfSeq
<1>2. s # <<>> <=> Len(s) > 0
  BY <1>1, EmptySeq
<1>3. QED
  BY <1>1, <1>2 DEF ToSet

\* Appending to it.
LEMMA AppendElements ==
  ASSUME NEW S, NEW s \in Seq(S), NEW x \in S
  PROVE  /\ Append(s, x) \in Seq(S) /\ Len(Append(s, x)) = Len(s) + 1
         /\ ToSet(Append(s, x)) = ToSet(s) \cup {x}
         /\ Unique(s) /\ x \notin ToSet(s) => Unique(Append(s, x))
<1> DEFINE t == Append(s, x)
<1>1. /\ t \in Seq(S) /\ Len(t) = Len(s) + 1 /\ t[Len(s) + 1] = x /\ Len(s) \in Nat
      /\ \A i \in 1 .. Len(s) : t[i] = s[i]
  BY AppendProperties, LenProperties
<1> HIDE DEF t
<1>2. \A i \in 1 .. Len(t) : i \in 1 .. Len(s) \/ i = Len(s) + 1
  BY <1>1
<1>3. Len(s) + 1 \in 1 .. Len(t) /\ \A i \in 1 .. Len(s) : i \in 1 .. Len(t)
  BY <1>1
<1>4. ToSet(t) = {t[i] : i \in 1 .. Len(t)} /\ ToSet(s) = {s[i] : i \in 1 .. Len(s)}
  BY <1>1, Elements
<1>5. ToSet(t) = ToSet(s) \cup {x}
  <2>1. ToSet(t) \subseteq ToSet(s) \cup {x}
    BY <1>1, <1>2, <1>4
  <2>2. ToSet(s) \subseteq ToSet(t)
    BY <1>1, <1>3, <1>4
  <2>3. x \in ToSet(t)
    BY <1>1, <1>3, <1>4
  <2>4. QED
    BY <2>1, <2>2, <2>3
<1>6. ASSUME Unique(s), x \notin ToSet(s) PROVE Unique(t)
  <2> SUFFICES ASSUME NEW i \in 1 .. Len(t), NEW j \in 1 .. Len(t), t[i] = t[j] PROVE i = j
    BY DEF Unique
  <2>1. CASE i \in 1 .. Len(s) /\ j \in 1 .. Len(s)
    BY <1>1, <1>6, <2>1 DEF Unique
  <2>2. CASE i \in 1 .. Len(s) /\ j = Len(s) + 1
    BY <1>1, <1>4, <1>6, <2>2
  <2>3. CASE i = Len(s) + 1 /\ j \in 1 .. Len(s)
    BY <1>1, <1>4, <1>6, <2>3
  <2>4. QED
    BY <1>2, <2>1, <2>2, <2>3
<1>7. QED
  BY <1>1, <1>5, <1>6 DEF t

\* Taking from its end.
LEMMA FrontElements ==
  ASSUME NEW S, NEW s \in Seq(S), s # <<>>
  PROVE  /\ Front(s) \in Seq(S) /\ Len(Front(s)) = Len(s) - 1
         /\ \A i \in 1 .. Len(s) - 1 : Front(s)[i] = s[i]
         /\ Last(s) \in S /\ Last(s) = s[Len(s)]
         /\ ToSet(s) = ToSet(Front(s)) \cup {Last(s)}
         /\ Unique(s) => Unique(Front(s)) /\ Last(s) \notin ToSet(Front(s))
<1> DEFINE t == Front(s)
<1>1. Len(s) \in Nat /\ Len(s) >= 1 /\ \A i \in 1 .. Len(s) : s[i] \in S
  BY Elements, ElementOfSeq
<1>2. /\ t \in Seq(S) /\ Len(t) = Len(s) - 1
      /\ \A i \in 1 .. Len(s) - 1 : t[i] = s[i]
  <2>1. 1 \in Int /\ Len(s) - 1 \in Int /\ \A i \in 1 .. Len(s) - 1 : s[i] \in S
    BY <1>1
  <2>2. /\ SubSeq(s, 1, Len(s) - 1) \in Seq(S)
        /\ Len(SubSeq(s, 1, Len(s) - 1)) = IF 1 <= Len(s) - 1 THEN Len(s) - 1 - 1 + 1 ELSE 0
        /\ \A i \in 1 .. Len(s) - 1 - 1 + 1 : SubSeq(s, 1, Len(s) - 1)[i] = s[1 + i - 1]
    BY <2>1, SubSeqProperties
  <2>3. Len(s) - 1 - 1 + 1 = Len(s) - 1
        /\ \A i \in 1 .. Len(s) - 1 : 1 + i - 1 = i
        /\ (IF 1 <= Len(s) - 1 THEN Len(s) - 1 - 1 + 1 ELSE 0) = Len(s) - 1
    BY <1>1
  <2>4. t = SubSeq(s, 1, Len(s) - 1)
    BY DEF Front
  <2> HIDE DEF t
  <2>5. /\ t \in Seq(S) /\ Len(t) = Len(s) - 1
        /\ \A i \in 1 .. Len(s) - 1 : t[i] = s[1 + i - 1]
    BY <2>2, <2>3, <2>4
  <2>6. QED
    BY <2>3, <2>5
<1> HIDE DEF t
<1>3. \A i \in 1 .. Len(s) : i \in 1 .. Len(t) \/ i = Len(s)
  BY <1>1, <1>2
<1>4. Len(s) \in 1 .. Len(s) /\ \A i \in 1 .. Len(t) : i \in 1 .. Len(s) /\ i # Len(s)
  BY <1>1, <1>2
<1>5. ToSet(t) = {t[i] : i \in 1 .. Len(t)} /\ ToSet(s) = {s[i] : i \in 1 .. Len(s)}
  BY <1>2, Elements
<1>6. Last(s) = s[Len(s)] /\ Last(s) \in S
  BY <1>1 DEF Last
<1>7. ToSet(s) = ToSet(t) \cup {Last(s)}
  <2>1. ToSet(s) \subseteq ToSet(t) \cup {Last(s)}
    BY <1>2, <1>3, <1>5, <1>6
  <2>2. ToSet(t) \subseteq ToSet(s)
    BY <1>2, <1>4, <1>5
  <2>3. Last(s) \in ToSet(s)
    BY <1>4, <1>5, <1>6
  <2>4. QED
    BY <2>1, <2>2, <2>3
<1>8. ASSUME Unique(s) PROVE Unique(t) /\ Last(s) \notin ToSet(t)
  <2>1. Unique(t)
    BY <1>2, <1>4, <1>8 DEF Unique
  <2>2. \A i \in 1 .. Len(t) : t[i] # Last(s)
    BY <1>2, <1>4, <1>6, <1>8 DEF Unique
  <2>3. QED
    BY <1>5, <2>1, <2>2
<1>9. QED
  BY <1>2, <1>6, <1>7, <1>8 DEF t

\* Taking from its front.
LEMMA TailElements ==
  ASSUME NEW S, NEW s \in Seq(S), s # <<>>
  PROVE  /\ Tail(s) \in Seq(S) /\ Len(Tail(s)) = Len(s) - 1
         /\ \A i \in 1 .. Len(s) - 1 : Tail(s)[i] = s[i + 1]
         /\ Head(s) \in S /\ Head(s) = s[1] /\ 1 \in 1 .. Len(s)
         /\ ToSet(s) = ToSet(Tail(s)) \cup {Head(s)}
         /\ Unique(s) => Unique(Tail(s)) /\ Head(s) \notin ToSet(Tail(s))
<1> DEFINE t == Tail(s)
<1>1. Len(s) \in Nat /\ Len(s) >= 1
  BY Elements
<1>2. /\ t \in Seq(S) /\ Len(t) = Len(s) - 1 /\ Head(s) = s[1] /\ Head(s) \in S
      /\ \A i \in 1 .. Len(s) - 1 : t[i] = s[i + 1]
  BY HeadTailProperties
<1> HIDE DEF t
<1>3. \A i \in 1 .. Len(s) : i = 1 \/ (i - 1 \in 1 .. Len(t) /\ (i - 1) + 1 = i)
  BY <1>1, <1>2
<1>4. 1 \in 1 .. Len(s) /\ \A i \in 1 .. Len(t) : i + 1 \in 1 .. Len(s) /\ i + 1 # 1
  BY <1>1, <1>2
<1>5. ToSet(t) = {t[i] : i \in 1 .. Len(t)} /\ ToSet(s) = {s[i] : i \in 1 .. Len(s)}
  BY <1>2, Elements
<1>7. ToSet(s) = ToSet(t) \cup {Head(s)}
  <2>1. ASSUME NEW i \in 1 .. Len(s) PROVE s[i] \in ToSet(t) \cup {Head(s)}
    <3>1. CASE i = 1
      BY <1>2, <3>1
    <3>2. CASE i - 1 \in 1 .. Len(t) /\ (i - 1) + 1 = i
      <4>1. t[i - 1] = s[i]
        BY <1>2, <3>2
      <4>2. QED
        BY <1>5, <3>2, <4>1
    <3>3. QED
      BY <1>3, <3>1, <3>2
  <2>2. ToSet(t) \subseteq ToSet(s)
    BY <1>2, <1>4, <1>5
  <2>3. Head(s) \in ToSet(s)
    BY <1>2, <1>4, <1>5
  <2>4. QED
    BY <1>5, <2>1, <2>2, <2>3
<1>8. ASSUME Unique(s) PROVE Unique(t) /\ Head(s) \notin ToSet(t)
  <2>1. Unique(t)
    <3> SUFFICES ASSUME NEW i \in 1 .. Len(t), NEW j \in 1 .. Len(t), t[i] = t[j] PROVE i = j
      BY DEF Unique
    <3>1. i + 1 = j + 1
      BY <1>2, <1>4, <1>8 DEF Unique
    <3>2. QED
      BY <3>1
  <2>2. \A i \in 1 .. Len(t) : t[i] # Head(s)
    BY <1>2, <1>4, <1>8 DEF Unique
  <2>3. QED
    BY <1>5, <2>1, <2>2
<1>9. QED
  BY <1>2, <1>4, <1>7, <1>8 DEF t

\* It has as many elements as it is long, and the other way round.
LEMMA UniqueCounts ==
  ASSUME NEW S, NEW s \in Seq(S), Unique(s)
  PROVE  IsFiniteSet(ToSet(s)) /\ Cardinality(ToSet(s)) = Len(s)
<1>1. Len(s) \in Nat /\ ToSet(s) = {s[i] : i \in 1 .. Len(s)} /\ DOMAIN s = 1 .. Len(s)
  BY Elements
<1>2. s \in [1 .. Len(s) -> ToSet(s)]
  <2>1. s \in [1 .. Len(s) -> S]
    BY LenProperties
  <2>2. QED
    BY <1>1, <2>1
<1>3. s \in Bijection(1 .. Len(s), ToSet(s))
  <2>1. s \in Injection(1 .. Len(s), ToSet(s))
    BY <1>2 DEF Unique, Injection, IsInjective
  <2>2. \A x \in ToSet(s) : \E i \in 1 .. Len(s) : s[i] = x
    BY <1>1
  <2>3. QED
    BY <1>2, <2>1, <2>2 DEF Bijection, Surjection
<1>4. ExistsBijection(1 .. Len(s), ToSet(s))
  BY <1>3 DEF ExistsBijection
<1>5. QED
  BY <1>1, <1>4, FS_CountingElements, FS_NatBijection

\* Putting one after another.
LEMMA ConcatElements ==
  ASSUME NEW S, NEW s \in Seq(S), NEW t \in Seq(S)
  PROVE  /\ s \o t \in Seq(S) /\ Len(s \o t) = Len(s) + Len(t)
         /\ ToSet(s \o t) = ToSet(s) \cup ToSet(t)
         /\ Unique(s) /\ Unique(t) /\ ToSet(s) \cap ToSet(t) = {} => Unique(s \o t)
<1> DEFINE u == s \o t
<1>1. /\ u \in Seq(S) /\ Len(u) = Len(s) + Len(t) /\ Len(s) \in Nat /\ Len(t) \in Nat
      /\ \A i \in 1 .. Len(s) + Len(t) : u[i] = IF i <= Len(s) THEN s[i] ELSE t[i - Len(s)]
  BY ConcatProperties, LenProperties
<1> HIDE DEF u
<1>2. /\ ToSet(u) = {u[i] : i \in 1 .. Len(u)} /\ ToSet(s) = {s[i] : i \in 1 .. Len(s)}
      /\ ToSet(t) = {t[i] : i \in 1 .. Len(t)}
  BY <1>1, Elements
<1>3. \A i \in 1 .. Len(u) :
        \/ (i \in 1 .. Len(s) /\ u[i] = s[i])
        \/ (i > Len(s) /\ i - Len(s) \in 1 .. Len(t) /\ u[i] = t[i - Len(s)])
  <2> SUFFICES ASSUME NEW i \in 1 .. Len(u)
               PROVE  \/ (i \in 1 .. Len(s) /\ u[i] = s[i])
                      \/ (i > Len(s) /\ i - Len(s) \in 1 .. Len(t) /\ u[i] = t[i - Len(s)])
    OBVIOUS
  <2>1. i \in Nat /\ i >= 1 /\ i <= Len(s) + Len(t)
    BY <1>1
  <2>2. u[i] = IF i <= Len(s) THEN s[i] ELSE t[i - Len(s)]
    BY <1>1
  <2>3. CASE i <= Len(s)
    BY <1>1, <2>1, <2>2, <2>3
  <2>4. CASE i > Len(s)
    <3>1. i - Len(s) \in 1 .. Len(t)
      BY <1>1, <2>1, <2>4
    <3>2. u[i] = t[i - Len(s)]
      BY <1>1, <2>1, <2>2, <2>4
    <3>3. QED
      BY <2>4, <3>1, <3>2
  <2>5. QED
    BY <1>1, <2>1, <2>3, <2>4
<1>4. /\ \A i \in 1 .. Len(s) : i \in 1 .. Len(u) /\ u[i] = s[i]
      /\ \A i \in 1 .. Len(t) : i + Len(s) \in 1 .. Len(u) /\ u[i + Len(s)] = t[i]
  <2>1. \A i \in 1 .. Len(s) : i \in 1 .. Len(u) /\ u[i] = s[i]
    BY <1>1
  <2>2. ASSUME NEW i \in 1 .. Len(t) PROVE i + Len(s) \in 1 .. Len(u) /\ u[i + Len(s)] = t[i]
    <3>1. i + Len(s) \in 1 .. Len(s) + Len(t) /\ ~(i + Len(s) <= Len(s)) /\ (i + Len(s)) - Len(s) = i
      BY <1>1
    <3>2. QED
      BY <1>1, <3>1
  <2>3. QED
    BY <2>1, <2>2
<1>5. ToSet(u) = ToSet(s) \cup ToSet(t)
  <2>1. ToSet(u) \subseteq ToSet(s) \cup ToSet(t)
    BY <1>2, <1>3
  <2>2. ToSet(s) \subseteq ToSet(u) /\ ToSet(t) \subseteq ToSet(u)
    BY <1>2, <1>4
  <2>3. QED
    BY <2>1, <2>2
<1>6. ASSUME Unique(s), Unique(t), ToSet(s) \cap ToSet(t) = {} PROVE Unique(u)
  <2> SUFFICES ASSUME NEW i \in 1 .. Len(u), NEW j \in 1 .. Len(u), u[i] = u[j] PROVE i = j
    BY DEF Unique
  <2>1. CASE i \in 1 .. Len(s) /\ u[i] = s[i] /\ j \in 1 .. Len(s) /\ u[j] = s[j]
    BY <1>6, <2>1 DEF Unique
  <2>2. CASE i > Len(s) /\ i - Len(s) \in 1 .. Len(t) /\ u[i] = t[i - Len(s)]
             /\ j > Len(s) /\ j - Len(s) \in 1 .. Len(t) /\ u[j] = t[j - Len(s)]
    <3>1. i - Len(s) = j - Len(s)
      BY <1>6, <2>2 DEF Unique
    <3>2. QED
      BY <1>1, <3>1
  <2>3. CASE i \in 1 .. Len(s) /\ u[i] = s[i] /\ j - Len(s) \in 1 .. Len(t) /\ u[j] = t[j - Len(s)]
    <3>1. u[i] \in ToSet(s) /\ u[j] \in ToSet(t)
      BY <1>2, <2>3
    <3>2. QED
      BY <1>6, <3>1
  <2>4. CASE j \in 1 .. Len(s) /\ u[j] = s[j] /\ i - Len(s) \in 1 .. Len(t) /\ u[i] = t[i - Len(s)]
    <3>1. u[j] \in ToSet(s) /\ u[i] \in ToSet(t)
      BY <1>2, <2>4
    <3>2. QED
      BY <1>6, <3>1
  <2>5. QED
    BY <1>3, <2>1, <2>2, <2>3, <2>4
<1>7. QED
  BY <1>1, <1>5, <1>6 DEF u

-----------------------------------------------------------------------------
\* The receiver (Receiver).

(***************************************************************************)
(* The threads of a PacketEventHandler.                                    *)
(***************************************************************************)
\* A thread's flag follows where it is once its owner has set it for the first
\* time, and a notify is there only when the thread is about to end.
LoopsInv ==
  /\ handler \in {"new", "con1", "con2", "timer1", "up", "closing1", "half1", "closed",
                  "closing2", "half2", "gone"}
  /\ where \in [Loop -> {"none", "begin", "loop", "calling", "ending", "notified", "ended"}]
  /\ running \in [Loop -> BOOLEAN]
  /\ closedWait \in [Loop -> Nat]
  /\ handler = "new" => where["con"] = "none"
  /\ handler \in {"new", "con1", "con2"} => where["timer"] = "none"
  /\ handler # "new" => where["con"] \in {"begin", "loop", "ending", "ended"}
  /\ handler \notin {"new", "con1", "con2"} =>
       where["timer"] \in {"begin", "loop", "calling", "notified", "ended"}
  /\ handler \notin {"new", "con1"} => (running["con"] <=> where["con"] \in {"begin", "loop"})
  /\ handler \notin {"new", "con1", "con2", "timer1"} =>
       (running["timer"] <=> where["timer"] # "ended")
  /\ closedWait["con"] > 0 => where["con"] = "ended"
  /\ closedWait["timer"] > 0 => where["timer"] \in {"notified", "ended"}
  /\ shut => handler \notin {"new", "con1", "con2", "timer1", "up"}
  /\ where["con"] \in {"ending", "ended"} \/ where["timer"] \in {"notified", "ended"} => shut
  /\ handler \in {"half1", "closed", "closing2", "half2", "gone"} => where["con"] = "ended"
  /\ handler \in {"closed", "closing2", "half2", "gone"} => where["timer"] = "ended"

\* Datagrams are numbered as they come, wait in that order, and were handed on before
\* those that wait.
HandedInv ==
  /\ arrived \in Nat /\ socket \in Seq([kind : {"good", "bad", "error"}, n : Nat])
  /\ handed \in Seq(Nat)
  /\ \A i \in 1 .. Len(socket) : socket[i].n <= arrived
  /\ \A i \in 1 .. Len(handed) : handed[i] <= arrived
  /\ \A i, j \in 1 .. Len(socket) : i < j => socket[i].n < socket[j].n
  /\ \A i, j \in 1 .. Len(handed) : i < j => handed[i] < handed[j]
  /\ \A i \in 1 .. Len(handed), j \in 1 .. Len(socket) : handed[i] < socket[j].n

\* The ids up to nextChildId are those of objects that live and those that are free.
ChildIdInv ==
  /\ nextChildId \in Nat /\ childIdFreePool \subseteq 1 .. nextChildId
  /\ objId \in [Observer -> 0 .. nextChildId]
  /\ life \in [Observer -> {"unborn", "born", "attached", "detached"}]
  /\ \A o \in Observer : objId[o] = 0 <=> life[o] = "unborn"
  /\ \A o \in Observer : objId[o] \notin childIdFreePool
  /\ \A o, p \in Observer : objId[o] = objId[p] /\ objId[o] # 0 => o = p

\* Whoever is detached is not called in the next tick, and whoever is not attached yet
\* is nowhere.
ObserversInv ==
  /\ listner \subseteq Observer /\ added \subseteq Observer
  /\ remove \subseteq Observer /\ toCall \subseteq Observer
  /\ since \in [Observer -> {0, 1}]
  /\ \A o \in Observer :
       /\ life[o] \in {"unborn", "born"} => o \notin listner \cup added \cup remove \cup toCall
       /\ life[o] = "attached" => o \notin remove
       /\ life[o] = "detached" => o \notin (listner \ remove) \cup added
  /\ \A o \in toCall : since[o] = 0

\* The inductive invariant of the receiver.
RecvInv == LoopsInv /\ HandedInv /\ ChildIdInv /\ ObserversInv

\* Nothing was received yet.
LEMMA RecvInitInv == RecvInit => RecvInv
<1> SUFFICES ASSUME RecvInit PROVE RecvInv
  OBVIOUS
<1>1. LoopsInv
  BY DEF RecvInit, LoopsInv, Loop
<1>2. HandedInv
  BY EmptySeq DEF RecvInit, HandedInv
<1>3. ChildIdInv
  BY DEF RecvInit, ChildIdInv
<1>4. ObserversInv
  BY DEF RecvInit, ObserversInv
<1>5. QED
  BY <1>1, <1>2, <1>3, <1>4 DEF RecvInv

\* The owner and the two threads.
LEMMA LoopsKept ==
  ASSUME "slowEnd" \notin RecvFaults, LoopsInv, [RecvNext]_recvVars
  PROVE  LoopsInv'
<1> USE DEF Loop
<1>1. CASE StartHandler
  <2>1. CASE StartLoop("con", "new", "con1")
    BY <2>1 DEF LoopsInv, StartLoop, Handler
  <2>2. CASE MarkLoop("con", "con1", "con2")
    BY <2>2 DEF LoopsInv, MarkLoop, Handler
  <2>3. CASE StartLoop("timer", "con2", "timer1")
    BY <2>3 DEF LoopsInv, StartLoop, Handler
  <2>4. CASE MarkLoop("timer", "timer1", "up")
    BY <2>4 DEF LoopsInv, MarkLoop, Handler
  <2>5. QED
    BY <1>1, <2>1, <2>2, <2>3, <2>4 DEF StartHandler
<1>2. CASE CloseHandler
  BY <1>2 DEF LoopsInv, CloseHandler, Handler
<1>3. CASE AwaitLoops
  <2>1. CASE Await("con", "closing1", "half1")
    BY <2>1 DEF LoopsInv, Await, Handler
  <2>2. CASE Await("timer", "half1", "closed")
    BY <2>2 DEF LoopsInv, Await, Handler
  <2>3. CASE Await("con", "closing2", "half2")
    BY <2>3 DEF LoopsInv, Await, Handler
  <2>4. CASE Await("timer", "half2", "gone")
    BY <2>4 DEF LoopsInv, Await, Handler
  <2>5. QED
    BY <1>3, <2>1, <2>2, <2>3, <2>4 DEF AwaitLoops
<1>4. ASSUME NEW l \in Loop, BeginLoop(l) PROVE LoopsInv'
  BY <1>4 DEF LoopsInv, BeginLoop
<1>5. CASE SeeShutdown
  BY <1>5 DEF LoopsInv, SeeShutdown
<1>6. CASE EndListener
  <2>1. /\ where' = [where EXCEPT !["con"] = "ended"] /\ where["con"] = "ending"
        /\ closedWait' = [closedWait EXCEPT !["con"] = @ + 1]
        /\ UNCHANGED <<handler, running, shut>>
    BY <1>6 DEF EndListener
  <2>2. /\ closedWait' \in [Loop -> Nat] /\ closedWait'["timer"] = closedWait["timer"]
        /\ where'["timer"] = where["timer"]
        /\ where' \in [Loop -> {"none", "begin", "loop", "calling", "ending", "notified", "ended"}]
        /\ where'["con"] = "ended"
    BY <2>1 DEF LoopsInv
  <2>3. QED
    BY <2>1, <2>2 DEF LoopsInv
<1>7. CASE BeginTick
  BY <1>7 DEF LoopsInv, BeginTick
<1>8. CASE EndTick
  BY <1>8 DEF LoopsInv, EndTick
<1>9. CASE NotifyTimerEnd
  <2>1. /\ where' = [where EXCEPT !["timer"] = "notified"] /\ where["timer"] = "loop" /\ shut
        /\ closedWait' = [closedWait EXCEPT !["timer"] = @ + 1]
        /\ UNCHANGED <<handler, running, shut>>
    BY <1>9 DEF NotifyTimerEnd
  <2>2. /\ closedWait' \in [Loop -> Nat] /\ closedWait'["con"] = closedWait["con"]
        /\ where'["con"] = where["con"]
        /\ where' \in [Loop -> {"none", "begin", "loop", "calling", "ending", "notified", "ended"}]
        /\ where'["timer"] = "notified"
    BY <2>1 DEF LoopsInv
  <2>3. QED
    BY <2>1, <2>2 DEF LoopsInv
<1>10. CASE EndTimer
  BY <1>10 DEF LoopsInv, EndTimer
<1>11. ASSUME \/ Listen \/ \E o \in Observer : CallObserver(o)
              \/ \E kind \in {"good", "bad", "error"} : Arrive(kind)
              \/ \E o \in Observer : CreateObject(o) \/ AttachObserver(o) \/ DetachObserver(o)
                                     \/ DestroyObject(o)
              \/ UNCHANGED recvVars
       PROVE  LoopsInv'
  <2>1. UNCHANGED loopVars
    BY <1>11 DEF Listen, CallObserver, Arrive, CreateObject, AttachObserver, DetachObserver,
       DestroyObject, recvVars
  <2>2. QED
    BY <2>1 DEF LoopsInv, loopVars
<1>12. QED
  BY <1>1, <1>2, <1>3, <1>4, <1>5, <1>6, <1>7, <1>8, <1>9, <1>10, <1>11 DEF RecvNext, RecvRun

\* Numbers of datagrams are numbers.
LEMMA HandedTypes ==
  ASSUME HandedInv
  PROVE  /\ Len(socket) \in Nat /\ Len(handed) \in Nat
         /\ \A i \in 1 .. Len(socket) : socket[i].n \in Nat
         /\ \A i \in 1 .. Len(handed) : handed[i] \in Nat
<1>1. handed \in Seq(Nat) /\ socket \in Seq([kind : {"good", "bad", "error"}, n : Nat])
  BY DEF HandedInv
<1>2. Len(socket) \in Nat /\ Len(handed) \in Nat
  BY <1>1, LenProperties
<1>3. \A i \in 1 .. Len(handed) : handed[i] \in Nat
  BY <1>1, ElementOfSeq
<1>4. \A i \in 1 .. Len(socket) : socket[i] \in [kind : {"good", "bad", "error"}, n : Nat]
  BY <1>1, ElementOfSeq
<1>5. QED
  BY <1>2, <1>3, <1>4

\* Datagrams keep their order.
LEMMA HandedKept ==
  ASSUME HandedInv, [RecvNext]_recvVars
  PROVE  HandedInv'
<1> DEFINE Datagrams == [kind : {"good", "bad", "error"}, n : Nat]
<1>1. ASSUME NEW kind \in {"good", "bad", "error"}, Arrive(kind) PROVE HandedInv'
  <2> DEFINE new == [kind |-> kind, n |-> arrived + 1]
  <2>1. new \in Datagrams /\ arrived' = arrived + 1 /\ arrived' \in Nat
    BY <1>1 DEF Arrive, HandedInv
  <2>2. socket' = Append(socket, new) /\ handed' = handed
    BY <1>1 DEF Arrive
  <2>3. /\ socket' \in Seq(Datagrams) /\ Len(socket') = Len(socket) + 1
        /\ \A i \in 1 .. Len(socket) : socket'[i] = socket[i]
        /\ socket'[Len(socket) + 1] = new /\ Len(socket) \in Nat
    BY <2>1, <2>2, AppendProperties, LenProperties DEF HandedInv
  <2>4. \A i \in 1 .. Len(socket') : i \in 1 .. Len(socket) \/ i = Len(socket) + 1
    BY <2>3
  <2>10. \A i \in 1 .. Len(socket) : socket'[i].n <= arrived /\ socket'[i].n \in Nat
    BY <2>3, HandedTypes DEF HandedInv
  <2>11. socket'[Len(socket) + 1].n = arrived + 1 /\ arrived \in Nat
    BY <2>3 DEF HandedInv
  <2>5. \A i \in 1 .. Len(socket') : socket'[i].n <= arrived'
    BY <2>1, <2>4, <2>10, <2>11
  <2>6. \A i, j \in 1 .. Len(socket') : i < j => socket'[i].n < socket'[j].n
    <3> SUFFICES ASSUME NEW i \in 1 .. Len(socket'), NEW j \in 1 .. Len(socket'), i < j
                 PROVE  socket'[i].n < socket'[j].n
      OBVIOUS
    <3>1. i \in 1 .. Len(socket)
      BY <2>3
    <3>2. CASE j \in 1 .. Len(socket)
      BY <2>3, <3>1, <3>2 DEF HandedInv
    <3>3. CASE j = Len(socket) + 1
      BY <2>10, <2>11, <3>1, <3>3
    <3>4. QED
      BY <2>4, <3>2, <3>3
  <2>7. \A i \in 1 .. Len(handed') : handed'[i] <= arrived'
    BY <2>1, <2>2, HandedTypes DEF HandedInv
  <2>8. \A i \in 1 .. Len(handed'), j \in 1 .. Len(socket') : handed'[i] < socket'[j].n
    BY <2>1, <2>2, <2>3, <2>4, HandedTypes DEF HandedInv
  <2>9. QED
    BY <2>1, <2>2, <2>3, <2>5, <2>6, <2>7, <2>8 DEF HandedInv
<1>2. CASE Listen
  <2>1. socket # <<>> /\ socket \in Seq(Datagrams) /\ socket' = Tail(socket) /\ arrived' = arrived
    BY <1>2 DEF Listen, HandedInv
  <2>2. /\ socket' \in Seq(Datagrams) /\ Len(socket') = Len(socket) - 1 /\ Len(socket) \in Nat
        /\ \A i \in 1 .. Len(socket') : socket'[i] = socket[i + 1]
        /\ Head(socket) = socket[1] /\ Len(socket) >= 1
    BY <2>1, HeadTailProperties, LenProperties, EmptySeq
  <2>3. arrived \in Nat /\ Len(handed) \in Nat /\ \A i \in 1 .. Len(socket) : socket[i].n \in Nat
    BY HandedTypes DEF HandedInv
  <2>4. \A i \in 1 .. Len(socket') : i \in 1 .. Len(socket) /\ i + 1 \in 1 .. Len(socket)
    BY <2>2
  <2>5. \A i \in 1 .. Len(handed) : handed[i] \in Nat
    BY HandedTypes
  <2>6. CASE Head(socket).kind # "good"
    <3>1. handed' = handed
      BY <1>2, <2>6 DEF Listen
    <3>2. QED
      BY <2>1, <2>2, <2>3, <2>4, <2>5, <3>1 DEF HandedInv
  <2>7. CASE Head(socket).kind = "good"
    <3>1. handed' = Append(handed, socket[1].n) /\ socket[1].n \in Nat /\ handed \in Seq(Nat)
      BY <1>2, <2>2, <2>3, <2>7 DEF Listen, HandedInv
    <3>2. /\ handed' \in Seq(Nat) /\ Len(handed') = Len(handed) + 1 /\ Len(handed) \in Nat
          /\ \A i \in 1 .. Len(handed) : handed'[i] = handed[i]
          /\ handed'[Len(handed) + 1] = socket[1].n
      BY <3>1, AppendProperties, LenProperties
    <3>3. \A i \in 1 .. Len(handed') : i \in 1 .. Len(handed) \/ i = Len(handed) + 1
      BY <3>2
    <3>4. \A j \in 1 .. Len(socket') : socket[1].n < socket'[j].n /\ socket'[j].n <= arrived
      <4> SUFFICES ASSUME NEW j \in 1 .. Len(socket')
                   PROVE  socket[1].n < socket'[j].n /\ socket'[j].n <= arrived
        OBVIOUS
      <4>1. 1 \in 1 .. Len(socket) /\ j + 1 \in 1 .. Len(socket) /\ 1 < j + 1
        BY <2>2
      <4>2. socket'[j] = socket[j + 1]
        BY <2>2
      <4>3. QED
        BY <4>1, <4>2 DEF HandedInv
    <3>5. \A i \in 1 .. Len(handed) : handed[i] < socket[1].n
      BY <2>2 DEF HandedInv
    <3>55. 1 \in 1 .. Len(socket) /\ socket[1].n <= arrived
      BY <2>2 DEF HandedInv
    <3>6. \A i \in 1 .. Len(handed') : handed'[i] <= arrived
      BY <3>2, <3>3, <3>55 DEF HandedInv
    <3>7. \A i, j \in 1 .. Len(handed') : i < j => handed'[i] < handed'[j]
      <4> SUFFICES ASSUME NEW i \in 1 .. Len(handed'), NEW j \in 1 .. Len(handed'), i < j
                   PROVE  handed'[i] < handed'[j]
        OBVIOUS
      <4>1. i \in 1 .. Len(handed)
        BY <3>2
      <4>2. CASE j \in 1 .. Len(handed)
        BY <3>2, <4>1, <4>2 DEF HandedInv
      <4>3. CASE j = Len(handed) + 1
        BY <3>2, <3>5, <4>1, <4>3
      <4>4. QED
        BY <3>3, <4>2, <4>3
    <3>8. \A i \in 1 .. Len(handed'), j \in 1 .. Len(socket') : handed'[i] < socket'[j].n
      BY <2>2, <2>3, <2>4, <2>5, <3>2, <3>3, <3>4, <3>5 DEF HandedInv
    <3>9. \A i, j \in 1 .. Len(socket') : i < j => socket'[i].n < socket'[j].n
      <4> SUFFICES ASSUME NEW i \in 1 .. Len(socket'), NEW j \in 1 .. Len(socket'), i < j
                   PROVE  socket'[i].n < socket'[j].n
        OBVIOUS
      <4>1. i + 1 \in 1 .. Len(socket) /\ j + 1 \in 1 .. Len(socket) /\ i + 1 < j + 1
        BY <2>2, <2>4
      <4>2. socket'[i] = socket[i + 1] /\ socket'[j] = socket[j + 1]
        BY <2>2
      <4>3. QED
        BY <4>1, <4>2 DEF HandedInv
    <3>10. QED
      BY <2>1, <2>2, <3>2, <3>4, <3>6, <3>7, <3>8, <3>9 DEF HandedInv
  <2>8. QED
    BY <2>6, <2>7
<1>3. ASSUME UNCHANGED sockVars PROVE HandedInv'
  BY <1>3 DEF HandedInv, sockVars
<1>4. QED
  BY <1>1, <1>2, <1>3 DEF RecvNext, RecvRun, StartHandler, StartLoop, MarkLoop, CloseHandler,
     AwaitLoops, Await, BeginLoop, SeeShutdown, EndListener, BeginTick, CallObserver, EndTick,
     NotifyTimerEnd, EndTimer, CreateObject, AttachObserver, DetachObserver, DestroyObject,
     KeepRest, recvVars

\* Objects and their ids.
LEMMA ChildIdsKept ==
  ASSUME ChildIdInv, [RecvNext]_recvVars
  PROVE  ChildIdInv'
<1>1. ASSUME NEW o \in Observer, CreateObject(o) PROVE ChildIdInv'
  <2>1. PICK id : GetNextChildId(id) /\ objId' = [objId EXCEPT ![o] = id]
    BY <1>1 DEF CreateObject
  <2>2. life[o] = "unborn" /\ life' = [life EXCEPT ![o] = "born"]
    BY <1>1 DEF CreateObject
  <2>3. CASE childIdFreePool = {}
    BY <2>1, <2>2, <2>3 DEF ChildIdInv, GetNextChildId
  <2>4. CASE childIdFreePool # {}
    <3>1. id = Min(childIdFreePool) /\ childIdFreePool' = childIdFreePool \ {id}
          /\ nextChildId' = nextChildId
      BY <2>1, <2>4 DEF GetNextChildId
    <3>2. childIdFreePool \subseteq Nat
      BY DEF ChildIdInv
    <3>3. id \in childIdFreePool
      BY <2>4, <3>1, <3>2, LeastNumber DEF Min
    <3>4. id \in 1 .. nextChildId /\ \A p \in Observer : objId[p] # id
      BY <3>3 DEF ChildIdInv
    <3>5. objId' \in [Observer -> 0 .. nextChildId'] /\ objId'[o] = id
          /\ \A p \in Observer : p # o => objId'[p] = objId[p]
      BY <2>1, <3>1, <3>4 DEF ChildIdInv
    <3>9. id # 0
      BY <3>4 DEF ChildIdInv
    <3>6. nextChildId' \in Nat /\ childIdFreePool' \subseteq 1 .. nextChildId' /\ id # 0
      BY <3>1, <3>9 DEF ChildIdInv
    <3>7. \A p \in Observer : objId'[p] = 0 <=> life'[p] = "unborn"
      BY <2>2, <3>5, <3>6 DEF ChildIdInv
    <3>8. QED
      BY <2>2, <3>1, <3>4, <3>5, <3>6, <3>7 DEF ChildIdInv
  <2>5. QED
    BY <2>3, <2>4
<1>2. ASSUME NEW o \in Observer, AttachObserver(o) PROVE ChildIdInv'
  BY <1>2 DEF ChildIdInv, AttachObserver, idVars
<1>3. ASSUME NEW o \in Observer, DetachObserver(o) PROVE ChildIdInv'
  BY <1>3 DEF ChildIdInv, DetachObserver, idVars
<1>4. ASSUME NEW o \in Observer, DestroyObject(o) PROVE ChildIdInv'
  <2>1. /\ objId' = [objId EXCEPT ![o] = 0] /\ life' = [life EXCEPT ![o] = "unborn"]
        /\ childIdFreePool' = childIdFreePool \cup {objId[o]} /\ nextChildId' = nextChildId
        /\ life[o] = "detached"
    BY <1>4 DEF DestroyObject
  <2>2. objId[o] \in 1 .. nextChildId
    BY <2>1 DEF ChildIdInv
  <2>3. \A p \in Observer : objId'[p] \notin childIdFreePool'
    <3> SUFFICES ASSUME NEW p \in Observer PROVE objId'[p] \notin childIdFreePool'
      OBVIOUS
    <3>1. 0 \notin childIdFreePool'
      BY <2>1, <2>2 DEF ChildIdInv
    <3>2. CASE p = o
      BY <2>1, <3>1, <3>2 DEF ChildIdInv
    <3>3. CASE p # o
      BY <2>1, <2>2, <3>3 DEF ChildIdInv
    <3>4. QED
      BY <3>2, <3>3
  <2>4. objId' \in [Observer -> 0 .. nextChildId'] /\ objId'[o] = 0
        /\ \A p \in Observer : p # o => objId'[p] = objId[p]
    BY <2>1 DEF ChildIdInv
  <2>5. nextChildId' \in Nat /\ childIdFreePool' \subseteq 1 .. nextChildId'
    BY <2>1, <2>2 DEF ChildIdInv
  <2>6. /\ life' \in [Observer -> {"unborn", "born", "attached", "detached"}]
        /\ \A p \in Observer : objId'[p] = 0 <=> life'[p] = "unborn"
    BY <2>1, <2>4 DEF ChildIdInv
  <2>7. QED
    BY <2>3, <2>4, <2>5, <2>6 DEF ChildIdInv
<1>5. ASSUME UNCHANGED <<life, idVars>> PROVE ChildIdInv'
  BY <1>5 DEF ChildIdInv, idVars
<1>6. QED
  BY <1>1, <1>2, <1>3, <1>4, <1>5 DEF RecvNext, RecvRun, StartHandler, StartLoop, MarkLoop,
     CloseHandler, AwaitLoops, Await, BeginLoop, SeeShutdown, EndListener, BeginTick,
     CallObserver, EndTick, NotifyTimerEnd, EndTimer, Listen, Arrive, KeepRest, recvVars

\* The sets of the TimeOutProducer.
LEMMA ObserversKept ==
  ASSUME "earlyDetach" \notin RecvFaults, ChildIdInv, ObserversInv, [RecvNext]_recvVars
  PROVE  ObserversInv'
<1>1. ASSUME NEW o \in Observer, CreateObject(o) PROVE ObserversInv'
  BY <1>1 DEF ObserversInv, ChildIdInv, CreateObject, setVars
<1>2. ASSUME NEW o \in Observer, AttachObserver(o) PROVE ObserversInv'
  BY <1>2 DEF ObserversInv, ChildIdInv, AttachObserver
<1>3. ASSUME NEW o \in Observer, DetachObserver(o) PROVE ObserversInv'
  BY <1>3 DEF ObserversInv, ChildIdInv, DetachObserver
<1>4. ASSUME NEW o \in Observer, DestroyObject(o) PROVE ObserversInv'
  BY <1>4 DEF ObserversInv, ChildIdInv, DestroyObject, setVars
<1>5. CASE BeginTick
  BY <1>5 DEF ObserversInv, ChildIdInv, BeginTick
<1>6. ASSUME NEW o \in Observer, CallObserver(o) PROVE ObserversInv'
  BY <1>6 DEF ObserversInv, CallObserver, setVars
<1>7. ASSUME UNCHANGED <<life, setVars, toCall, since>> PROVE ObserversInv'
  BY <1>7 DEF ObserversInv, setVars
<1>8. QED
  BY <1>1, <1>2, <1>3, <1>4, <1>5, <1>6, <1>7 DEF RecvNext, RecvRun, StartHandler, StartLoop,
     MarkLoop, CloseHandler, AwaitLoops, Await, BeginLoop, SeeShutdown, EndListener, EndTick,
     NotifyTimerEnd, EndTimer, Listen, Arrive, KeepRest, recvVars

\* No step of a thread, an observer or the timer breaks the invariant.
LEMMA RecvStep ==
  ASSUME RecvFaults = {}
  PROVE  RecvInv /\ [RecvNext]_recvVars => RecvInv'
  BY LoopsKept, HandedKept, ChildIdsKept, ObserversKept DEF RecvInv

\* The invariant says what ReceiverSound does, and why.
LEMMA RecvImplied == RecvInv => ReceiverSound
<1> SUFFICES ASSUME RecvInv PROVE ReceiverSound
  OBVIOUS
<1>1. DOMAIN handed = 1 .. Len(handed)
  BY LenProperties DEF RecvInv, HandedInv
<1>2. QED
  BY <1>1 DEF RecvInv, LoopsInv, HandedInv, ChildIdInv, ObserversInv, ReceiverSound, Loop

\* The receiver hands every datagram to one thread and every packet to the channel it
\* names, with the observers it was told of, whatever order its threads run in
\* (Receiver.cc, MultiThreadedObservable.hh).
THEOREM ReceiverStaysSound ==
  ASSUME RecvFaults = {}
  PROVE  RecvSpec => []ReceiverSound
<1>1. RecvInv /\ [RecvNext]_recvVars => RecvInv'
  BY RecvStep
<1>2. QED
  BY <1>1, RecvInitInv, RecvImplied, PTL DEF RecvSpec

-----------------------------------------------------------------------------
\* The counter that is waited on (ToZeroCounter).

(***************************************************************************)
(* Threads that wait for a count of zero.                                  *)
(***************************************************************************)
IsAsleep == {v \in Waiter : waiter[v] = "asleep"}
WaiterPlaces == {"idle", "counted", "asleep", "returned"}

\* A wake-up that is pending was sent at zero, after everybody called who may take it.
CounterInv ==
  /\ counter \in Int /\ waiting \in Nat /\ zero \in [flag : Nat, sem : Nat]
  /\ waiter \in [Waiter -> WaiterPlaces]
  /\ \A v \in Waiter : waiter[v] = "returned" => v \in zeroSeen
  /\ zero.sem > 0 => \A v \in Waiter : waiter[v] \in {"counted", "asleep"} => v \in zeroSeen
  /\ IsFiniteSet(IsAsleep) /\ zero.flag + zero.sem = Cardinality(IsAsleep)

\* Nobody waits yet.
LEMMA CounterInitInv == CounterInit => CounterInv
<1> SUFFICES ASSUME CounterInit PROVE CounterInv
  OBVIOUS
<1>1. IsAsleep = {}
  BY DEF CounterInit, IsAsleep
<1>2. QED
  BY <1>1, FS_EmptySet DEF CounterInit, CounterInv, NobodyWaits, WaiterPlaces

\* No step of the counter breaks it, unless a thread comes between a wake-up and who it is for.
LEMMA CounterStep ==
  ASSUME "steal" \notin CounterFaults, CounterInv, [CounterNext]_counterVars PROVE CounterInv'
<1>0. /\ counter \in Int /\ waiting \in Nat /\ zero \in [flag : Nat, sem : Nat]
      /\ zero.flag \in Nat /\ zero.sem \in Nat
      /\ IsFiniteSet(IsAsleep) /\ zero.flag + zero.sem = Cardinality(IsAsleep)
  BY DEF CounterInv
<1>1. ASSUME NEW w \in Worker, CountUp(w) PROVE CounterInv'
  <2>1. counter' = counter + 1 /\ UNCHANGED <<waiting, zero, waiter, zeroSeen>>
    BY <1>1 DEF CountUp
  <2>2. IsAsleep' = IsAsleep
    BY <2>1 DEF IsAsleep
  <2>3. QED
    BY <1>0, <2>1, <2>2 DEF CounterInv
<1>2. ASSUME NEW w \in Worker, CountDown(w) PROVE CounterInv'
  <2>1. IsAsleep' = IsAsleep /\ UNCHANGED waiter /\ counter' = counter - 1
    BY <1>2 DEF IsAsleep, CountDown
  <2>2. CASE counter' = 0
    <3>1. /\ zero' = NotifyAll(waiting) /\ waiting' = 0
          /\ zeroSeen' = {v \in Waiter : waiter[v] # "idle"}
      BY <1>2, <2>2 DEF CountDown, AtZero
    <3>2. zero' \in [flag : Nat, sem : Nat] /\ zero'.flag + zero'.sem = zero.flag + zero.sem
      <4>1. PICK woken \in Nat : woken = (IF waiting < zero.flag THEN waiting ELSE zero.flag)
        BY <1>0
      <4>2. woken <= zero.flag
        BY <1>0, <4>1
      <4>3. zero' = [flag |-> zero.flag - woken, sem |-> zero.sem + woken]
        BY <3>1, <4>1 DEF NotifyAll
      <4>4. QED
        BY <1>0, <4>2, <4>3
    <3>3. \A v \in Waiter : waiter[v] # "idle" => v \in zeroSeen'
      BY <3>1
    <3>4. \A v \in Waiter : waiter'[v] \in {"counted", "asleep", "returned"} => v \in zeroSeen'
      BY <2>1, <3>3
    <3>5. QED
      BY <1>0, <2>1, <2>2, <3>1, <3>2, <3>4 DEF CounterInv
  <2>3. CASE counter' # 0
    <3>1. UNCHANGED <<zero, waiting, zeroSeen>>
      BY <1>2, <2>3 DEF CountDown, AtZero
    <3>2. QED
      BY <1>0, <2>1, <3>1 DEF CounterInv
  <2>4. QED
    BY <2>2, <2>3
<1>3. ASSUME NEW v \in Waiter, WaitForZero(v) PROVE CounterInv'
  <2>1. waiter[v] = "idle" /\ zero.sem = 0 /\ UNCHANGED <<counter, zero>>
    BY <1>3 DEF WaitForZero, Undisturbed
  <2>2. CASE counter = 0
    <3>1. /\ waiter' = [waiter EXCEPT ![v] = "returned"] /\ zeroSeen' = zeroSeen \cup {v}
          /\ UNCHANGED waiting
      BY <1>3, <2>2 DEF WaitForZero
    <3>2. IsAsleep' = IsAsleep
      BY <2>1, <3>1 DEF IsAsleep, CounterInv
    <3>3. QED
      BY <1>0, <2>1, <3>1, <3>2 DEF CounterInv, WaiterPlaces
  <2>3. CASE counter # 0
    <3>1. /\ waiter' = [waiter EXCEPT ![v] = "counted"] /\ waiting' = waiting + 1
          /\ UNCHANGED zeroSeen
      BY <1>3, <2>3 DEF WaitForZero
    <3>2. IsAsleep' = IsAsleep
      BY <2>1, <3>1 DEF IsAsleep, CounterInv
    <3>3. QED
      BY <1>0, <2>1, <3>1, <3>2 DEF CounterInv, WaiterPlaces
  <2>4. QED
    BY <2>2, <2>3
<1>4. ASSUME NEW v \in Waiter, AnnounceWait(v) PROVE CounterInv'
  <2>1. /\ waiter[v] = "counted" /\ waiter' = [waiter EXCEPT ![v] = "asleep"]
        /\ UNCHANGED <<counter, waiting, zeroSeen>>
    BY <1>4 DEF AnnounceWait
  <2>2. zero' \in [flag : Nat, sem : Nat] /\ zero'.flag = zero.flag + 1 /\ zero'.sem = zero.sem
    BY <1>0, <1>4 DEF AnnounceWait, Announce
  <2>3. IsAsleep' = IsAsleep \cup {v} /\ v \notin IsAsleep
    BY <2>1 DEF IsAsleep, CounterInv
  <2>4. IsFiniteSet(IsAsleep') /\ Cardinality(IsAsleep') = Cardinality(IsAsleep) + 1
    BY <1>0, <2>3, FS_AddElement
  <2>5. zero'.flag + zero'.sem = Cardinality(IsAsleep')
    BY <1>0, <2>2, <2>4
  <2>6. QED
    BY <1>0, <2>1, <2>2, <2>4, <2>5 DEF CounterInv, WaiterPlaces
<1>5. ASSUME NEW v \in Waiter, ReturnFromWait(v) PROVE CounterInv'
  <2>1. /\ waiter[v] = "asleep" /\ zero.sem > 0 /\ waiter' = [waiter EXCEPT ![v] = "returned"]
        /\ UNCHANGED <<counter, waiting, zeroSeen>>
    BY <1>5 DEF ReturnFromWait, Woken
  <2>2. zero' \in [flag : Nat, sem : Nat] /\ zero'.flag = zero.flag /\ zero'.sem = zero.sem - 1
    BY <1>0, <1>5, <2>1 DEF ReturnFromWait, Awake
  <2>3. IsAsleep' = IsAsleep \ {v} /\ v \in IsAsleep
    BY <2>1 DEF IsAsleep, CounterInv
  <2>4. IsFiniteSet(IsAsleep') /\ Cardinality(IsAsleep') = Cardinality(IsAsleep) - 1
    BY <1>0, <2>3, FS_RemoveElement
  <2>5. zero'.flag + zero'.sem = Cardinality(IsAsleep')
    BY <1>0, <2>2, <2>4
  <2>6. v \in zeroSeen
    BY <2>1 DEF CounterInv
  <2>7. QED
    BY <1>0, <2>1, <2>2, <2>4, <2>5, <2>6 DEF CounterInv, WaiterPlaces
<1>6. CASE UNCHANGED counterVars
  <2>1. UNCHANGED <<counter, waiting, zero, job, waiter, zeroSeen>>
    BY <1>6 DEF counterVars
  <2>2. IsAsleep' = IsAsleep
    BY <2>1 DEF IsAsleep
  <2>3. QED
    BY <1>0, <2>1, <2>2 DEF CounterInv
<1>7. QED
  BY <1>1, <1>2, <1>3, <1>4, <1>5, <1>6 DEF CounterNext

\* A waiter that came back was woken when the counter was zero.
LEMMA CounterImplied == CounterInv => ZeroWasSeen
  BY DEF CounterInv, ZeroWasSeen, IsAsleep

\* Whoever waits on a ToZeroCounter comes back after a moment at which it was zero,
\* unless a signal wakes another than it was meant for (ToZeroCounter.hh).
THEOREM ZeroIsSeen == ASSUME "steal" \notin CounterFaults PROVE CounterSpec => []ZeroWasSeen
<1>1. CounterSpec => []CounterInv
  BY CounterInitInv, CounterStep, PTL DEF CounterSpec
<1>2. QED
  BY <1>1, CounterImplied, PTL

-----------------------------------------------------------------------------
\* The buffer between a stream and its reader (CircularBuffer).

(***************************************************************************)
(* A byte stream in an array that grows and shrinks.                       *)
(***************************************************************************)
\* The capacities that doubling leads to, those of them that suffice, and the least.
Orbit(c) == {x \in Nat : \A S \in SUBSET Nat : c \in S /\ (\A y \in S : 2 * y \in S) => x \in S}
Enough(c, need) == {x \in Orbit(c) : x >= need}
LeastOf(T) == CHOOSE x \in T : \A y \in T : x <= y

\* The loop as a function of the capacity.
Doubles(at, need) == at = [c \in Nat \ {0} |-> IF c < need THEN at[2 * c] ELSE c]

\* Doubling goes on from every capacity it leads to.
LEMMA OrbitGoesOn ==
  ASSUME NEW c \in Nat \ {0}
  PROVE  /\ c \in Orbit(c) /\ Orbit(c) \subseteq Nat
         /\ \A x \in Orbit(c) : 2 * x \in Orbit(c) /\ x >= c
         /\ Orbit(c) = {c} \cup Orbit(2 * c)
<1>1. c \in Orbit(c) /\ Orbit(c) \subseteq Nat
  BY DEF Orbit
<1>2. \A d \in Nat : \A x \in Orbit(d) : 2 * x \in Orbit(d)
  <2> SUFFICES ASSUME NEW d \in Nat, NEW x \in Orbit(d) PROVE 2 * x \in Orbit(d)
    OBVIOUS
  <2>1. x \in Nat /\ 2 * x \in Nat
    BY DEF Orbit
  <2>2. ASSUME NEW S \in SUBSET Nat, d \in S, \A y \in S : 2 * y \in S PROVE 2 * x \in S
    <3>1. x \in S
      BY <2>2 DEF Orbit
    <3>2. QED
      BY <2>2, <3>1
  <2>3. QED
    BY <2>1, <2>2 DEF Orbit
<1>3. \A d \in Nat : \A x \in Orbit(d) : \A S \in SUBSET Nat : d \in S /\ (\A y \in S : 2 * y \in S) => x \in S
  BY DEF Orbit
<1>4. \A x \in Orbit(c) : x >= c
  <2>1. PICK S \in SUBSET Nat : S = {x \in Nat : x >= c}
    OBVIOUS
  <2>2. c \in S /\ \A y \in S : 2 * y \in S
    BY <2>1
  <2>3. QED
    BY <1>3, <2>1, <2>2
<1>5. 2 * c \in Nat /\ 2 * c \in Orbit(2 * c)
  BY DEF Orbit
<1>6. Orbit(2 * c) \subseteq Orbit(c)
  <2>1. Orbit(c) \in SUBSET Nat /\ 2 * c \in Orbit(c) /\ \A y \in Orbit(c) : 2 * y \in Orbit(c)
    BY <1>1, <1>2
  <2>2. QED
    BY <1>3, <1>5, <2>1
<1>7. Orbit(c) \subseteq {c} \cup Orbit(2 * c)
  <2>1. PICK S : S = {c} \cup Orbit(2 * c)
    OBVIOUS
  <2>2. S \in SUBSET Nat
    BY <2>1 DEF Orbit
  <2>3. \A y \in S : 2 * y \in S
    BY <1>2, <1>5, <2>1
  <2>4. QED
    BY <1>3, <2>1, <2>2, <2>3
<1>8. QED
  BY <1>1, <1>2, <1>4, <1>6, <1>7

\* So it comes to a capacity that suffices.
LEMMA OrbitReaches ==
  ASSUME NEW c \in Nat \ {0}, NEW need \in Nat
  PROVE  /\ Enough(c, need) \subseteq Nat
         /\ LeastOf(Enough(c, need)) \in Enough(c, need)
         /\ \A y \in Enough(c, need) : LeastOf(Enough(c, need)) <= y
<1>1. Enough(c, need) # {}
  <2> SUFFICES ASSUME Enough(c, need) = {} PROVE FALSE
    OBVIOUS
  <2>1. \A x \in Orbit(c) : x \in Nat /\ x < need /\ x >= c /\ 2 * x \in Orbit(c)
    BY OrbitGoesOn DEF Enough
  <2>2. PICK T : T = {need - x : x \in Orbit(c)}
    OBVIOUS
  <2>3. T \subseteq Nat /\ T # {}
    BY <2>1, <2>2, OrbitGoesOn
  <2>4. PICK n \in T : \A m \in T : n <= m
    BY <2>3, LeastNumber
  <2>5. PICK x \in Orbit(c) : n = need - x
    BY <2>2, <2>4
  <2>6. need - 2 * x \in T
    BY <2>1, <2>2
  <2>7. x \in Nat /\ x >= 1
    BY <2>1
  <2>8. QED
    BY <2>4, <2>5, <2>6, <2>7
<1>2. Enough(c, need) \subseteq Nat
  BY OrbitGoesOn DEF Enough
<1>3. \E x \in Enough(c, need) : \A y \in Enough(c, need) : x <= y
  BY <1>1, <1>2, LeastNumber
<1>4. QED
  BY <1>2, <1>3 DEF LeastOf

\* There is a function that doubles, and what it returns suffices.
LEMMA DoubledSuffices ==
  ASSUME NEW from \in Nat \ {0}, NEW need \in Nat
  PROVE  Doubled(from, need) \in Nat /\ Doubled(from, need) >= need /\ Doubled(from, need) >= from
<1>1. \E at : Doubles(at, need)
  <2>1. PICK g : g = [c \in Nat \ {0} |-> LeastOf(Enough(c, need))]
    OBVIOUS
  <2>2. ASSUME NEW c \in Nat \ {0}, c < need PROVE g[c] = g[2 * c]
    <3>1. Enough(c, need) = Enough(2 * c, need)
      BY <2>2, OrbitGoesOn DEF Enough
    <3>2. 2 * c \in Nat \ {0}
      OBVIOUS
    <3>3. QED
      BY <2>1, <3>1, <3>2
  <2>3. ASSUME NEW c \in Nat \ {0}, ~(c < need) PROVE g[c] = c
    <3>1. c \in Enough(c, need) /\ \A y \in Enough(c, need) : c <= y
      BY <2>3, OrbitGoesOn DEF Enough
    <3>2. LeastOf(Enough(c, need)) = c
      <4>1. PICK T : T = Enough(c, need)
        OBVIOUS
      <4>2. PICK x : x = LeastOf(T)
        OBVIOUS
      <4>3. T \subseteq Nat /\ x \in T /\ \A y \in T : x <= y
        BY <4>1, <4>2, OrbitReaches
      <4>4. c <= x /\ x <= c /\ x \in Nat
        BY <3>1, <4>1, <4>3
      <4>5. QED
        BY <4>1, <4>2, <4>4
    <3>3. QED
      BY <2>1, <3>2
  <2>4. g = [c \in Nat \ {0} |-> IF c < need THEN g[2 * c] ELSE c]
    BY <2>1, <2>2, <2>3
  <2>5. QED
    BY <2>4 DEF Doubles
<1>2. PICK at : at = CHOOSE h : Doubles(h, need)
  OBVIOUS
<1>3. Doubled(from, need) = at[from]
  BY <1>2 DEF Doubled, Doubles
<1>4. at = [c \in Nat \ {0} |-> IF c < need THEN at[2 * c] ELSE c]
  <2>1. Doubles(at, need)
    BY <1>1, <1>2, Zenon
  <2>2. QED
    BY <2>1 DEF Doubles
<1>5. PICK T : T = {d \in Nat : \E c \in Nat \ {0} : d = need - c /\ ~(at[c] \in Nat /\ at[c] >= need /\ at[c] >= c)}
  OBVIOUS
<1>6. ASSUME NEW c \in Nat \ {0}, ~(c < need) PROVE at[c] = c
  BY <1>4, <1>6
<1>7. ASSUME NEW c \in Nat \ {0}, c < need PROVE at[c] = at[2 * c]
  BY <1>4, <1>7
<1>8. T = {}
  <2> SUFFICES ASSUME T # {} PROVE FALSE
    OBVIOUS
  <2>1. PICK d \in T : \A m \in T : d <= m
    BY <1>5, LeastNumber
  <2>2. PICK c \in Nat \ {0} : d = need - c /\ d \in Nat /\ ~(at[c] \in Nat /\ at[c] >= need /\ at[c] >= c)
    BY <1>5, <2>1
  <2>3. c < need
    BY <1>6, <2>2
  <2>4. PICK b \in Nat \ {0} : b = 2 * c
    OBVIOUS
  <2>5. at[c] = at[b]
    BY <1>7, <2>3, <2>4
  <2>6. ~(at[b] \in Nat /\ at[b] >= need /\ at[b] >= b)
    BY <2>2, <2>4, <2>5
  <2>7. b < need
    BY <1>6, <2>6
  <2>8. need - b \in T
    BY <1>5, <2>6, <2>7
  <2>9. QED
    BY <2>1, <2>2, <2>4, <2>8
<1>9. at[from] \in Nat /\ at[from] >= need /\ at[from] >= from
  <2>1. CASE from < need
    <3>1. need - from \in Nat /\ need - from \notin T
      BY <1>8, <2>1
    <3>2. QED
      BY <1>5, <3>1
  <2>2. CASE ~(from < need)
    BY <1>6, <2>2
  <2>3. QED
    BY <2>1, <2>2
<1>10. QED
  BY <1>3, <1>9

\* What a copy leaves in an array.
IsCopied(after, dst, d, src, s, n) ==
  /\ DOMAIN after = DOMAIN dst
  /\ \A k \in 0 .. n - 1 : d + k \in DOMAIN dst => after[d + k] = src[s + k]
  /\ \A i \in DOMAIN dst : i \in Nat /\ i < d => after[i] = dst[i]

\* What memcpy leaves at each place, as a fact the provers can apply.
LEMMA CopiedAt ==
  ASSUME NEW dst, NEW d \in Nat, NEW src, NEW s \in Nat, NEW n \in Nat
  PROVE  IsCopied(Copied(dst, d, src, s, n), dst, d, src, s, n)
<1>1. ASSUME NEW k \in 0 .. n - 1, d + k \in DOMAIN dst PROVE Copied(dst, d, src, s, n)[d + k] = src[s + k]
  <2>1. d + k \in d .. d + n - 1 /\ s + (d + k) - d = s + k
    OBVIOUS
  <2>2. Copied(dst, d, src, s, n)[d + k] = src[s + (d + k) - d]
    BY <1>1, <2>1 DEF Copied
  <2>3. QED
    BY <2>1, <2>2
<1>2. QED
  BY <1>1 DEF Copied, IsCopied

\* The array from index b on holds the n bytes after the first ones.
HoldsBytes(array, b, first, n) == \A i \in 0 .. n - 1 : array[b + i] = first + i + 1

\* The inductive invariant of a CircularBuffer.
RingInv ==
  /\ capacity \in Nat \ {0} /\ begIndex \in Nat /\ size \in Nat /\ written \in Nat /\ wanted \in Nat
  /\ got \in Seq(Nat) /\ DOMAIN data = 0 .. capacity - 1
  /\ begIndex + size <= capacity
  /\ \A i \in 1 .. Len(got) : got[i] = i
  /\ Len(got) + size = written
  /\ HoldsBytes(data, begIndex, Len(got), size)

\* What the assumption on the constants says.
LEMMA RingConstants ==
  /\ MinCapacity \in Nat \ {0} /\ Chunk \subseteq Nat \ {0} /\ MaxBytes \in Nat
  BY CircularBufferAssumption DEF CircularBufferAssumption

\* The buffer is empty.
LEMMA RingInitInv == RingInit => RingInv
<1> SUFFICES ASSUME RingInit PROVE RingInv
  OBVIOUS
<1>1. DOMAIN data = 0 .. capacity - 1
  BY DEF RingInit, Blank
<1>2. <<>> \in Seq(Nat) /\ Len(<<>>) = 0
  BY EmptySeq
<1>3. QED
  BY <1>1, <1>2, RingConstants DEF RingInit, RingInv, HoldsBytes

\* A write behind bytes that are in order.
LEMMA WriteBehind ==
  ASSUME NEW array, NEW N \in Nat, DOMAIN array = 0 .. N - 1, NEW b \in Nat, NEW first \in Nat, NEW m \in Nat,
         NEW n \in Nat, HoldsBytes(array, b, first, m), b + m + n <= N, first + m = written
  PROVE  /\ DOMAIN Copied(array, b + m, New(n), 0, n) = 0 .. N - 1
         /\ HoldsBytes(Copied(array, b + m, New(n), 0, n), b, first, m + n)
<1>1. PICK after : after = Copied(array, b + m, New(n), 0, n)
  OBVIOUS
<1>2. b + m \in Nat
  OBVIOUS
<1>3. /\ DOMAIN after = 0 .. N - 1
      /\ \A k \in 0 .. n - 1 : (b + m) + k \in 0 .. N - 1 => after[(b + m) + k] = New(n)[0 + k]
      /\ \A i \in 0 .. N - 1 : i \in Nat /\ i < b + m => after[i] = array[i]
  <2>1. PICK d \in Nat : d = b + m
    BY <1>2
  <2>2. PICK source : source = New(n)
    OBVIOUS
  <2>3. 0 \in Nat /\ d \in Nat /\ n \in Nat
    OBVIOUS
  <2>4. IsCopied(Copied(array, d, source, 0, n), array, d, source, 0, n)
    BY ONLY <2>3, CopiedAt
  <2>5. after = Copied(array, d, source, 0, n)
    BY <1>1, <2>1, <2>2
  <2>6. QED
    BY <2>1, <2>2, <2>4, <2>5 DEF IsCopied
<1>4. ASSUME NEW i \in 0 .. (m + n) - 1 PROVE after[b + i] = first + i + 1
  <2>1. CASE i < m
    <3>1. i \in 0 .. m - 1 /\ b + i \in 0 .. N - 1 /\ b + i < b + m /\ b + i \in Nat
      BY <2>1
    <3>2. QED
      BY <1>3, <3>1 DEF HoldsBytes
  <2>2. CASE i >= m
    <3>1. PICK k \in 0 .. n - 1 : i = m + k
      <4>1. i - m \in 0 .. n - 1 /\ i = m + (i - m)
        BY <2>2
      <4>2. QED
        BY <4>1
    <3>2. (b + m) + k \in 0 .. N - 1 /\ (b + m) + k = b + i /\ 0 + k = k
      BY <3>1
    <3>3. after[b + i] = New(n)[k]
      BY <1>3, <3>2
    <3>4. New(n)[k] = written + k + 1
      BY DEF New
    <3>5. QED
      BY <3>1, <3>3, <3>4
  <2>3. QED
    BY <2>1, <2>2
<1>5. QED
  BY <1>1, <1>3, <1>4 DEF HoldsBytes

\* Bytes in order that are moved to the front of an array.
LEMMA MoveToFront ==
  ASSUME NEW dst, NEW N \in Nat, DOMAIN dst = 0 .. N - 1, NEW array, NEW b \in Nat, NEW first \in Nat,
         NEW m \in Nat, HoldsBytes(array, b, first, m), m <= N
  PROVE  /\ DOMAIN Copied(dst, 0, array, b, m) = 0 .. N - 1
         /\ HoldsBytes(Copied(dst, 0, array, b, m), 0, first, m)
<1>1. PICK after : after = Copied(dst, 0, array, b, m)
  OBVIOUS
<1>2. /\ DOMAIN after = 0 .. N - 1
      /\ \A k \in 0 .. m - 1 : 0 + k \in 0 .. N - 1 => after[0 + k] = array[b + k]
  <2>1. 0 \in Nat /\ b \in Nat /\ m \in Nat
    OBVIOUS
  <2>2. IsCopied(Copied(dst, 0, array, b, m), dst, 0, array, b, m)
    BY ONLY <2>1, CopiedAt
  <2>3. QED
    BY <1>1, <2>2 DEF IsCopied
<1>3. ASSUME NEW i \in 0 .. m - 1 PROVE after[0 + i] = first + i + 1
  <2>1. 0 + i \in 0 .. N - 1
    OBVIOUS
  <2>2. QED
    BY <1>2, <2>1 DEF HoldsBytes
<1>4. QED
  BY <1>1, <1>2, <1>3 DEF HoldsBytes

\* The array after a write: moved, grown or as it was.
LEMMA PutBytesHolds ==
  ASSUME RingInv, NEW n \in Nat, PutBytes(n), "overlap" \notin RingFaults
  PROVE  /\ capacity' \in Nat \ {0} /\ begIndex' \in Nat /\ DOMAIN data' = 0 .. capacity' - 1
         /\ begIndex' + (size + n) <= capacity'
         /\ HoldsBytes(data', begIndex', Len(got), size + n)
<1>0. /\ capacity \in Nat \ {0} /\ begIndex \in Nat /\ size \in Nat /\ written \in Nat
      /\ Len(got) \in Nat /\ DOMAIN data = 0 .. capacity - 1 /\ begIndex + size <= capacity
      /\ Len(got) + size = written /\ HoldsBytes(data, begIndex, Len(got), size)
  BY LenProperties DEF RingInv
<1>1. PICK first \in Nat : first = Len(got)
  BY <1>0
<1>2. CASE begIndex + size + n < capacity
  <2>1. data' = Copied(data, begIndex + size, New(n), 0, n) /\ UNCHANGED <<begIndex, capacity>>
    BY <1>2 DEF PutBytes
  <2>2. begIndex + size + n <= capacity
    BY <1>0, <1>2
  <2>3. /\ DOMAIN Copied(data, begIndex + size, New(n), 0, n) = 0 .. capacity - 1
        /\ HoldsBytes(Copied(data, begIndex + size, New(n), 0, n), begIndex, first, size + n)
    BY <1>0, <1>1, <2>2, WriteBehind
  <2>4. begIndex + (size + n) <= capacity
    BY <1>0, <2>2
  <2>5. QED
    BY <1>0, <1>1, <2>1, <2>3, <2>4
<1>3. CASE ~(begIndex + size + n < capacity) /\ size + n < capacity
  <2>1. data' = MovedData(n) /\ begIndex' = 0 /\ UNCHANGED capacity
    BY <1>3 DEF PutBytes
  <2>2. PICK front : front = Copied(data, 0, data, begIndex, size)
    OBVIOUS
  <2>3. DOMAIN front = 0 .. capacity - 1 /\ HoldsBytes(front, 0, first, size)
    <3>1. size <= capacity
      BY <1>0
    <3>2. QED
      BY <1>0, <1>1, <2>2, <3>1, MoveToFront
  <2>4. /\ DOMAIN Copied(front, 0 + size, New(n), 0, n) = 0 .. capacity - 1
        /\ HoldsBytes(Copied(front, 0 + size, New(n), 0, n), 0, first, size + n)
    <3>1. 0 + size + n <= capacity
      BY <1>0, <1>3
    <3>2. QED
      BY <1>0, <1>1, <2>3, <3>1, WriteBehind
  <2>5. data' = Copied(front, 0 + size, New(n), 0, n)
    <3>1. 0 + size = size
      BY <1>0
    <3>2. QED
      BY <2>1, <2>2, <3>1 DEF MovedData
  <2>6. 0 + (size + n) <= capacity
    BY <1>0, <1>3
  <2>7. QED
    BY <1>0, <1>1, <2>1, <2>4, <2>5, <2>6
<1>4. CASE ~(begIndex + size + n < capacity) /\ ~(size + n < capacity)
  <2>1. /\ capacity' = Doubled(capacity, size + n) /\ begIndex' = 0
        /\ data' = Copied(Copied(Blank(capacity'), 0, data, begIndex, size), size, New(n), 0, n)
    BY <1>4 DEF PutBytes
  <2>2. capacity' \in Nat \ {0} /\ capacity' >= size + n
    <3>1. size + n \in Nat
      BY <1>0
    <3>2. QED
      BY <1>0, <2>1, <3>1, DoubledSuffices
  <2>3. PICK N \in Nat \ {0} : N = capacity'
    BY <2>2
  <2>4. PICK front : front = Copied(Blank(N), 0, data, begIndex, size)
    OBVIOUS
  <2>5. DOMAIN front = 0 .. N - 1 /\ HoldsBytes(front, 0, first, size)
    <3>1. size <= N /\ DOMAIN Blank(N) = 0 .. N - 1
      BY <1>0, <2>2, <2>3 DEF Blank
    <3>2. QED
      BY <1>0, <1>1, <2>4, <3>1, MoveToFront
  <2>6. /\ DOMAIN Copied(front, 0 + size, New(n), 0, n) = 0 .. N - 1
        /\ HoldsBytes(Copied(front, 0 + size, New(n), 0, n), 0, first, size + n)
    <3>1. 0 + size + n <= N
      BY <1>0, <2>2, <2>3
    <3>2. QED
      BY <1>0, <1>1, <2>5, <3>1, WriteBehind
  <2>7. data' = Copied(front, 0 + size, New(n), 0, n)
    <3>1. 0 + size = size
      BY <1>0
    <3>2. QED
      BY <2>1, <2>3, <2>4, <3>1
  <2>8. 0 + (size + n) <= N
    BY <1>0, <2>2, <2>3
  <2>9. QED
    BY <1>1, <2>1, <2>3, <2>6, <2>7, <2>8
<1>5. QED
  BY <1>2, <1>3, <1>4

\* A read.
LEMMA TakeBytesHolds ==
  ASSUME RingInv, TakeBytes
  PROVE  RingInv'
<1>0. /\ capacity \in Nat \ {0} /\ begIndex \in Nat /\ size \in Nat /\ written \in Nat /\ wanted \in Nat
      /\ got \in Seq(Nat) /\ Len(got) \in Nat /\ DOMAIN data = 0 .. capacity - 1 /\ begIndex + size <= capacity
      /\ Len(got) + size = written /\ HoldsBytes(data, begIndex, Len(got), size)
      /\ \A i \in 1 .. Len(got) : got[i] = i
  BY LenProperties DEF RingInv
<1>1. PICK n \in Nat : n = (IF size < wanted THEN size ELSE wanted)
  BY <1>0
<1>2. n <= size
  BY <1>0, <1>1
<1>3. PICK bytes : bytes = [i \in 1 .. n |-> data[begIndex + i - 1]]
  OBVIOUS
<1>4. /\ got' = got \o bytes /\ size' = size - n
      /\ begIndex' = (IF ShrinkWhen(size - n) THEN 0 ELSE begIndex + n)
      /\ capacity' = (IF ShrinkWhen(size - n) THEN capacity \div 2 ELSE capacity)
      /\ data' = (IF ShrinkWhen(size - n) THEN Shrunk(begIndex + n, size - n) ELSE data)
      /\ UNCHANGED <<eof, waitToRead, wanted, written>>
  BY <1>1, <1>3 DEF TakeBytes
<1>5. \A i \in 1 .. n : bytes[i] = Len(got) + i
  <2> SUFFICES ASSUME NEW i \in 1 .. n PROVE bytes[i] = Len(got) + i
    OBVIOUS
  <2>1. i - 1 \in 0 .. size - 1 /\ begIndex + (i - 1) = begIndex + i - 1
    BY <1>0, <1>2
  <2>2. data[begIndex + (i - 1)] = Len(got) + (i - 1) + 1
    BY <1>0, <2>1 DEF HoldsBytes
  <2>3. QED
    BY <1>0, <1>3, <2>1, <2>2
<1>6. bytes \in Seq(Nat) /\ Len(bytes) = n
  <2>1. bytes \in [1 .. n -> Nat]
    <3>1. \A i \in 1 .. n : bytes[i] \in Nat
      BY <1>0, <1>5
    <3>2. QED
      BY <1>3, <3>1
  <2>2. bytes \in Seq(Nat)
    BY <2>1, SeqDef
  <2>3. QED
    BY <2>1, <2>2, LenProperties
<1>7. /\ got' \in Seq(Nat) /\ Len(got') = Len(got) + n /\ \A i \in 1 .. Len(got') : got'[i] = i
  <2>1. /\ got \o bytes \in Seq(Nat) /\ Len(got \o bytes) = Len(got) + Len(bytes)
        /\ \A i \in 1 .. Len(got) + Len(bytes) :
             (got \o bytes)[i] = IF i <= Len(got) THEN got[i] ELSE bytes[i - Len(got)]
    BY <1>0, <1>6, ConcatProperties
  <2>2. ASSUME NEW i \in 1 .. Len(got) + n PROVE got'[i] = i
    <3>1. got'[i] = IF i <= Len(got) THEN got[i] ELSE bytes[i - Len(got)]
      BY <1>4, <1>6, <2>1
    <3>2. CASE i <= Len(got)
      BY <1>0, <3>1, <3>2
    <3>3. CASE ~(i <= Len(got))
      <4>1. i - Len(got) \in 1 .. n /\ Len(got) + (i - Len(got)) = i
        BY <1>0, <3>3
      <4>2. QED
        BY <1>5, <3>1, <3>3, <4>1
    <3>4. QED
      BY <3>2, <3>3
  <2>3. QED
    BY <1>4, <1>6, <2>1, <2>2
<1>8. PICK left \in Nat : left = size - n
  BY <1>0, <1>2
<1>9. PICK b \in Nat : b = begIndex + n
  BY <1>0
<1>10. HoldsBytes(data, b, Len(got) + n, left) /\ b + left <= capacity
  <2>1. ASSUME NEW i \in 0 .. left - 1 PROVE data[b + i] = (Len(got) + n) + i + 1
    <3>1. n + i \in 0 .. size - 1 /\ begIndex + (n + i) = b + i
      BY <1>0, <1>2, <1>8, <1>9
    <3>2. data[begIndex + (n + i)] = Len(got) + (n + i) + 1
      BY <1>0, <3>1 DEF HoldsBytes
    <3>3. QED
      BY <1>0, <3>1, <3>2
  <2>2. QED
    BY <1>0, <1>2, <1>8, <1>9, <2>1 DEF HoldsBytes
<1>11. Len(got') + size' = written' /\ size' = left /\ size' \in Nat /\ written' \in Nat /\ wanted' \in Nat
  <2>1. size' = left /\ left \in Nat /\ written' = written /\ wanted' = wanted
    BY <1>4, <1>8
  <2>2. Len(got') + left = written
    <3>1. PICK before \in Nat, after \in Nat : before = Len(got) /\ after = Len(got')
      BY <1>0, <1>7
    <3>2. after = before + n /\ before + size = written /\ left = size - n /\ size \in Nat /\ n \in Nat
      BY <1>0, <1>7, <1>8, <3>1
    <3>3. after + left = written
      BY ONLY <3>1, <3>2, <2>1
    <3>4. QED
      BY <3>1, <3>3
  <2>3. QED
    BY <1>0, <2>1, <2>2
<1>12. CASE ~ShrinkWhen(size - n)
  BY <1>0, <1>4, <1>7, <1>8, <1>9, <1>10, <1>11, <1>12 DEF RingInv
<1>13. CASE ShrinkWhen(size - n)
  <2>1. /\ begIndex' = 0 /\ capacity' = capacity \div 2 /\ data' = Copied(Blank(capacity \div 2), 0, data, b, left)
    BY <1>4, <1>8, <1>9, <1>13 DEF Shrunk
  <2>2. capacity \div 4 > left /\ capacity \div 2 > MinCapacity
    BY <1>8, <1>13 DEF ShrinkWhen
  <2>3. PICK N \in Nat \ {0} : N = capacity \div 2 /\ left <= N
    <3>1. capacity \div 2 \in Nat /\ capacity \div 4 <= capacity \div 2
      BY <1>0
    <3>2. QED
      BY <1>0, <2>2, <3>1, RingConstants
  <2>4. DOMAIN Blank(N) = 0 .. N - 1
    BY DEF Blank
  <2>5. DOMAIN data' = 0 .. N - 1 /\ HoldsBytes(data', 0, Len(got) + n, left)
    <3>1. Len(got) + n \in Nat
      BY <1>0
    <3>2. QED
      BY <1>10, <2>1, <2>3, <2>4, <3>1, MoveToFront
  <2>6. QED
    BY <1>7, <1>11, <2>1, <2>3, <2>5 DEF RingInv
<1>14. QED
  BY <1>12, <1>13

\* No step of the buffer breaks it.
LEMMA RingStep ==
  ASSUME "overlap" \notin RingFaults, RingInv, [RingNext]_ringVars PROVE RingInv'
<1>1. ASSUME NEW n \in Chunk, Write(n) PROVE RingInv'
  <2>1. PutBytes(n) /\ size' = size + n /\ written' = written + n /\ UNCHANGED <<wanted, got>>
    BY <1>1 DEF Write
  <2>2. n \in Nat
    BY RingConstants
  <2>3. /\ capacity' \in Nat \ {0} /\ begIndex' \in Nat /\ DOMAIN data' = 0 .. capacity' - 1
        /\ begIndex' + (size + n) <= capacity'
        /\ HoldsBytes(data', begIndex', Len(got), size + n)
    BY <2>1, <2>2, PutBytesHolds
  <2>4. size + n \in Nat /\ written + n \in Nat /\ Len(got) + (size + n) = written + n
    BY <2>2, LenProperties DEF RingInv
  <2>5. QED
    BY <2>1, <2>3, <2>4 DEF RingInv
<1>2. CASE TakeBytes
  BY <1>2, TakeBytesHolds
<1>3. ASSUME NEW n \in Chunk, CallRead(n) PROVE RingInv'
  <2>1. UNCHANGED <<data, capacity, begIndex, size, written, got>> /\ wanted' = n /\ n \in Nat
    BY <1>3, RingConstants DEF CallRead, store
  <2>2. QED
    BY <2>1 DEF RingInv, HoldsBytes
<1>4. CASE SetEoF \/ FindNothing \/ Sleep \/ WakeReader \/ UNCHANGED ringVars
  <2>1. UNCHANGED <<data, capacity, begIndex, size, written, wanted, got>>
    BY <1>4 DEF SetEoF, FindNothing, Sleep, WakeReader, ringVars, store
  <2>2. QED
    BY <2>1 DEF RingInv, HoldsBytes
<1>5. QED
  BY <1>1, <1>2, <1>3, <1>4 DEF RingNext, ReaderRuns

\* What the reader has is the first of what was written.
LEMMA RingImplied == RingInv => BytesInOrder
<1> SUFFICES ASSUME RingInv PROVE BytesInOrder
  OBVIOUS
<1>1. got = [i \in 1 .. Len(got) |-> i]
  <2>1. got \in [1 .. Len(got) -> Nat] /\ \A i \in 1 .. Len(got) : got[i] = i
    BY LenProperties DEF RingInv
  <2>2. QED
    BY <2>1
<1>2. QED
  BY <1>1 DEF RingInv, BytesInOrder, HoldsBytes

\* What the reader of a CircularBuffer gets is what was written, in order, however
\* often the buffer grows or starts over (CircularBuffer.cc).
THEOREM BytesStayInOrder == ASSUME "overlap" \notin RingFaults PROVE RingSpec => []BytesInOrder
<1>1. RingSpec => []RingInv
  BY RingInitInv, RingStep, PTL DEF RingSpec
<1>2. QED
  BY <1>1, RingImplied, PTL

-----------------------------------------------------------------------------
\* The queue of the local flows (LLQueue).

(***************************************************************************)
(* A queue of elements that are linked through themselves.                 *)
(***************************************************************************)
Links == [Element -> Element \cup {Nil}]

\* The links lead from n through the elements of s and no further.
LeadsThrough(next, n, s) ==
  /\ s = <<>> => n = Nil
  /\ s # <<>> => n = s[1] /\ next[s[Len(s)]] = Nil
  /\ \A i \in 1 .. Len(s) - 1 : next[s[i]] = s[i + 1]

\* The walk along the links as a function of the number of steps.
Walks(at, next, n) ==
  at = [k \in 1 .. Cardinality(Element) + 1 |->
          IF k = 1 THEN n ELSE IF at[k - 1] = Nil THEN Nil ELSE next[at[k - 1]]]

\* What the assumption on the constants says.
LEMMA QueueConstants ==
  /\ MaxQueue \in Nat \ {0} /\ Nil \notin Element /\ IsFiniteSet(Element)
  /\ Cardinality(Element) \in Nat
  BY LLQueueAssumption, FS_CardinalityType DEF LLQueueAssumption

\* Where the walk is after each step, when the links lead through s.
LEMMA WalkAlong ==
  ASSUME NEW next, NEW n, NEW s \in Seq(Element), Unique(s), LeadsThrough(next, n, s)
  PROVE  /\ Len(s) \in 0 .. Cardinality(Element)
         /\ LET at == CHOOSE h : Walks(h, next, n)
            IN \A k \in 1 .. Cardinality(Element) + 1 : at[k] = IF k <= Len(s) THEN s[k] ELSE Nil
<1>1. PICK N \in Nat : N = Cardinality(Element)
  BY QueueConstants
<1>2. Len(s) \in Nat /\ Len(s) <= N /\ \A i \in 1 .. Len(s) : s[i] \in Element
  <2>1. Cardinality(ToSet(s)) = Len(s) /\ ToSet(s) \subseteq Element
    BY UniqueCounts, Elements
  <2>2. Cardinality(ToSet(s)) <= Cardinality(Element)
    BY <2>1, QueueConstants, FS_Subset
  <2>3. QED
    BY <1>1, <2>1, <2>2, LenProperties, ElementOfSeq
<1>3. \A i \in 1 .. Len(s) : s[i] # Nil
  BY <1>2, QueueConstants
<1>4. PICK g : g = [k \in 1 .. N + 1 |-> IF k <= Len(s) THEN s[k] ELSE Nil]
  OBVIOUS
<1>5. ASSUME NEW k \in 1 .. N + 1, k # 1
      PROVE  k - 1 \in 1 .. N + 1 /\ g[k] = IF g[k - 1] = Nil THEN Nil ELSE next[g[k - 1]]
  <2>1. k - 1 \in 1 .. N + 1 /\ k - 1 \in Nat
    BY <1>1, <1>5
  <2>2. CASE k <= Len(s)
    <3>1. PICK j \in 1 .. Len(s) - 1 : j = k - 1
      BY <1>2, <1>5, <2>1, <2>2
    <3>2. j + 1 = k /\ j \in 1 .. Len(s)
      BY <1>2, <3>1
    <3>3. next[s[j]] = s[k] /\ s[j] # Nil
      BY <1>3, <3>1, <3>2 DEF LeadsThrough
    <3>4. g[k] = s[k] /\ g[k - 1] = s[j]
      BY <1>4, <2>1, <2>2, <3>1, <3>2
    <3>5. QED
      BY <2>1, <3>3, <3>4
  <2>3. CASE k - 1 = Len(s)
    <3>1. Len(s) > 0 /\ Len(s) \in 1 .. Len(s)
      BY <1>2, <1>5, <2>3
    <3>2. s # <<>>
      BY <3>1, EmptySeq
    <3>3. next[s[Len(s)]] = Nil /\ s[Len(s)] # Nil
      BY <1>3, <3>1, <3>2 DEF LeadsThrough
    <3>4. g[k] = Nil /\ g[k - 1] = s[Len(s)]
      BY <1>2, <1>4, <2>1, <2>3
    <3>5. QED
      BY <2>1, <3>3, <3>4
  <2>4. CASE k - 1 > Len(s)
    <3>1. g[k] = Nil /\ g[k - 1] = Nil
      BY <1>2, <1>4, <2>1, <2>4
    <3>2. QED
      BY <2>1, <3>1
  <2>5. QED
    BY <1>2, <2>1, <2>2, <2>3, <2>4
<1>6. g[1] = n
  <2>1. CASE s = <<>>
    <3>1. Len(s) = 0 /\ n = Nil
      BY <2>1, EmptySeq DEF LeadsThrough
    <3>2. QED
      BY <1>1, <1>4, <3>1
  <2>2. CASE s # <<>>
    <3>1. Len(s) > 0 /\ n = s[1]
      BY <2>2, Elements DEF LeadsThrough
    <3>2. QED
      BY <1>1, <1>2, <1>4, <3>1
  <2>3. QED
    BY <2>1, <2>2
<1>7. Walks(g, next, n)
  <2>1. \A k \in 1 .. N + 1 :
          g[k] = IF k = 1 THEN n ELSE IF g[k - 1] = Nil THEN Nil ELSE next[g[k - 1]]
    BY <1>5, <1>6
  <2>2. g = [k \in 1 .. N + 1 |-> g[k]]
    BY <1>4
  <2>3. g = [k \in 1 .. N + 1 |->
               IF k = 1 THEN n ELSE IF g[k - 1] = Nil THEN Nil ELSE next[g[k - 1]]]
    BY ONLY <2>1, <2>2
  <2>4. QED
    BY <1>1, <2>3 DEF Walks
<1>8. PICK at : at = CHOOSE h : Walks(h, next, n)
  OBVIOUS
<1>9. Walks(at, next, n)
  BY <1>7, <1>8, Zenon
<1>10. at = [k \in 1 .. N + 1 |-> IF k = 1 THEN n ELSE IF at[k - 1] = Nil THEN Nil ELSE next[at[k - 1]]]
  BY <1>1, <1>9 DEF Walks
<1>11. PICK T : T = {k \in Nat : k \in 1 .. N + 1 /\ at[k] # g[k]}
  OBVIOUS
<1>12. T = {}
  <2> SUFFICES ASSUME T # {} PROVE FALSE
    OBVIOUS
  <2>1. PICK k \in T : \A m \in T : k <= m
    BY <1>11, LeastNumber
  <2>2. k \in 1 .. N + 1 /\ at[k] # g[k]
    BY <1>11, <2>1
  <2>3. k # 1
    BY <1>6, <1>10, <2>2
  <2>4. k - 1 \in 1 .. N + 1 /\ k - 1 \in Nat /\ k - 1 \notin T
    BY <1>1, <2>1, <2>2, <2>3
  <2>5. at[k - 1] = g[k - 1]
    BY <1>11, <2>4
  <2>6. at[k] = IF at[k - 1] = Nil THEN Nil ELSE next[at[k - 1]]
    BY <1>10, <2>2, <2>3
  <2>7. QED
    BY <1>5, <2>2, <2>3, <2>5, <2>6
<1>13. \A k \in 1 .. N + 1 : at[k] = g[k]
  BY <1>11, <1>12
<1>14. \A k \in 1 .. N + 1 : at[k] = IF k <= Len(s) THEN s[k] ELSE Nil
  BY <1>4, <1>13
<1>15. Len(s) \in 0 .. N
  BY <1>1, <1>2
<1>16. QED
  BY <1>1, <1>8, <1>14, <1>15

\* The walk finds the sequence that the links lead through.
LEMMA ChainFound ==
  ASSUME NEW next, NEW n, NEW s \in Seq(Element), Unique(s), LeadsThrough(next, n, s)
  PROVE  Chain(next, n) = s
<1>1. PICK N \in Nat : N = Cardinality(Element)
  BY QueueConstants
<1>2. PICK at : at = CHOOSE h : Walks(h, next, n)
  OBVIOUS
<1>3. Len(s) \in 0 .. N /\ \A k \in 1 .. N + 1 : at[k] = IF k <= Len(s) THEN s[k] ELSE Nil
  BY <1>1, <1>2, WalkAlong
<1>4. \A i \in 1 .. Len(s) : s[i] # Nil
  BY QueueConstants, ElementOfSeq, LenProperties
<1>5. PICK length : length = CHOOSE k \in 0 .. N : at[k + 1] = Nil /\ \A i \in 1 .. k : at[i] # Nil
  OBVIOUS
<1>6. at[Len(s) + 1] = Nil /\ \A i \in 1 .. Len(s) : at[i] # Nil
  <2>1. Len(s) + 1 \in 1 .. N + 1 /\ ~(Len(s) + 1 <= Len(s)) /\ \A i \in 1 .. Len(s) : i \in 1 .. N + 1 /\ i <= Len(s)
    BY <1>1, <1>3
  <2>2. QED
    BY <1>3, <1>4, <2>1
<1>7. length \in 0 .. N /\ at[length + 1] = Nil /\ \A i \in 1 .. length : at[i] # Nil
  BY <1>3, <1>5, <1>6
<1>8. length = Len(s)
  <2>1. CASE length < Len(s)
    <3>1. length + 1 \in 1 .. Len(s)
      BY <1>3, <1>7, <2>1
    <3>2. QED
      BY <1>6, <1>7, <3>1
  <2>2. CASE length > Len(s)
    <3>1. Len(s) + 1 \in 1 .. length
      BY <1>3, <1>7, <2>2
    <3>2. QED
      BY <1>6, <1>7, <3>1
  <2>3. QED
    BY <1>3, <1>7, <2>1, <2>2
<1>9. Chain(next, n) = [k \in 1 .. length |-> at[k]]
  BY <1>1, <1>2, <1>5 DEF Chain, Walks
<1>10. \A k \in 1 .. Len(s) : at[k] = s[k]
  BY <1>1, <1>3
<1>11. s = [k \in 1 .. Len(s) |-> s[k]]
  BY LenProperties
<1>12. QED
  BY <1>8, <1>9, <1>10, <1>11

\* Nothing changes for a sequence whose elements keep their links.
LEMMA LeadsStill ==
  ASSUME NEW next, NEW later, NEW n, NEW s \in Seq(Element), LeadsThrough(next, n, s),
         \A x \in ToSet(s) : later[x] = next[x]
  PROVE  LeadsThrough(later, n, s)
<1>1. /\ Len(s) \in Nat /\ \A i \in 1 .. Len(s) : s[i] \in ToSet(s)
      /\ s # <<>> => Len(s) > 0
  BY Elements
<1>2. s # <<>> => Len(s) \in 1 .. Len(s)
  BY <1>1
<1>3. \A i \in 1 .. Len(s) - 1 : i \in 1 .. Len(s)
  BY <1>1
<1>4. QED
  BY <1>1, <1>2, <1>3 DEF LeadsThrough

\* From the second element on they lead through the rest.
LEMMA LeadsOn ==
  ASSUME NEW next, NEW n, NEW s \in Seq(Element), LeadsThrough(next, n, s), s # <<>>
  PROVE  LeadsThrough(next, next[n], Tail(s)) /\ n = s[1] /\ (Tail(s) = <<>> <=> next[n] = Nil)
<1>1. PICK t : t = Tail(s)
  OBVIOUS
<1>2. /\ t \in Seq(Element) /\ Len(t) = Len(s) - 1 /\ \A i \in 1 .. Len(s) - 1 : t[i] = s[i + 1]
      /\ Len(s) \in Nat /\ Len(s) > 0
  BY <1>1, TailElements, Elements
<1>3. n = s[1] /\ next[s[Len(s)]] = Nil /\ \A i \in 1 .. Len(s) - 1 : next[s[i]] = s[i + 1]
  BY DEF LeadsThrough
<1>4. CASE Len(s) = 1
  <2>1. t = <<>> /\ next[n] = Nil
    BY <1>2, <1>3, <1>4, EmptySeq
  <2>2. \A i \in 1 .. Len(t) - 1 : FALSE
    BY <1>2, <1>4
  <2>3. QED
    BY <1>1, <1>3, <2>1, <2>2 DEF LeadsThrough
<1>5. CASE Len(s) > 1
  <2>1. 1 \in 1 .. Len(s) - 1 /\ Len(t) \in 1 .. Len(s) - 1 /\ Len(t) + 1 = Len(s) /\ 1 + 1 = 2
    BY <1>2, <1>5
  <2>2. t # <<>>
    BY <1>2, <1>5, EmptySeq
  <2>3. next[n] = t[1]
    <3>1. next[s[1]] = s[1 + 1] /\ t[1] = s[1 + 1]
      BY <1>2, <1>3, <2>1
    <3>2. QED
      BY <1>3, <3>1
  <2>4. t[Len(t)] = s[Len(s)]
    <3>1. t[Len(t)] = s[Len(t) + 1]
      BY <1>2, <2>1
    <3>2. QED
      BY <2>1, <3>1
  <2>5. ASSUME NEW i \in 1 .. Len(t) - 1 PROVE next[t[i]] = t[i + 1]
    <3>1. i \in 1 .. Len(s) - 1 /\ i + 1 \in 1 .. Len(s) - 1
      BY <1>2
    <3>2. t[i] = s[i + 1] /\ t[i + 1] = s[(i + 1) + 1] /\ next[s[i + 1]] = s[(i + 1) + 1]
      BY <1>2, <1>3, <3>1
    <3>3. QED
      BY <3>2
  <2>6. t[1] # Nil
    <3>1. t[1] \in Element
      BY <1>2, <2>1, ElementOfSeq
    <3>2. QED
      BY <3>1, QueueConstants
  <2>7. QED
    BY <1>1, <1>3, <2>2, <2>3, <2>4, <2>5, <2>6 DEF LeadsThrough
<1>6. QED
  BY <1>2, <1>4, <1>5

(***************************************************************************)
(* A queue and what is in it.                                              *)
(***************************************************************************)
QueueStates == [next : Links, beg : Element \cup {Nil}, end : Element \cup {Nil}, size : Nat]

\* The links of queue s are its elements o, and the end is the last of them.
InQueue(s, o) ==
  /\ s \in QueueStates /\ o \in Seq(Element) /\ Unique(o)
  /\ LeadsThrough(s.next, s.beg, o) /\ s.size = Len(o) /\ (o # <<>> => s.end = o[Len(o)])

\* add puts an element behind the others, and touches no links but its own and the last.
LEMMA LinkedBehindAll ==
  ASSUME NEW s, NEW o, InQueue(s, o), NEW n \in Element, n \notin ToSet(o)
  PROVE  /\ InQueue(Linked(s, n), Append(o, n))
         /\ \A x \in Element : x \notin ToSet(o) /\ x # n => Linked(s, n).next[x] = s.next[x]
<1>0. Nil \notin Element
  BY QueueConstants
<1>1. /\ o \in Seq(Element) /\ Len(o) \in Nat /\ s.next \in Links /\ s.size = Len(o)
      /\ \A i \in 1 .. Len(o) : o[i] \in ToSet(o) /\ o[i] \in Element
      /\ (o # <<>> <=> Len(o) > 0) /\ LeadsThrough(s.next, s.beg, o)
  BY Elements, ElementOfSeq DEF InQueue, QueueStates
<1>2. PICK t : t = Append(o, n)
  OBVIOUS
<1>3. /\ t \in Seq(Element) /\ Len(t) = Len(o) + 1 /\ Unique(t) /\ t[Len(o) + 1] = n
      /\ \A i \in 1 .. Len(o) : t[i] = o[i]
  BY <1>1, <1>2, AppendElements, AppendProperties DEF InQueue
<1>4. t # <<>>
  BY <1>1, <1>3, EmptySeq
<1>5. PICK nx, bb, ee, zz : nx = s.next /\ bb = s.beg /\ ee = s.end /\ zz = s.size
  OBVIOUS
<1>6. s = [next |-> nx, beg |-> bb, end |-> ee, size |-> zz] /\ nx \in Links /\ bb \in Element \cup {Nil}
      /\ ee \in Element \cup {Nil} /\ zz \in Nat
  BY <1>5 DEF InQueue, QueueStates
<1>7. CASE o = <<>>
  <2>1. bb = Nil /\ Len(o) = 0
    BY <1>5, <1>7, EmptySeq DEF InQueue, LeadsThrough
  <2>2. PICK nn \in Links : nn = [nx EXCEPT ![n] = Nil]
    BY <1>6 DEF Links
  <2>3. Linked(s, n) = [next |-> nn, beg |-> n, end |-> n, size |-> zz + 1]
    BY <1>6, <2>1, <2>2 DEF Linked
  <2>4. PICK r : r = Linked(s, n)
    OBVIOUS
  <2>5. r \in QueueStates /\ r.next = nn /\ r.beg = n /\ r.end = n /\ r.size = zz + 1
    BY <1>6, <2>2, <2>3, <2>4 DEF QueueStates
  <2>6. nn[n] = Nil /\ \A x \in Element : x # n => nn[x] = nx[x]
    BY <1>6, <2>2 DEF Links
  <2>7. Len(t) = 1 /\ t[1] = n
    BY <1>3, <2>1
  <2>8. LeadsThrough(nn, n, t)
    <3>1. \A i \in 1 .. Len(t) - 1 : FALSE
      BY <2>7
    <3>2. QED
      BY <1>4, <2>6, <2>7, <3>1 DEF LeadsThrough
  <2>9. InQueue(r, t)
    BY <1>1, <1>3, <1>5, <2>1, <2>5, <2>7, <2>8 DEF InQueue
  <2>10. QED
    BY <1>2, <1>5, <2>4, <2>5, <2>6, <2>9
<1>8. CASE o # <<>>
  <2>1. /\ Len(o) > 0 /\ Len(o) \in 1 .. Len(o) /\ 1 \in 1 .. Len(o)
        /\ bb = o[1] /\ ee = o[Len(o)] /\ bb # Nil /\ ee \in Element /\ ee # n /\ ee \in ToSet(o)
    BY <1>0, <1>1, <1>5, <1>8 DEF InQueue, LeadsThrough
  <2>2. PICK nn \in Links : nn = [[nx EXCEPT ![n] = Nil] EXCEPT ![ee] = n]
    BY <1>6, <2>1 DEF Links
  <2>3. Linked(s, n) = [next |-> nn, beg |-> bb, end |-> n, size |-> zz + 1]
    BY <1>6, <2>1, <2>2 DEF Linked
  <2>4. PICK r : r = Linked(s, n)
    OBVIOUS
  <2>5. r \in QueueStates /\ r.next = nn /\ r.beg = bb /\ r.end = n /\ r.size = zz + 1
    BY <1>6, <2>2, <2>3, <2>4 DEF QueueStates
  <2>6. nn[n] = Nil /\ nn[ee] = n /\ \A x \in Element : x # n /\ x # ee => nn[x] = nx[x]
    BY <1>6, <2>1, <2>2 DEF Links
  <2>7. bb = t[1]
    BY <1>3, <2>1
  <2>8. ASSUME NEW i \in 1 .. Len(t) - 1 PROVE nn[t[i]] = t[i + 1]
    <3>1. i \in 1 .. Len(o) /\ t[i] = o[i] /\ o[i] \in Element /\ o[i] # n
      BY <1>1, <1>3
    <3>2. CASE i = Len(o)
      BY <1>3, <2>1, <2>6, <3>1, <3>2
    <3>3. CASE i # Len(o)
      <4>1. i \in 1 .. Len(o) - 1 /\ i + 1 \in 1 .. Len(o)
        BY <1>1, <3>1, <3>3
      <4>2. o[i] # ee
        BY <2>1, <3>1, <3>3 DEF InQueue, Unique
      <4>3. nn[o[i]] = nx[o[i]] /\ nx[o[i]] = o[i + 1] /\ t[i + 1] = o[i + 1]
        BY <1>1, <1>3, <1>5, <2>6, <3>1, <4>1, <4>2 DEF LeadsThrough
      <4>4. QED
        BY <3>1, <4>3
    <3>4. QED
      BY <3>2, <3>3
  <2>9. LeadsThrough(nn, bb, t)
    BY <1>3, <1>4, <2>6, <2>7, <2>8 DEF LeadsThrough
  <2>10. InQueue(r, t)
    BY <1>1, <1>3, <1>5, <2>5, <2>9 DEF InQueue
  <2>11. QED
    BY <1>2, <1>5, <2>1, <2>4, <2>5, <2>6, <2>10
<1>9. QED
  BY <1>7, <1>8

\* Taking the first one.
AfterFirst(s, rest) == [s EXCEPT !.beg = rest, !.end = IF rest = Nil THEN Nil ELSE @, !.size = @ - 1]

\* A queue whose first element was taken holds the rest of its elements.
LEMMA FirstTaken ==
  ASSUME NEW s, NEW o, InQueue(s, o), s.beg # Nil, NEW rest, rest = s.next[s.beg],
         NEW r, r = AfterFirst(s, rest)
  PROVE  /\ o # <<>> /\ s.beg = o[1] /\ s.beg \in Element /\ InQueue(r, Tail(o)) /\ r.next = s.next
         /\ r.size = s.size - 1
<1>0. Nil \notin Element
  BY QueueConstants
<1>1. /\ o \in Seq(Element) /\ Len(o) \in Nat /\ s.next \in Links /\ s.size = Len(o)
      /\ LeadsThrough(s.next, s.beg, o)
  BY Elements DEF InQueue, QueueStates
<1>2. o # <<>>
  BY <1>1 DEF LeadsThrough
<1>3. /\ LeadsThrough(s.next, rest, Tail(o)) /\ s.beg = o[1] /\ (Tail(o) = <<>> <=> rest = Nil)
  BY <1>1, <1>2, LeadsOn
<1>4. /\ Tail(o) \in Seq(Element) /\ Len(Tail(o)) = Len(o) - 1 /\ Unique(Tail(o)) /\ 1 \in 1 .. Len(o)
      /\ \A i \in 1 .. Len(o) - 1 : Tail(o)[i] = o[i + 1]
  BY <1>1, <1>2, TailElements DEF InQueue
<1>5. o[1] \in Element /\ Len(o) > 0
  BY <1>1, <1>2, <1>4, Elements, ElementOfSeq
<1>6. rest \in Element \cup {Nil}
  BY <1>1, <1>3, <1>5 DEF Links
<1>7. PICK nx, bb, ee, zz : nx = s.next /\ bb = s.beg /\ ee = s.end /\ zz = s.size
  OBVIOUS
<1>8. s = [next |-> nx, beg |-> bb, end |-> ee, size |-> zz] /\ nx \in Links /\ bb \in Element \cup {Nil}
      /\ ee \in Element \cup {Nil} /\ zz \in Nat /\ zz > 0
  BY <1>1, <1>5, <1>7 DEF InQueue, QueueStates
<1>9. PICK last \in Element \cup {Nil} : last = IF rest = Nil THEN Nil ELSE ee
  BY <1>8
<1>10. r = [next |-> nx, beg |-> rest, end |-> last, size |-> zz - 1]
  BY <1>8, <1>9 DEF AfterFirst
<1>11. r \in QueueStates /\ r.next = nx /\ r.beg = rest /\ r.end = last /\ r.size = zz - 1
  <2>1. PICK z \in Nat : z = zz - 1
    BY <1>8
  <2>2. r = [next |-> nx, beg |-> rest, end |-> last, size |-> z]
    BY <1>10, <2>1
  <2>3. QED
    BY <1>6, <1>8, <1>9, <2>1, <2>2 DEF QueueStates
<1>12. Tail(o) # <<>> => r.end = Tail(o)[Len(Tail(o))]
  <2> SUFFICES ASSUME Tail(o) # <<>> PROVE r.end = Tail(o)[Len(Tail(o))]
    OBVIOUS
  <2>1. Len(Tail(o)) \in 1 .. Len(o) - 1 /\ Len(Tail(o)) + 1 = Len(o)
    BY <1>1, <1>4, Elements
  <2>2. Tail(o)[Len(Tail(o))] = o[Len(Tail(o)) + 1]
    BY <1>4, <2>1
  <2>3. ee = o[Len(o)]
    BY <1>2, <1>7 DEF InQueue
  <2>4. QED
    BY <1>3, <1>9, <1>11, <2>1, <2>2, <2>3
<1>13. QED
  BY <1>1, <1>2, <1>3, <1>4, <1>5, <1>7, <1>11, <1>12 DEF InQueue

(***************************************************************************)
(* The queue, who adds to it, and who takes from it.                       *)
(***************************************************************************)
ConsumerStates == [pc : {"idle", "looked", "notify", "notifyAll", "walk"}, head : Element \cup {Nil},
                   owed : Nat, due : Seq(Element)]

\* Which values the variables of an AppLLQueue have.
QueueTypes ==
  /\ maxQueueSize \in {0, MaxQueue} /\ limitQueueSize \in Nat
  /\ producer \in [Producer -> Element \cup {Nil}] /\ consumer \in [Consumer -> ConsumerStates]

\* What a consumer took is what it finds along the links, once it has cut them.
ConsumersInv ==
  \A c \in Consumer :
    /\ Unique(consumer[c].due)
    /\ consumer[c].pc \in {"idle", "looked"} =>
         consumer[c].head = Nil /\ consumer[c].owed = 0 /\ consumer[c].due = <<>>
    /\ consumer[c].pc = "notify" => consumer[c].due = <<consumer[c].head>> /\ consumer[c].head \in Element
    /\ consumer[c].pc \in {"notifyAll", "walk"} => LeadsThrough(q.next, consumer[c].head, consumer[c].due)
    /\ consumer[c].pc = "walk" => consumer[c].owed = 0

\* An element is in the queue, or somebody has it.
ApartInv ==
  /\ \A p \in Producer : producer[p] \notin ToSet(order)
  /\ \A p, r \in Producer : producer[p] = producer[r] /\ producer[p] # Nil => p = r
  /\ \A p \in Producer, c \in Consumer : producer[p] \notin ToSet(consumer[c].due)
  /\ \A c \in Consumer : ToSet(consumer[c].due) \cap ToSet(order) = {}
  /\ \A c, d \in Consumer : c # d => ToSet(consumer[c].due) \cap ToSet(consumer[d].due) = {}

\* A place of a queue with a limit is free, taken, or about to be given back.
Adding == {p \in Producer : producer[p] # Nil}
RoomInv ==
  /\ IsFiniteSet(Adding) /\ IsFiniteSet(Owing)
  /\ maxQueueSize > 0 => limitQueueSize + q.size + Cardinality(Adding) + Cardinality(Owing) = MaxQueue

\* The inductive invariant of an AppLLQueue.
QueueInv == QueueTypes /\ InQueue(q, order) /\ ConsumersInv /\ ApartInv /\ RoomInv

\* The queue is empty.
LEMMA QueueInitInv == QueueInit => QueueInv
<1> SUFFICES ASSUME QueueInit PROVE QueueInv
  OBVIOUS
<1> USE QueueConstants
<1>1. <<>> \in Seq(Element) /\ Len(<<>>) = 0 /\ ToSet(<<>>) = {} /\ Unique(<<>>)
  BY EmptySeq DEF ToSet, Unique
<1>2. Resting \in ConsumerStates /\ Resting.pc = "idle" /\ Resting.head = Nil /\ Resting.owed = 0 /\ Resting.due = <<>>
  BY <1>1 DEF Resting, ConsumerStates
<1>3. \A c \in Consumer : consumer[c] = Resting
  BY DEF QueueInit
<1>4. QueueTypes
  BY <1>2 DEF QueueInit, QueueTypes
<1>5. InQueue(q, order)
  <2>1. q = [next |-> [n \in Element |-> Nil], beg |-> Nil, end |-> Nil, size |-> 0] /\ order = <<>>
    BY DEF QueueInit
  <2>2. q \in QueueStates /\ q.beg = Nil /\ q.size = 0
    BY <2>1 DEF QueueStates, Links
  <2>3. LeadsThrough(q.next, q.beg, order)
    BY <1>1, <2>1, <2>2 DEF LeadsThrough
  <2>4. QED
    BY <1>1, <2>1, <2>2, <2>3 DEF InQueue
<1>6. ConsumersInv
  BY <1>1, <1>2, <1>3 DEF ConsumersInv
<1>7. ApartInv
  BY <1>1, <1>2, <1>3 DEF ApartInv, QueueInit
<1>8. Adding = {}
  BY DEF Adding, QueueInit
<1>9. Owing = {}
  <2>1. \A c \in Consumer : {c} \X (1 .. consumer[c].owed) = {}
    BY <1>2, <1>3
  <2>2. QED
    BY <2>1 DEF Owing
<1>10. RoomInv
  BY <1>8, <1>9, FS_EmptySet DEF RoomInv, QueueInit
<1>11. QED
  BY <1>4, <1>5, <1>6, <1>7, <1>10 DEF QueueInv

\* What changes with one consumer.
Becomes(c, r) ==
  /\ consumer' \in [Consumer -> ConsumerStates] /\ consumer'[c] = r
  /\ \A d \in Consumer : d # c => consumer'[d] = consumer[d]

\* A consumer that changes leaves the others as they were.
LEMMA ConsumerBecomes ==
  ASSUME QueueTypes, NEW c \in Consumer, NEW r \in ConsumerStates, consumer' = [consumer EXCEPT ![c] = r]
  PROVE  Becomes(c, r)
  BY DEF QueueTypes, Becomes

\* What is owed then.
LEMMA OwingPairs ==
  ASSUME QueueTypes
  PROVE  \A x : x \in Owing <=> \E c \in Consumer : \E i \in 1 .. consumer[c].owed : x = <<c, i>>
  BY DEF Owing

\* Nothing is owed more when a consumer keeps what it owes.
LEMMA OwingSame ==
  ASSUME NEW c \in Consumer, NEW r, Becomes(c, r), r.owed = consumer[c].owed
  PROVE  Owing' = Owing
<1>1. \A d \in Consumer : consumer'[d].owed = consumer[d].owed
  BY DEF Becomes
<1>2. QED
  BY <1>1 DEF Owing

\* A consumer that takes elements owes as many notifications of room.
LEMMA OwingMore ==
  ASSUME QueueTypes, IsFiniteSet(Owing), NEW c \in Consumer, NEW r \in ConsumerStates, Becomes(c, r),
         consumer[c].owed = 0
  PROVE  IsFiniteSet(Owing') /\ Cardinality(Owing') = Cardinality(Owing) + r.owed
<1>1. PICK k \in Nat : k = r.owed
  BY DEF ConsumerStates
<1>2. PICK new : new = {c} \X (1 .. k)
  OBVIOUS
<1>3. IsFiniteSet(new) /\ Cardinality(new) = k
  <2>1. IsFiniteSet({c}) /\ Cardinality({c}) = 1
    BY FS_Singleton
  <2>2. IsFiniteSet(1 .. k) /\ Cardinality(1 .. k) = k
    BY FS_Interval
  <2>3. IsFiniteSet({c} \X (1 .. k)) /\ Cardinality({c} \X (1 .. k)) = Cardinality({c}) * Cardinality(1 .. k)
    BY ONLY <2>1, <2>2, FS_Product
  <2>4. QED
    BY <1>2, <2>1, <2>2, <2>3
<1>4. Owing' = Owing \cup new
  <2>1. \A d \in Consumer : d # c => {d} \X (1 .. consumer'[d].owed) = {d} \X (1 .. consumer[d].owed)
    BY DEF Becomes
  <2>2. {c} \X (1 .. consumer[c].owed) = {} /\ {c} \X (1 .. consumer'[c].owed) = new
    BY <1>1, <1>2 DEF Becomes
  <2>3. \A x : x \in Owing' <=> \E d \in Consumer : x \in {d} \X (1 .. consumer'[d].owed)
    BY DEF Owing
  <2>4. \A x : x \in Owing <=> \E d \in Consumer : x \in {d} \X (1 .. consumer[d].owed)
    BY DEF Owing
  <2>5. \A x : x \in Owing' <=> x \in Owing \cup new
    BY <2>1, <2>2, <2>3, <2>4
  <2>6. QED
    BY <2>5
<1>5. Owing \cap new = {}
  <2>1. \A x \in Owing : \E d \in Consumer : d # c /\ x \in {d} \X (1 .. consumer[d].owed)
    BY DEF Owing
  <2>2. \A x \in Owing : x \notin new
    BY <1>2, <2>1
  <2>3. QED
    BY <2>2
<1>6. PICK a : a = Owing
  OBVIOUS
<1>7. IsFiniteSet(a \cup new) /\ Cardinality(a \cup new) = Cardinality(a) + Cardinality(new)
  <2>1. IsFiniteSet(a) /\ IsFiniteSet(new) /\ a \cap new = {}
    BY <1>3, <1>5, <1>6
  <2>2. IsFiniteSet(a \cup new)
        /\ Cardinality(a \cup new) = Cardinality(a) + Cardinality(new) - Cardinality(a \cap new)
    BY ONLY <2>1, FS_Union
  <2>3. Cardinality(a \cap new) = 0
    BY <2>1, FS_EmptySet
  <2>4. Cardinality(a) \in Nat /\ Cardinality(new) \in Nat
    BY ONLY <2>1, FS_CardinalityType
  <2>5. QED
    BY ONLY <2>1, <2>2, <2>3, <2>4
<1>8. QED
  BY <1>1, <1>3, <1>4, <1>6, <1>7

\* A notification of room is owed no longer.
LEMMA OwingLess ==
  ASSUME QueueTypes, IsFiniteSet(Owing), NEW c \in Consumer, NEW r \in ConsumerStates, Becomes(c, r),
         consumer[c].owed > 0, r.owed = consumer[c].owed - 1
  PROVE  IsFiniteSet(Owing') /\ Cardinality(Owing') = Cardinality(Owing) - 1
<1>1. PICK k \in Nat : k = consumer[c].owed /\ k > 0 /\ r.owed = k - 1
  BY DEF QueueTypes, ConsumerStates
<1>2. \A x : x \in Owing <=> \E d \in Consumer : x \in {d} \X (1 .. consumer[d].owed)
  BY DEF Owing
<1>3. \A x : x \in Owing' <=> \E d \in Consumer : x \in {d} \X (1 .. consumer'[d].owed)
  BY DEF Owing
<1>4. {c} \X (1 .. k - 1) = ({c} \X (1 .. k)) \ {<<c, k>>} /\ <<c, k>> \in {c} \X (1 .. k)
  BY <1>1
<1>5. \A d \in Consumer : d # c => /\ {d} \X (1 .. consumer'[d].owed) = {d} \X (1 .. consumer[d].owed)
                                   /\ <<c, k>> \notin {d} \X (1 .. consumer[d].owed)
  BY DEF Becomes
<1>6. {c} \X (1 .. consumer[c].owed) = {c} \X (1 .. k) /\ {c} \X (1 .. consumer'[c].owed) = {c} \X (1 .. k - 1)
  BY <1>1 DEF Becomes
<1>7. \A x : x \in Owing' <=> x \in Owing \ {<<c, k>>}
  BY <1>2, <1>3, <1>4, <1>5, <1>6
<1>8. Owing' = Owing \ {<<c, k>>} /\ <<c, k>> \in Owing
  BY <1>2, <1>4, <1>6, <1>7
<1>9. QED
  BY <1>8, FS_RemoveElement

\* A consumer's own links, when links change elsewhere.
LEMMA OthersLead ==
  ASSUME ConsumersInv, QueueTypes, UNCHANGED consumer,
         \A c \in Consumer : \A x \in ToSet(consumer[c].due) : q'.next[x] = q.next[x]
  PROVE  ConsumersInv'
<1> SUFFICES ASSUME NEW c \in Consumer, consumer[c].pc \in {"notifyAll", "walk"}
             PROVE  LeadsThrough(q'.next, consumer[c].head, consumer[c].due)
  BY DEF ConsumersInv
<1>1. consumer[c].due \in Seq(Element)
  BY DEF QueueTypes, ConsumerStates
<1>2. LeadsThrough(q.next, consumer[c].head, consumer[c].due)
  BY DEF ConsumersInv
<1>3. QED
  BY <1>1, <1>2, LeadsStill

\* Producers.
LEMMA WaitForRoomKeeps ==
  ASSUME QueueInv, NEW p \in Producer, NEW n \in Element, WaitForRoom(p, n)
  PROVE  QueueInv'
<1> USE QueueConstants DEF QueueInv
<1>1. /\ producer[p] = Nil /\ producer' = [producer EXCEPT ![p] = n] /\ n \in Loose
      /\ limitQueueSize' = (IF maxQueueSize > 0 THEN limitQueueSize - 1 ELSE limitQueueSize)
      /\ maxQueueSize > 0 => limitQueueSize > 0
      /\ UNCHANGED <<maxQueueSize, q, consumer, order>>
  BY DEF WaitForRoom
<1>2. /\ producer' \in [Producer -> Element \cup {Nil}] /\ producer'[p] = n
      /\ \A r \in Producer : r # p => producer'[r] = producer[r]
  BY <1>1 DEF QueueTypes
<1>3. /\ n \notin ToSet(order) /\ \A r \in Producer : producer[r] # n
      /\ \A c \in Consumer : n \notin ToSet(consumer[c].due)
  BY <1>1 DEF Loose
<1>4. limitQueueSize \in Nat /\ limitQueueSize' \in Nat
  BY <1>1 DEF QueueTypes
<1>5. QueueTypes'
  BY <1>1, <1>2, <1>4 DEF QueueTypes
<1>6. InQueue(q, order)' /\ ConsumersInv'
  BY <1>1 DEF InQueue, ConsumersInv, LeadsThrough, Unique
<1>7. ApartInv'
  <2>1. \A r \in Producer : producer'[r] = producer[r] \/ (r = p /\ producer'[r] = n)
    BY <1>2
  <2>2. QED
    BY <1>1, <1>2, <1>3, <2>1 DEF ApartInv
<1>8. RoomInv'
  <2>1. Adding' = Adding \cup {p} /\ p \notin Adding
    BY <1>1, <1>2 DEF Adding
  <2>2. IsFiniteSet(Adding') /\ Cardinality(Adding') = Cardinality(Adding) + 1 /\ Cardinality(Adding) \in Nat
    BY <2>1, FS_AddElement, FS_CardinalityType DEF RoomInv
  <2>3. Owing' = Owing /\ Cardinality(Owing) \in Nat
    BY <1>1, FS_CardinalityType DEF Owing, RoomInv
  <2>4. q.size \in Nat
    BY DEF InQueue, QueueStates
  <2>5. maxQueueSize > 0 => limitQueueSize' + q.size + Cardinality(Adding') + Cardinality(Owing) = MaxQueue
    BY <1>1, <1>4, <2>2, <2>3, <2>4 DEF RoomInv
  <2>6. QED
    BY <1>1, <2>2, <2>3, <2>5 DEF RoomInv
<1>9. QED
  BY <1>5, <1>6, <1>7, <1>8

\* addToQueue puts an element last.
LEMMA AddToQueueKeeps ==
  ASSUME QueueInv, NEW p \in Producer, AddToQueue(p)
  PROVE  QueueInv'
<1> USE QueueConstants DEF QueueInv
<1>1. PICK n \in Element : n = producer[p]
  BY DEF AddToQueue, QueueTypes
<1>2. /\ producer' = [producer EXCEPT ![p] = Nil] /\ q' = Linked(q, n) /\ order' = Append(order, n)
      /\ UNCHANGED <<maxQueueSize, limitQueueSize, consumer>>
  BY <1>1 DEF AddToQueue
<1>3. /\ n \notin ToSet(order) /\ \A r \in Producer : r # p => producer[r] # n
      /\ \A c \in Consumer : n \notin ToSet(consumer[c].due)
  BY <1>1 DEF ApartInv
<1>4. /\ InQueue(q', order')
      /\ \A x \in Element : x \notin ToSet(order) /\ x # n => q'.next[x] = q.next[x]
  BY <1>2, <1>3, LinkedBehindAll
<1>5. ToSet(order') = ToSet(order) \cup {n} /\ Len(order') = Len(order) + 1 /\ Len(order) \in Nat
  BY <1>2, AppendElements, LenProperties DEF InQueue
<1>6. /\ producer' \in [Producer -> Element \cup {Nil}] /\ producer'[p] = Nil
      /\ \A r \in Producer : r # p => producer'[r] = producer[r]
  BY <1>2 DEF QueueTypes
<1>7. QueueTypes'
  BY <1>2, <1>6 DEF QueueTypes
<1>8. ConsumersInv'
  <2>1. \A c \in Consumer : consumer[c].due \in Seq(Element)
    BY DEF QueueTypes, ConsumerStates
  <2>2. \A c \in Consumer : ToSet(consumer[c].due) \subseteq Element
    BY <2>1, Elements
  <2>3. \A c \in Consumer : \A x \in ToSet(consumer[c].due) : q'.next[x] = q.next[x]
    BY <1>3, <1>4, <2>2 DEF ApartInv
  <2>4. QED
    BY <1>2, <2>3, OthersLead
<1>9. ApartInv'
  <2>1. \A c \in Consumer : Nil \notin ToSet(consumer[c].due)
    <3>1. \A c \in Consumer : consumer[c].due \in Seq(Element)
      BY DEF QueueTypes, ConsumerStates
    <3>2. QED
      BY <3>1, Elements
  <2>2. Nil \notin ToSet(order')
    BY <1>4, Elements DEF InQueue
  <2>3. \A r \in Producer : producer'[r] # Nil => producer'[r] = producer[r] /\ r # p
    BY <1>6
  <2>4. QED
    BY <1>2, <1>3, <1>5, <1>6, <2>1, <2>2, <2>3, SMTT(60) DEF ApartInv
<1>10. RoomInv'
  <2>1. Adding' = Adding \ {p} /\ p \in Adding
    BY <1>1, <1>6 DEF Adding
  <2>2. IsFiniteSet(Adding') /\ Cardinality(Adding') = Cardinality(Adding) - 1 /\ Cardinality(Adding) \in Nat
    BY <2>1, FS_RemoveElement, FS_CardinalityType DEF RoomInv
  <2>3. Owing' = Owing /\ Cardinality(Owing) \in Nat
    BY <1>2, FS_CardinalityType DEF Owing, RoomInv
  <2>4. q.size \in Nat /\ q'.size = q.size + 1 /\ limitQueueSize \in Nat
    BY <1>4, <1>5 DEF InQueue, QueueStates, QueueTypes
  <2>5. maxQueueSize > 0 => limitQueueSize + q'.size + Cardinality(Adding') + Cardinality(Owing) = MaxQueue
    BY <2>2, <2>3, <2>4 DEF RoomInv
  <2>6. QED
    BY <1>2, <2>2, <2>3, <2>5 DEF RoomInv
<1>11. QED
  BY <1>4, <1>7, <1>8, <1>9, <1>10

\* addLLToQueue puts a chain of elements last.
LEMMA AddLLKeeps ==
  ASSUME QueueInv, NEW p \in Producer, NEW n \in Element, NEW m \in Element, AddLLToQueue(p, n, m)
  PROVE  QueueInv'
<1> USE QueueConstants DEF QueueInv
<1>1. /\ n \in Loose /\ m \in Loose /\ n # m /\ q' = Linked(Linked(q, n), m) /\ order' = order \o <<n, m>>
      /\ UNCHANGED <<maxQueueSize, limitQueueSize, producer, consumer>> /\ maxQueueSize = 0
  BY DEF AddLLToQueue
<1>2. \A x \in {n, m} : /\ x \notin ToSet(order) /\ \A r \in Producer : producer[r] # x
                        /\ \A c \in Consumer : x \notin ToSet(consumer[c].due)
  BY <1>1 DEF Loose
<1>3. PICK one, o : one = Linked(q, n) /\ o = Append(order, n)
  OBVIOUS
<1>4. /\ InQueue(one, o) /\ \A x \in Element : x \notin ToSet(order) /\ x # n => one.next[x] = q.next[x]
  BY <1>2, <1>3, LinkedBehindAll
<1>5. order \in Seq(Element) /\ o \in Seq(Element) /\ ToSet(o) = ToSet(order) \cup {n}
  BY <1>3, AppendElements DEF InQueue
<1>6. m \notin ToSet(o)
  BY <1>1, <1>2, <1>5
<1>7. /\ InQueue(q', Append(o, m))
      /\ \A x \in Element : x \notin ToSet(o) /\ x # m => q'.next[x] = one.next[x]
  BY <1>1, <1>3, <1>4, <1>6, LinkedBehindAll
<1>8. order' = Append(o, m)
  <2>1. <<n, m>> = Append(<<n>>, m) /\ <<n>> \in Seq(Element) /\ order \o <<n>> = Append(order, n)
    BY <1>5, AppendIsConcat
  <2>2. \A s \in Seq(Element) : Append(s, m) = s \o <<m>>
    BY AppendIsConcat
  <2>3. order' = order \o (<<n>> \o <<m>>)
    BY <1>1, <2>1, <2>2
  <2>4. order \o (<<n>> \o <<m>>) = (order \o <<n>>) \o <<m>>
    BY <1>5, ConcatAssociative
  <2>5. QED
    BY <1>3, <1>5, <2>1, <2>2, <2>3, <2>4
<1>9. ToSet(order') = ToSet(order) \cup {n, m}
  BY <1>5, <1>8, AppendElements
<1>10. QueueTypes'
  BY <1>1 DEF QueueTypes
<1>11. ConsumersInv'
  <2>1. \A c \in Consumer : consumer[c].due \in Seq(Element)
    BY DEF QueueTypes, ConsumerStates
  <2>2. \A c \in Consumer : ToSet(consumer[c].due) \subseteq Element
    BY <2>1, Elements
  <2>3. \A c \in Consumer : \A x \in ToSet(consumer[c].due) : x \in Element /\ x # n /\ x # m /\ x \notin ToSet(order)
    BY <1>2, <2>2 DEF ApartInv
  <2>4. \A c \in Consumer : \A x \in ToSet(consumer[c].due) : q'.next[x] = q.next[x]
    BY <1>4, <1>5, <1>7, <2>3
  <2>5. QED
    BY <1>1, <2>4, OthersLead
<1>12. ApartInv'
  BY <1>1, <1>2, <1>9 DEF ApartInv
<1>13. RoomInv'
  BY <1>1 DEF RoomInv, Adding, Owing
<1>14. QED
  BY <1>7, <1>8, <1>10, <1>11, <1>12, <1>13

\* Consumers.
LEMMA GetFromQueueKeeps ==
  ASSUME QueueInv, NEW c \in Consumer, GetFromQueue(c)
  PROVE  QueueInv'
<1> USE QueueConstants DEF QueueInv
<1>1. PICK rest : rest = q.next[q.beg]
  OBVIOUS
<1>2. /\ consumer[c].pc = "idle" /\ q.beg # Nil /\ order' = Tail(order)
      /\ q' = [q EXCEPT !.beg = rest, !.end = IF rest = Nil THEN Nil ELSE @, !.size = @ - 1]
      /\ consumer' = [consumer EXCEPT ![c] = [pc |-> "notify", head |-> q.beg, owed |-> Owed(1), due |-> <<q.beg>>]]
      /\ UNCHANGED <<maxQueueSize, limitQueueSize, producer>>
  BY <1>1 DEF GetFromQueue
<1>3. /\ order # <<>> /\ q.beg = order[1] /\ q.beg \in Element /\ InQueue(q', order') /\ q'.next = q.next
      /\ q'.size = q.size - 1
  <2>1. PICK r : r = AfterFirst(q, rest)
    OBVIOUS
  <2>2. /\ order # <<>> /\ q.beg = order[1] /\ q.beg \in Element /\ InQueue(r, Tail(order)) /\ r.next = q.next
        /\ r.size = q.size - 1
    <3>1. InQueue(q, order) /\ q.beg # Nil
      BY <1>2
    <3>2. QED
      BY ONLY <1>1, <2>1, <3>1, FirstTaken
  <2>3. QED
    BY <1>2, <2>1, <2>2 DEF AfterFirst
<1>4. /\ order \in Seq(Element) /\ Unique(order)
      /\ ToSet(order) = ToSet(Tail(order)) \cup {q.beg} /\ q.beg \notin ToSet(Tail(order))
  BY <1>3, TailElements DEF InQueue
<1>5. PICK r : r = [pc |-> "notify", head |-> q.beg, owed |-> Owed(1), due |-> <<q.beg>>]
  OBVIOUS
<1>6. r \in ConsumerStates /\ r.pc = "notify" /\ r.head = q.beg /\ r.owed = Owed(1) /\ r.due = <<q.beg>>
      /\ Owed(1) \in Nat
  BY <1>3, <1>5 DEF ConsumerStates, Owed
<1>7. Becomes(c, r)
  BY <1>2, <1>5, <1>6, ConsumerBecomes
<1>8. QueueTypes'
  BY <1>2, <1>7 DEF QueueTypes, Becomes
<1>9. ToSet(<<q.beg>>) = {q.beg} /\ Unique(<<q.beg>>)
  <2>1. <<q.beg>> \in Seq(Element) /\ Len(<<q.beg>>) = 1 /\ <<q.beg>>[1] = q.beg
    BY <1>3
  <2>2. ToSet(<<q.beg>>) = {<<q.beg>>[i] : i \in 1 .. 1}
    BY <2>1, Elements
  <2>3. QED
    BY <2>1, <2>2 DEF Unique
<1>10. ConsumersInv'
  BY <1>3, <1>6, <1>7, <1>9 DEF ConsumersInv, Becomes
<1>11. ApartInv'
  <2>1. \A d \in Consumer : d # c => consumer'[d].due = consumer[d].due
    BY <1>7 DEF Becomes
  <2>2. ToSet(consumer'[c].due) = {q.beg}
    BY <1>6, <1>7, <1>9 DEF Becomes
  <2>3. \A d \in Consumer : d # c => q.beg \notin ToSet(consumer[d].due)
    BY <1>4 DEF ApartInv
  <2>4. \A p \in Producer : producer[p] # q.beg
    BY <1>4 DEF ApartInv
  <2>5. \A p \in Producer : producer'[p] \notin ToSet(order')
    BY <1>2, <1>4 DEF ApartInv
  <2>6. \A p \in Producer, d \in Consumer : producer'[p] \notin ToSet(consumer'[d].due)
    <3> SUFFICES ASSUME NEW p \in Producer, NEW d \in Consumer PROVE producer[p] \notin ToSet(consumer'[d].due)
      BY <1>2
    <3>1. QED
      BY <2>1, <2>2, <2>4 DEF ApartInv
  <2>7. \A d \in Consumer : ToSet(consumer'[d].due) \cap ToSet(order') = {}
    <3> SUFFICES ASSUME NEW d \in Consumer PROVE ToSet(consumer'[d].due) \cap ToSet(order') = {}
      OBVIOUS
    <3>1. ToSet(order') \subseteq ToSet(order) /\ q.beg \notin ToSet(order')
      BY <1>2, <1>4
    <3>2. QED
      BY <2>1, <2>2, <3>1 DEF ApartInv
  <2>8. \A d, e \in Consumer : d # e => ToSet(consumer'[d].due) \cap ToSet(consumer'[e].due) = {}
    <3> SUFFICES ASSUME NEW d \in Consumer, NEW e \in Consumer, d # e
                 PROVE  ToSet(consumer'[d].due) \cap ToSet(consumer'[e].due) = {}
      OBVIOUS
    <3>1. CASE d = c
      BY <2>1, <2>2, <2>3, <3>1
    <3>2. CASE e = c
      BY <2>1, <2>2, <2>3, <3>2
    <3>3. CASE d # c /\ e # c
      BY <2>1, <3>3 DEF ApartInv
    <3>4. QED
      BY <3>1, <3>2, <3>3
  <2>9. \A p, r1 \in Producer : producer'[p] = producer'[r1] /\ producer'[p] # Nil => p = r1
    BY <1>2 DEF ApartInv
  <2>10. QED
    BY <2>5, <2>6, <2>7, <2>8, <2>9 DEF ApartInv
<1>12. RoomInv'
  <2>1. consumer[c].owed = 0 /\ IsFiniteSet(Owing)
    BY <1>2 DEF ConsumersInv, RoomInv
  <2>2. IsFiniteSet(Owing') /\ Cardinality(Owing') = Cardinality(Owing) + Owed(1) /\ Cardinality(Owing) \in Nat
    BY <1>6, <1>7, <2>1, OwingMore, FS_CardinalityType
  <2>3. Adding' = Adding /\ IsFiniteSet(Adding) /\ Cardinality(Adding) \in Nat
    BY <1>2, FS_CardinalityType DEF Adding, RoomInv
  <2>4. limitQueueSize \in Nat /\ q.size \in Nat /\ (maxQueueSize > 0 => Owed(1) = 1)
    BY DEF QueueTypes, InQueue, QueueStates, Owed
  <2>5. maxQueueSize > 0 => limitQueueSize + q'.size + Cardinality(Adding) + Cardinality(Owing') = MaxQueue
    BY <1>3, <2>2, <2>3, <2>4, SMTT(60) DEF RoomInv
  <2>6. QED
    BY <1>2, <2>2, <2>3, <2>5 DEF RoomInv
<1>13. QED
  BY <1>3, <1>8, <1>10, <1>11, <1>12

\* getAllFromQueue takes the chain of all the elements.
LEMMA GetAllKeeps ==
  ASSUME QueueInv, NEW c \in Consumer, GetAllFromQueue(c)
  PROVE  QueueInv'
<1> USE QueueConstants DEF QueueInv
<1>1. /\ consumer[c].pc = "looked" /\ order' = <<>> /\ q' = [q EXCEPT !.beg = Nil, !.end = Nil, !.size = 0]
      /\ consumer' = [consumer EXCEPT ![c] =
           [pc |-> "notifyAll", head |-> q.beg, owed |-> Owed(q.size), due |-> order]]
      /\ UNCHANGED <<maxQueueSize, limitQueueSize, producer>>
  BY DEF GetAllFromQueue
<1>2. /\ order \in Seq(Element) /\ Unique(order) /\ q.size = Len(order) /\ q.size \in Nat /\ q.beg \in Element \cup {Nil}
      /\ LeadsThrough(q.next, q.beg, order) /\ q \in QueueStates
  BY LenProperties DEF InQueue, QueueStates
<1>3. <<>> \in Seq(Element) /\ Len(<<>>) = 0 /\ ToSet(<<>>) = {} /\ Unique(<<>>)
  BY EmptySeq DEF ToSet, Unique
<1>4. q'.next = q.next /\ q'.beg = Nil /\ q'.size = 0 /\ q' \in QueueStates
  BY <1>1, <1>2 DEF QueueStates
<1>5. InQueue(q', order')
  BY <1>1, <1>3, <1>4 DEF InQueue, LeadsThrough
<1>6. PICK r : r = [pc |-> "notifyAll", head |-> q.beg, owed |-> Owed(q.size), due |-> order]
  OBVIOUS
<1>7. r \in ConsumerStates /\ r.pc = "notifyAll" /\ r.head = q.beg /\ r.owed = Owed(q.size) /\ r.due = order
      /\ Owed(q.size) \in Nat
  BY <1>2, <1>6 DEF ConsumerStates, Owed
<1>8. Becomes(c, r)
  BY <1>1, <1>6, <1>7, ConsumerBecomes
<1>9. QueueTypes'
  BY <1>1, <1>8 DEF QueueTypes, Becomes
<1>10. ConsumersInv'
  BY <1>2, <1>4, <1>7, <1>8 DEF ConsumersInv, Becomes
<1>11. ApartInv'
  <2>1. \A d \in Consumer : d # c => consumer'[d].due = consumer[d].due
    BY <1>8 DEF Becomes
  <2>2. consumer'[c].due = order
    BY <1>7, <1>8 DEF Becomes
  <2>3. QED
    BY <1>1, <1>3, <2>1, <2>2 DEF ApartInv
<1>12. RoomInv'
  <2>1. consumer[c].owed = 0 /\ IsFiniteSet(Owing)
    BY <1>1 DEF ConsumersInv, RoomInv
  <2>2. IsFiniteSet(Owing') /\ Cardinality(Owing') = Cardinality(Owing) + Owed(q.size) /\ Cardinality(Owing) \in Nat
    BY <1>7, <1>8, <2>1, OwingMore, FS_CardinalityType
  <2>3. Adding' = Adding /\ IsFiniteSet(Adding) /\ Cardinality(Adding) \in Nat
    BY <1>1, FS_CardinalityType DEF Adding, RoomInv
  <2>4. limitQueueSize \in Nat /\ (maxQueueSize > 0 => Owed(q.size) = q.size)
    BY DEF QueueTypes, Owed
  <2>5. maxQueueSize > 0 => limitQueueSize + q'.size + Cardinality(Adding) + Cardinality(Owing') = MaxQueue
    BY <1>2, <1>4, <2>2, <2>3, <2>4 DEF RoomInv
  <2>6. QED
    BY <1>1, <2>2, <2>3, <2>5 DEF RoomInv
<1>13. QED
  BY <1>5, <1>9, <1>10, <1>11, <1>12

\* A consumer that looks at the first element takes nothing.
LEMMA LookFirstKeeps ==
  ASSUME QueueInv, NEW c \in Consumer, LookFirst(c)
  PROVE  QueueInv'
<1> USE QueueConstants DEF QueueInv
<1>1. /\ consumer[c].pc = "idle" /\ consumer' = [consumer EXCEPT ![c].pc = "looked"]
      /\ UNCHANGED <<maxQueueSize, q, limitQueueSize, producer, order>>
  BY DEF LookFirst
<1>2. PICK r : r = [consumer[c] EXCEPT !.pc = "looked"]
  OBVIOUS
<1>3. /\ r \in ConsumerStates /\ r.pc = "looked" /\ r.head = consumer[c].head /\ r.owed = consumer[c].owed
      /\ r.due = consumer[c].due
  BY <1>2 DEF QueueTypes, ConsumerStates
<1>4. Becomes(c, r)
  BY <1>1, <1>2, <1>3, ConsumerBecomes
<1>5. QueueTypes'
  BY <1>1, <1>4 DEF QueueTypes, Becomes
<1>6. InQueue(q, order)'
  BY <1>1 DEF InQueue
<1>7. ConsumersInv'
  BY <1>1, <1>3, <1>4 DEF ConsumersInv, Becomes
<1>8. ApartInv'
  <2>1. \A d \in Consumer : consumer'[d].due = consumer[d].due
    BY <1>3, <1>4 DEF Becomes
  <2>2. QED
    BY <1>1, <2>1 DEF ApartInv
<1>9. RoomInv'
  <2>1. Owing' = Owing
    BY <1>3, <1>4, OwingSame
  <2>2. QED
    BY <1>1, <2>1 DEF RoomInv, Adding
<1>10. QED
  BY <1>5, <1>6, <1>7, <1>8, <1>9

\* A consumer gives back the room of an element it took.
LEMMA NotifyRoomKeeps ==
  ASSUME QueueInv, NEW c \in Consumer, NotifyRoom(c)
  PROVE  QueueInv'
<1> USE QueueConstants DEF QueueInv
<1>1. /\ consumer[c].owed > 0 /\ limitQueueSize' = limitQueueSize + 1
      /\ consumer' = [consumer EXCEPT ![c].owed = consumer[c].owed - 1]
      /\ UNCHANGED <<maxQueueSize, q, producer, order>>
  BY DEF NotifyRoom, QueueTypes
<1>2. PICK k \in Nat : k = consumer[c].owed - 1
  BY <1>1 DEF QueueTypes, ConsumerStates
<1>3. PICK r : r = [consumer[c] EXCEPT !.owed = k]
  OBVIOUS
<1>4. /\ r \in ConsumerStates /\ r.pc = consumer[c].pc /\ r.head = consumer[c].head /\ r.owed = k
      /\ r.due = consumer[c].due
  BY <1>2, <1>3 DEF QueueTypes, ConsumerStates
<1>5. Becomes(c, r)
  BY <1>1, <1>2, <1>3, <1>4, ConsumerBecomes
<1>6. QueueTypes' /\ limitQueueSize \in Nat
  BY <1>1, <1>5 DEF QueueTypes, Becomes
<1>7. InQueue(q, order)'
  BY <1>1 DEF InQueue
<1>8. ConsumersInv'
  BY <1>1, <1>4, <1>5 DEF ConsumersInv, Becomes
<1>9. ApartInv'
  <2>1. \A d \in Consumer : consumer'[d].due = consumer[d].due
    BY <1>4, <1>5 DEF Becomes
  <2>2. QED
    BY <1>1, <2>1 DEF ApartInv
<1>10. RoomInv'
  <2>1. IsFiniteSet(Owing') /\ Cardinality(Owing') = Cardinality(Owing) - 1 /\ Cardinality(Owing) \in Nat
    BY <1>1, <1>2, <1>4, <1>5, OwingLess, FS_CardinalityType DEF RoomInv
  <2>2. Adding' = Adding /\ IsFiniteSet(Adding) /\ Cardinality(Adding) \in Nat /\ q.size \in Nat
    BY <1>1, FS_CardinalityType DEF Adding, RoomInv, InQueue, QueueStates
  <2>3. maxQueueSize > 0 => limitQueueSize' + q.size + Cardinality(Adding) + Cardinality(Owing') = MaxQueue
    BY <1>1, <1>6, <2>1, <2>2 DEF RoomInv
  <2>4. QED
    BY <1>1, <2>1, <2>2, <2>3 DEF RoomInv
<1>11. QED
  BY <1>6, <1>7, <1>8, <1>9, <1>10

\* A consumer puts back, first, the elements it does not want.
LEMMA ReturnElementsKeeps ==
  ASSUME QueueInv, NEW c \in Consumer, ReturnElements(c)
  PROVE  QueueInv'
<1> USE QueueConstants DEF QueueInv
<1>1. /\ consumer[c].pc \in {"notify", "notifyAll"} /\ consumer[c].owed = 0
      /\ consumer' = [consumer EXCEPT ![c].pc = "walk"]
      /\ q' = (IF consumer[c].pc = "notify" THEN [q EXCEPT !.next[consumer[c].head] = Nil] ELSE q)
      /\ UNCHANGED <<maxQueueSize, limitQueueSize, producer, order>>
  BY DEF ReturnElements
<1>2. PICK r : r = [consumer[c] EXCEPT !.pc = "walk"]
  OBVIOUS
<1>3. /\ r \in ConsumerStates /\ r.pc = "walk" /\ r.head = consumer[c].head /\ r.owed = consumer[c].owed
      /\ r.due = consumer[c].due
  BY <1>2 DEF QueueTypes, ConsumerStates
<1>4. Becomes(c, r)
  BY <1>1, <1>2, <1>3, ConsumerBecomes
<1>5. QueueTypes'
  BY <1>1, <1>4 DEF QueueTypes, Becomes
<1>6. PICK h : h = consumer[c].head
  OBVIOUS
<1>7. /\ q' \in QueueStates /\ q'.beg = q.beg /\ q'.end = q.end /\ q'.size = q.size
      /\ \A x \in Element : x \notin ToSet(consumer[c].due) => q'.next[x] = q.next[x]
      /\ consumer[c].pc = "notify" => q'.next[h] = Nil /\ consumer[c].due = <<h>> /\ h \in Element
      /\ consumer[c].pc = "notifyAll" => q' = q
  <2>1. CASE consumer[c].pc = "notify"
    <3>1. /\ consumer[c].due = <<h>> /\ h \in Element
      BY <1>6, <2>1 DEF ConsumersInv
    <3>2. h \in ToSet(consumer[c].due)
      <4>1. <<h>> \in Seq(Element) /\ Len(<<h>>) = 1 /\ <<h>>[1] = h /\ 1 \in 1 .. 1
        BY <3>1
      <4>2. QED
        BY <3>1, <4>1 DEF ToSet
    <3>3. PICK nx, bb, ee, zz : nx = q.next /\ bb = q.beg /\ ee = q.end /\ zz = q.size
      OBVIOUS
    <3>4. q = [next |-> nx, beg |-> bb, end |-> ee, size |-> zz] /\ nx \in Links /\ bb \in Element \cup {Nil}
          /\ ee \in Element \cup {Nil} /\ zz \in Nat
      BY <3>3 DEF InQueue, QueueStates
    <3>5. PICK nn \in Links : nn = [nx EXCEPT ![h] = Nil]
      BY <3>4 DEF Links
    <3>6. q' = [next |-> nn, beg |-> bb, end |-> ee, size |-> zz]
      BY <1>1, <1>6, <2>1, <3>4, <3>5
    <3>7. nn[h] = Nil /\ \A x \in Element : x # h => nn[x] = nx[x]
      BY <3>1, <3>4, <3>5 DEF Links
    <3>8. q' \in QueueStates /\ q'.next = nn /\ q'.beg = bb /\ q'.end = ee /\ q'.size = zz
      BY <3>4, <3>5, <3>6 DEF QueueStates
    <3>9. QED
      BY <2>1, <3>1, <3>2, <3>3, <3>7, <3>8
  <2>2. CASE consumer[c].pc = "notifyAll"
    BY <1>1, <2>2 DEF InQueue
  <2>3. QED
    BY <1>1, <2>1, <2>2
<1>8. InQueue(q', order')
  <2>1. \A x \in ToSet(order) : q'.next[x] = q.next[x]
    <3>1. ToSet(order) \subseteq Element /\ ToSet(consumer[c].due) \cap ToSet(order) = {}
      BY Elements DEF InQueue, ApartInv
    <3>2. QED
      BY <1>7, <3>1
  <2>2. order \in Seq(Element) /\ LeadsThrough(q.next, q.beg, order)
    BY DEF InQueue
  <2>3. LeadsThrough(q'.next, q.beg, order)
    BY <2>1, <2>2, LeadsStill
  <2>4. QED
    BY <1>1, <1>7, <2>3 DEF InQueue
<1>9. ConsumersInv'
  <2>1. ASSUME NEW d \in Consumer, d # c, consumer[d].pc \in {"notifyAll", "walk"}
        PROVE  LeadsThrough(q'.next, consumer[d].head, consumer[d].due)
    <3>1. consumer[d].due \in Seq(Element) /\ LeadsThrough(q.next, consumer[d].head, consumer[d].due)
      BY <2>1 DEF QueueTypes, ConsumerStates, ConsumersInv
    <3>2. ToSet(consumer[d].due) \subseteq Element /\ ToSet(consumer[c].due) \cap ToSet(consumer[d].due) = {}
      BY <2>1, <3>1, Elements DEF ApartInv
    <3>3. \A x \in ToSet(consumer[d].due) : q'.next[x] = q.next[x]
      BY <1>7, <3>2
    <3>4. QED
      BY <3>1, <3>3, LeadsStill
  <2>2. LeadsThrough(q'.next, consumer[c].head, consumer[c].due)
    <3>1. CASE consumer[c].pc = "notify"
      <4>1. PICK s : s = <<h>>
        OBVIOUS
      <4>2. s \in Seq(Element) /\ Len(s) = 1 /\ s[1] = h /\ q'.next[h] = Nil /\ s # <<>> /\ consumer[c].due = s
        BY <1>7, <3>1, <4>1
      <4>3. \A i \in 1 .. Len(s) - 1 : FALSE
        BY <4>2
      <4>4. QED
        BY <1>6, <4>2, <4>3 DEF LeadsThrough
    <3>2. CASE consumer[c].pc = "notifyAll"
      BY <1>7, <3>2 DEF ConsumersInv
    <3>3. QED
      BY <1>1, <3>1, <3>2
  <2>3. QED
    BY <1>1, <1>3, <1>4, <2>1, <2>2 DEF ConsumersInv, Becomes
<1>10. ApartInv'
  <2>1. \A d \in Consumer : consumer'[d].due = consumer[d].due
    BY <1>3, <1>4 DEF Becomes
  <2>2. QED
    BY <1>1, <2>1 DEF ApartInv
<1>11. RoomInv'
  <2>1. Owing' = Owing
    BY <1>3, <1>4, OwingSame
  <2>2. QED
    BY <1>1, <1>7, <2>1 DEF RoomInv, Adding
<1>12. QED
  BY <1>5, <1>8, <1>9, <1>10, <1>11

\* A consumer goes along the chain it took.
LEMMA ConsumeKeeps ==
  ASSUME QueueInv, NEW c \in Consumer, Consume(c)
  PROVE  QueueInv'
<1> USE QueueConstants DEF QueueInv
<1>1. PICK r : r = IF consumer[c].head = Nil THEN Resting
                   ELSE [consumer[c] EXCEPT !.head = q.next[consumer[c].head], !.due = Tail(consumer[c].due)]
  OBVIOUS
<1>2. /\ consumer[c].pc = "walk" /\ consumer' = [consumer EXCEPT ![c] = r]
      /\ UNCHANGED <<maxQueueSize, q, limitQueueSize, producer, order>>
  BY <1>1 DEF Consume
<1>3. /\ consumer[c] \in ConsumerStates /\ consumer[c].owed = 0 /\ consumer[c].due \in Seq(Element)
      /\ Unique(consumer[c].due) /\ LeadsThrough(q.next, consumer[c].head, consumer[c].due)
  BY <1>2 DEF QueueTypes, ConsumerStates, ConsumersInv
<1>4. /\ r \in ConsumerStates /\ r.owed = 0 /\ Unique(r.due) /\ ToSet(r.due) \subseteq ToSet(consumer[c].due)
      /\ (r = Resting \/ (r.pc = "walk" /\ LeadsThrough(q.next, r.head, r.due)))
  <2>1. CASE consumer[c].head = Nil
    <3>1. r = Resting
      BY <1>1, <2>1
    <3>2. <<>> \in Seq(Element) /\ Unique(<<>>) /\ ToSet(<<>>) = {}
      BY EmptySeq DEF Unique, ToSet
    <3>3. QED
      BY <3>1, <3>2 DEF Resting, ConsumerStates
  <2>2. CASE consumer[c].head # Nil
    <3>1. consumer[c].due # <<>>
      BY <1>3, <2>2 DEF LeadsThrough
    <3>2. PICK d, h : d = Tail(consumer[c].due) /\ h = q.next[consumer[c].head]
      BY <1>3, <3>1, TailElements
    <3>3. /\ d \in Seq(Element) /\ Unique(d) /\ ToSet(d) \subseteq ToSet(consumer[c].due)
          /\ LeadsThrough(q.next, h, d)
      BY <1>3, <3>1, <3>2, TailElements, LeadsOn
    <3>4. h \in Element \cup {Nil}
      <4>1. consumer[c].head \in Element /\ q.next \in Links
        BY <1>3, <2>2 DEF ConsumerStates, InQueue, QueueStates
      <4>2. QED
        BY <3>2, <4>1 DEF Links
    <3>5. r = [consumer[c] EXCEPT !.head = h, !.due = d]
      BY <1>1, <2>2, <3>2
    <3>6. r \in ConsumerStates /\ r.pc = "walk" /\ r.owed = 0 /\ r.head = h /\ r.due = d
      BY <1>2, <1>3, <3>2, <3>3, <3>4, <3>5 DEF ConsumerStates
    <3>7. QED
      BY <3>3, <3>6
  <2>3. QED
    BY <2>1, <2>2
<1>5. Becomes(c, r)
  BY <1>2, <1>4, ConsumerBecomes
<1>6. QueueTypes'
  BY <1>2, <1>5 DEF QueueTypes, Becomes
<1>7. InQueue(q, order)'
  BY <1>2 DEF InQueue
<1>8. ConsumersInv'
  <2>1. Resting.pc = "idle" /\ Resting.head = Nil /\ Resting.owed = 0 /\ Resting.due = <<>>
    BY DEF Resting
  <2>2. QED
    BY <1>2, <1>4, <1>5, <2>1 DEF ConsumersInv, Becomes
<1>9. ApartInv'
  <2>1. \A d \in Consumer : d # c => consumer'[d].due = consumer[d].due
    BY <1>5 DEF Becomes
  <2>2. ToSet(consumer'[c].due) \subseteq ToSet(consumer[c].due)
    BY <1>4, <1>5 DEF Becomes
  <2>3. \A d \in Consumer : ToSet(consumer'[d].due) \subseteq ToSet(consumer[d].due)
    BY <2>1, <2>2
  <2>4. QED
    BY <1>2, <2>3 DEF ApartInv
<1>10. RoomInv'
  <2>1. Owing' = Owing
    BY <1>3, <1>4, <1>5, OwingSame
  <2>2. QED
    BY <1>2, <2>1 DEF RoomInv, Adding
<1>11. QED
  BY <1>6, <1>7, <1>8, <1>9, <1>10

\* No step of a producer or a consumer breaks the invariant.
LEMMA QueueStep ==
  ASSUME QueueInv, [QueueNext]_qVars PROVE QueueInv'
<1>1. CASE QueueNext
  BY <1>1, WaitForRoomKeeps, AddToQueueKeeps, AddLLKeeps, GetFromQueueKeeps, GetAllKeeps, LookFirstKeeps,
     NotifyRoomKeeps, ReturnElementsKeeps, ConsumeKeeps DEF QueueNext, QueueRun
<1>2. CASE UNCHANGED qVars
  <2>1. UNCHANGED <<maxQueueSize, q, limitQueueSize, producer, consumer, order>>
    BY <1>2 DEF qVars
  <2>2. QueueTypes' /\ InQueue(q, order)' /\ ConsumersInv' /\ ApartInv'
    BY <2>1 DEF QueueInv, QueueTypes, InQueue, ConsumersInv, ApartInv
  <2>3. RoomInv'
    BY <2>1 DEF QueueInv, RoomInv, Adding, Owing
  <2>4. QED
    BY <2>2, <2>3 DEF QueueInv
<1>3. QED
  BY <1>1, <1>2

\* The chain of the queue has the elements that were added and not taken, in order.
LEMMA QueueImplied == QueueInv => QueueInOrder
<1> SUFFICES ASSUME QueueInv PROVE QueueInOrder
  OBVIOUS
<1>1. Chain(q.next, q.beg) = order
  BY ChainFound DEF QueueInv, InQueue
<1>2. q.size = Len(order) /\ (order # <<>> => q.end = Last(order))
  BY DEF QueueInv, InQueue, Last
<1>3. ASSUME NEW c \in Consumer, consumer[c].pc = "walk" PROVE Chain(q.next, consumer[c].head) = consumer[c].due
  <2>1. /\ consumer[c].due \in Seq(Element) /\ Unique(consumer[c].due)
        /\ LeadsThrough(q.next, consumer[c].head, consumer[c].due)
    BY <1>3 DEF QueueInv, QueueTypes, ConsumerStates, ConsumersInv
  <2>2. QED
    BY <2>1, ChainFound
<1>4. maxQueueSize > 0 =>
        limitQueueSize + q.size + Cardinality({p \in Producer : producer[p] # Nil}) + Cardinality(Owing) = MaxQueue
  BY DEF QueueInv, RoomInv, Adding
<1>5. QED
  BY <1>1, <1>2, <1>3, <1>4 DEF QueueInOrder

\* What consumers take from an AppLLQueue, one at a time or all at once, is what
\* producers added, in order, and the room they give back is the room they took
\* (AppLLQueue.hh).
THEOREM QueueStaysInOrder == QueueSpec => []QueueInOrder
<1>1. QueueSpec => []QueueInv
  BY QueueInitInv, QueueStep, PTL DEF QueueSpec
<1>2. QED
  BY <1>1, QueueImplied, PTL
-----------------------------------------------------------------------------
(***************************************************************************)
(* Headers on the wire and the checksum (Wire).  encodeHeader's bytes are  *)
(* laid out one part after the other; what stands at a place is what a     *)
(* decoder reads there.                                                    *)
(***************************************************************************)

\* Dividing with a remainder, which there is only one of.
LEMMA Division ==
  ASSUME NEW v \in Nat, NEW b \in Nat, b > 0
  PROVE  v \div b \in Nat /\ v % b \in Nat /\ v % b < b /\ v = (v \div b) * b + (v % b)
<1>1. v % b \in Nat /\ v % b < b
  OBVIOUS
<1>2. v \div b \in Nat
  OBVIOUS
<1>3. v = b * (v \div b) + (v % b)
  OBVIOUS
<1>4. QED
  BY <1>1, <1>2, <1>3

\* Nothing else divides and leaves less than the divisor.
LEMMA DivisionUnique ==
  ASSUME NEW q1 \in Nat, NEW b \in Nat, NEW r1 \in Nat, r1 < b
  PROVE  (q1 * b + r1) \div b = q1 /\ (q1 * b + r1) % b = r1
<1>1. q1 * b \in Nat /\ q1 * b + r1 \in Nat /\ b > 0
  OBVIOUS
<1>2. PICK v \in Nat : v = q1 * b + r1
  BY <1>1
<1>3. PICK q2 \in Nat : q2 = v \div b
  BY <1>1, <1>2, Division
<1>4. PICK r2 \in Nat : r2 = v % b
  BY <1>1, <1>2, Division
<1>5. r2 < b /\ v = q2 * b + r2
  BY <1>1, <1>3, <1>4, Division
<1>6. q2 = q1
  <2>1. (q2 - q1) * b = r1 - r2
    BY <1>2, <1>5
  <2>2. CASE q2 > q1
    <3>1. (q2 - q1) * b >= b
      BY <2>2, <1>1
    <3>2. QED
      BY <2>1, <3>1
  <2>3. CASE q2 < q1
    <3>1. (q1 - q2) * b >= b
      BY <2>3, <1>1
    <3>2. (q1 - q2) * b = r2 - r1
      BY <2>1
    <3>3. QED
      BY <3>1, <3>2, <1>5
  <2>4. QED
    BY <2>2, <2>3
<1>7. QED
  BY <1>2, <1>3, <1>4, <1>5, <1>6

\* Dividing twice.
LEMMA DivideAgain ==
  ASSUME NEW v \in Nat, NEW a \in Nat, NEW b \in Nat, a > 0, b > 0
  PROVE  (v \div a) \div b = v \div (b * a)
<1>1. PICK q1 \in Nat, r1 \in Nat : q1 = v \div a /\ r1 = v % a /\ r1 < a /\ v = q1 * a + r1
  BY Division
<1>2. PICK q2 \in Nat, r2 \in Nat : q2 = q1 \div b /\ r2 = q1 % b /\ r2 < b /\ q1 = q2 * b + r2
  BY Division
<1>3. v = q2 * (b * a) + (r2 * a + r1)
  <2>1. v = (q2 * b + r2) * a + r1
    BY <1>1, <1>2
  <2>2. (q2 * b + r2) * a = (q2 * b) * a + r2 * a /\ (q2 * b) * a = q2 * (b * a)
    OBVIOUS
  <2>3. QED
    BY <2>1, <2>2
<1>4. r2 * a + r1 \in Nat /\ r2 * a + r1 < b * a /\ b * a \in Nat
  <2>1. (r2 + 1) * a <= b * a
    BY <1>2
  <2>2. (r2 + 1) * a = r2 * a + a /\ r2 * a \in Nat /\ b * a \in Nat
    OBVIOUS
  <2>3. QED
    BY <1>1, <2>1, <2>2
<1>5. (q2 * (b * a) + (r2 * a + r1)) \div (b * a) = q2
  BY <1>4, DivisionUnique
<1>6. QED
  BY <1>1, <1>2, <1>3, <1>5

(***************************************************************************)
(* A function is defined by what it is at 0 and by how it goes on.         *)
(***************************************************************************)
StartsAs(f, x0, F, n) == DOMAIN f = 0 .. n /\ f[0] = x0 /\ \A k \in 1 .. n : f[k] = F[<<f[k - 1], k>>]

\* Two that begin alike go on alike.
LEMMA StartsAlike ==
  ASSUME NEW x0, NEW F, NEW n \in Nat, NEW m \in Nat, NEW f, NEW g,
         StartsAs(f, x0, F, n), StartsAs(g, x0, F, m)
  PROVE  \A k \in Nat : k <= n /\ k <= m => f[k] = g[k]
<1>1. PICK T : T = {k \in Nat : k <= n /\ k <= m /\ f[k] # g[k]}
  OBVIOUS
<1>2. T = {}
  <2> SUFFICES ASSUME T # {} PROVE FALSE
    OBVIOUS
  <2>1. PICK k \in T : \A j \in T : k <= j
    BY <1>1, LeastNumber
  <2>2. k \in Nat /\ k <= n /\ k <= m /\ f[k] # g[k]
    BY <1>1, <2>1
  <2>3. k # 0
    BY <2>2 DEF StartsAs
  <2>4. k \in 1 .. n /\ k \in 1 .. m /\ k - 1 \in Nat /\ k - 1 \notin T /\ k - 1 <= n /\ k - 1 <= m
    BY <2>1, <2>2, <2>3
  <2>5. f[k - 1] = g[k - 1]
    BY <1>1, <2>4
  <2>6. f[k] = F[<<f[k - 1], k>>] /\ g[k] = F[<<g[k - 1], k>>]
    BY <2>4 DEF StartsAs
  <2>7. QED
    BY <2>2, <2>5, <2>6
<1>3. QED
  BY <1>1, <1>2

\* The whole of it.
Recurs(f, S, x0, F) ==
  f \in [Nat -> S] /\ f[0] = x0 /\ \A k \in Nat \ {0} : f[k] = F[<<f[k - 1], k>>]

\* There is one that goes on for ever.
LEMMA Recursion ==
  ASSUME NEW S, NEW x0 \in S, NEW F \in [S \X Nat -> S]
  PROVE  \E f : Recurs(f, S, x0, F)
<1>1. PICK T : T = {n \in Nat : ~\E f : StartsAs(f, x0, F, n) /\ \A k \in 0 .. n : f[k] \in S}
  OBVIOUS
<1>2. T = {}
  <2> SUFFICES ASSUME T # {} PROVE FALSE
    OBVIOUS
  <2>1. PICK n \in T : \A m \in T : n <= m
    BY <1>1, LeastNumber
  <2>2. n \in Nat /\ ~\E f : StartsAs(f, x0, F, n) /\ \A k \in 0 .. n : f[k] \in S
    BY <1>1, <2>1
  <2>3. CASE n = 0
    <3>1. PICK f : f = [k \in 0 .. 0 |-> x0]
      OBVIOUS
    <3>2. StartsAs(f, x0, F, 0) /\ \A k \in 0 .. 0 : f[k] \in S
      BY <3>1 DEF StartsAs
    <3>3. QED
      BY <2>2, <2>3, <3>2
  <2>4. CASE n # 0
    <3>1. n - 1 \in Nat /\ n - 1 \notin T
      BY <2>1, <2>2, <2>4
    <3>2. PICK g : StartsAs(g, x0, F, n - 1) /\ \A k \in 0 .. n - 1 : g[k] \in S
      BY <1>1, <3>1
    <3>3. PICK f : f = [k \in 0 .. n |-> IF k = n THEN F[<<g[n - 1], n>>] ELSE g[k]]
      OBVIOUS
    <3>4. n - 1 \in 0 .. n - 1 /\ 0 \in 0 .. n /\ n \in 0 .. n /\ n # 0
      BY <2>2, <2>4, <3>1
    <3>5. DOMAIN f = 0 .. n /\ f[0] = x0 /\ f[n] = F[<<g[n - 1], n>>] /\ f[n - 1] = g[n - 1]
      BY <3>2, <3>3, <3>4 DEF StartsAs
    <3>6. \A k \in 1 .. n : f[k] = F[<<f[k - 1], k>>]
      <4>1. ASSUME NEW k \in 1 .. n PROVE f[k] = F[<<f[k - 1], k>>]
        <5>1. CASE k = n
          BY <3>5, <5>1
        <5>2. CASE k # n
          <6>1. k \in 1 .. n - 1 /\ k \in 0 .. n /\ k - 1 \in 0 .. n /\ k - 1 # n
            BY <5>2, <2>2
          <6>2. f[k] = g[k] /\ f[k - 1] = g[k - 1]
            BY <3>3, <5>2, <6>1
          <6>3. g[k] = F[<<g[k - 1], k>>]
            BY <3>2, <6>1 DEF StartsAs
          <6>4. QED
            BY <6>2, <6>3
        <5>3. QED
          BY <5>1, <5>2
      <4>2. QED
        BY <4>1
    <3>7. \A k \in 0 .. n : f[k] \in S
      <4>1. g[n - 1] \in S /\ F[<<g[n - 1], n>>] \in S
        BY <2>2, <3>2, <3>4
      <4>2. \A k \in 0 .. n : k = n \/ k \in 0 .. n - 1
        BY <2>2
      <4>3. QED
        BY <3>2, <3>3, <4>1, <4>2
    <3>8. StartsAs(f, x0, F, n)
      BY <3>5, <3>6 DEF StartsAs
    <3>9. QED
      BY <2>2, <3>7, <3>8
  <2>5. QED
    BY <2>3, <2>4
<1>3. PICK h : h = [n \in Nat |-> CHOOSE f : StartsAs(f, x0, F, n) /\ \A k \in 0 .. n : f[k] \in S]
  OBVIOUS
<1>4. \A n \in Nat : StartsAs(h[n], x0, F, n) /\ \A k \in 0 .. n : h[n][k] \in S
  <2>1. ASSUME NEW n \in Nat PROVE StartsAs(h[n], x0, F, n) /\ \A k \in 0 .. n : h[n][k] \in S
    <3>1. h[n] = CHOOSE f : StartsAs(f, x0, F, n) /\ \A k \in 0 .. n : f[k] \in S
      BY <1>3
    <3>2. \E f : StartsAs(f, x0, F, n) /\ \A k \in 0 .. n : f[k] \in S
      BY <1>1, <1>2
    <3>3. QED
      BY <3>1, <3>2
  <2>2. QED
    BY <2>1
<1>5. PICK f : f = [n \in Nat |-> h[n][n]]
  OBVIOUS
<1>6. f \in [Nat -> S]
  <2>1. \A n \in Nat : n \in 0 .. n
    OBVIOUS
  <2>2. QED
    BY <1>4, <1>5, <2>1
<1>7. f[0] = x0
  BY <1>4, <1>5 DEF StartsAs
<1>8. ASSUME NEW k \in Nat \ {0} PROVE f[k] = F[<<f[k - 1], k>>]
  <2>1. k - 1 \in Nat /\ k \in Nat /\ k \in 1 .. k
    OBVIOUS
  <2>2. h[k][k] = F[<<h[k][k - 1], k>>]
    BY <1>4, <2>1 DEF StartsAs
  <2>3. h[k][k - 1] = h[k - 1][k - 1]
    <3>1. PICK g1 : g1 = h[k]
      OBVIOUS
    <3>2. PICK g2 : g2 = h[k - 1]
      OBVIOUS
    <3>3. PICK m \in Nat : m = k - 1
      BY <2>1
    <3>4. StartsAs(g1, x0, F, k) /\ StartsAs(g2, x0, F, m)
      BY <1>4, <2>1, <3>1, <3>2, <3>3
    <3>5. \A j \in Nat : j <= k /\ j <= m => g1[j] = g2[j]
      BY <2>1, <3>4, StartsAlike
    <3>6. QED
      BY <2>1, <3>1, <3>2, <3>3, <3>5
  <2>4. QED
    BY <1>5, <2>1, <2>2, <2>3
<1>9. QED
  BY <1>6, <1>7, <1>8 DEF Recurs

\* How many values k bytes have.
LEMMA Weights ==
  /\ ByteCnt \in Nat /\ ByteCnt >= 4
  /\ Weight \in [Nat -> Nat \ {0}] /\ Weight[0] = 1
  /\ \A k \in Nat \ {0} : Weight[k] = ByteCnt * Weight[k - 1]
<1>1. ByteCnt \in Nat /\ ByteCnt >= 4
  BY WireAssumption DEF ByteCnt
<1>2. PICK S : S = Nat \ {0}
  OBVIOUS
<1>3. PICK F : F = [x \in S \X Nat |-> ByteCnt * x[1]]
  OBVIOUS
<1>4. PICK f : f \in [Nat -> S] /\ f[0] = 1 /\ \A k \in Nat \ {0} : f[k] = F[<<f[k - 1], k>>]
  <2>1. 1 \in S /\ \A x \in S \X Nat : ByteCnt * x[1] \in S
    BY <1>1, <1>2
  <2>2. F \in [S \X Nat -> S]
    BY <1>3, <2>1
  <2>3. \E f : Recurs(f, S, 1, F)
    BY <2>1, <2>2, Recursion
  <2>4. QED
    BY <2>3 DEF Recurs
<1>5. \A k \in Nat \ {0} : f[k] = ByteCnt * f[k - 1]
  <2>1. \A k \in Nat \ {0} : k - 1 \in Nat /\ k \in Nat /\ f[k - 1] \in S
    BY <1>4
  <2>2. QED
    BY <1>2, <1>3, <1>4, <2>1
<1>6. f = [k \in Nat |-> IF k = 0 THEN 1 ELSE ByteCnt * f[k - 1]]
  <2>1. f = [k \in Nat |-> f[k]] /\ \A k \in Nat : f[k] = IF k = 0 THEN 1 ELSE ByteCnt * f[k - 1]
    BY <1>4, <1>5
  <2>2. QED
    BY ONLY <2>1
<1>7. Weight = [k \in Nat |-> IF k = 0 THEN 1 ELSE ByteCnt * Weight[k - 1]]
  BY <1>6, Zenon DEF Weight
<1>8. PICK T : T = {k \in Nat : Weight[k] # f[k]}
  OBVIOUS
<1>9. T = {}
  <2> SUFFICES ASSUME T # {} PROVE FALSE
    OBVIOUS
  <2>1. PICK k \in T : \A j \in T : k <= j
    BY <1>8, LeastNumber
  <2>2. k \in Nat /\ Weight[k] # f[k]
    BY <1>8, <2>1
  <2>3. k # 0
    BY <1>4, <1>7, <2>2
  <2>4. k - 1 \in Nat /\ k - 1 \notin T
    BY <2>1, <2>2, <2>3
  <2>5. Weight[k - 1] = f[k - 1]
    BY <1>8, <2>4
  <2>6. QED
    BY <1>5, <1>7, <2>2, <2>3, <2>5
<1>10. \A k \in Nat : Weight[k] = f[k]
  BY <1>8, <1>9
<1>11. Weight \in [Nat -> Nat \ {0}]
  <2>1. Weight = [k \in Nat |-> Weight[k]]
    BY <1>7
  <2>2. QED
    BY <1>2, <1>4, <1>10, <2>1
<1>12. QED
  BY <1>1, <1>2, <1>4, <1>5, <1>10, <1>11

(***************************************************************************)
(* Bytes and what stands among them.                                       *)
(***************************************************************************)
OneByte == 0 .. ByteCnt - 1
\* Sequence s is found among the bytes from place `at` on.
Stands(bytes, at, s) == \A j \in 1 .. Len(s) : bytes[at + j - 1] = s[j]

\* A function on the first numbers is a sequence.
LEMMA FunctionIsSeq ==
  ASSUME NEW S, NEW n \in Nat, NEW f \in [1 .. n -> S]
  PROVE  f \in Seq(S) /\ Len(f) = n /\ DOMAIN f = 1 .. n
  OBVIOUS

\* The bytes of a number.
LEMMA PutBytesOf ==
  ASSUME NEW n \in Nat, NEW x \in Nat
  PROVE  /\ Put(x, n) \in Seq(OneByte) /\ Len(Put(x, n)) = n
         /\ \A i \in 1 .. n : Put(x, n)[i] = (x \div Weight[n - i]) % ByteCnt
<1>1. \A i \in 1 .. n : n - i \in Nat
  OBVIOUS
<1>2. \A i \in 1 .. n : Weight[n - i] \in Nat /\ Weight[n - i] > 0
  BY <1>1, Weights
<1>3. \A i \in 1 .. n : x \div Weight[n - i] \in Nat
  BY <1>2, Division
<1>4. \A i \in 1 .. n : (x \div Weight[n - i]) % ByteCnt \in OneByte
  BY <1>3, Division, Weights DEF OneByte
<1>5. Put(x, n) \in [1 .. n -> OneByte] /\ \A i \in 1 .. n : Put(x, n)[i] = (x \div Weight[n - i]) % ByteCnt
  BY <1>4 DEF Put
<1>6. QED
  BY <1>5, FunctionIsSeq

\* A number that is read is the one that was written, if it fits.
LEMMA GetPut ==
  ASSUME NEW n \in Nat, NEW x \in Nat, x < Weight[n], NEW bytes, NEW at \in Nat, Stands(bytes, at, Put(x, n))
  PROVE  Get(bytes, at, n) = x
<1>1. \A k \in 0 .. n : n - k \in Nat /\ Weight[n - k] \in Nat /\ Weight[n - k] > 0 /\ x \div Weight[n - k] \in Nat
  <2>1. \A k \in 0 .. n : n - k \in Nat
    OBVIOUS
  <2>2. \A k \in 0 .. n : Weight[n - k] \in Nat /\ Weight[n - k] > 0
    BY <2>1, Weights
  <2>3. QED
    BY <2>1, <2>2, Division
<1>2. PICK g : g = [k \in 0 .. n |-> x \div Weight[n - k]]
  OBVIOUS
<1>3. g[0] = 0
  <2>1. Weight[n] \in Nat /\ Weight[n] > 0 /\ n - 0 = n /\ 0 \in 0 .. n
    BY Weights
  <2>2. (0 * Weight[n] + x) \div Weight[n] = 0
    BY <2>1, DivisionUnique
  <2>3. QED
    BY <1>2, <2>1, <2>2
<1>4. g[n] = x
  <2>1. n - n = 0 /\ Weight[0] = 1 /\ n \in 0 .. n
    BY Weights
  <2>2. x \div 1 = x
    OBVIOUS
  <2>3. QED
    BY <1>2, <2>1, <2>2
<1>5. ASSUME NEW k \in 1 .. n PROVE g[k] = ByteCnt * g[k - 1] + bytes[at + k - 1]
  <2>1. k \in 0 .. n /\ k - 1 \in 0 .. n /\ n - k \in Nat /\ n - (k - 1) = (n - k) + 1 /\ (n - k) + 1 \in Nat \ {0}
    OBVIOUS
  <2>2. Weight[n - (k - 1)] = ByteCnt * Weight[n - k]
    BY <2>1, Weights
  <2>3. (x \div Weight[n - k]) \div ByteCnt = x \div (ByteCnt * Weight[n - k])
    <3>1. PICK w \in Nat : w = Weight[n - k] /\ w > 0
      BY <1>1, <2>1
    <3>2. ByteCnt \in Nat /\ ByteCnt > 0
      BY Weights
    <3>3. (x \div w) \div ByteCnt = x \div (ByteCnt * w)
      BY <3>1, <3>2, DivideAgain
    <3>4. QED
      BY <3>1, <3>3
  <2>4. PICK y \in Nat : y = x \div Weight[n - k]
    BY <1>1, <2>1
  <2>5. y = (y \div ByteCnt) * ByteCnt + (y % ByteCnt)
    BY Division, Weights
  <2>6. g[k] = y /\ g[k - 1] = y \div ByteCnt
    BY <1>2, <2>1, <2>2, <2>3, <2>4
  <2>7. Put(x, n)[k] = y % ByteCnt /\ Len(Put(x, n)) = n
    BY <2>4, PutBytesOf
  <2>8. bytes[at + k - 1] = y % ByteCnt
    BY <2>7 DEF Stands
  <2>9. (y \div ByteCnt) * ByteCnt = ByteCnt * (y \div ByteCnt)
    <3>1. y \div ByteCnt \in Nat /\ ByteCnt \in Nat
      <4>1. PICK w \in Nat : w = ByteCnt /\ w > 0
        BY Weights
      <4>2. y \div w \in Nat
        BY <4>1, Division
      <4>3. QED
        BY <4>1, <4>2
    <3>2. \A a, b \in Nat : a * b = b * a
      OBVIOUS
    <3>3. QED
      BY <3>1, <3>2
  <2>10. QED
    BY <2>5, <2>6, <2>8, <2>9
<1>6. g = [k \in 0 .. n |-> IF k = 0 THEN 0 ELSE ByteCnt * g[k - 1] + bytes[at + k - 1]]
  <2>1. \A k \in 0 .. n : g[k] = IF k = 0 THEN 0 ELSE ByteCnt * g[k - 1] + bytes[at + k - 1]
    <3>1. \A k \in 0 .. n : k # 0 => k \in 1 .. n
      OBVIOUS
    <3>2. QED
      BY <1>3, <1>5, <3>1
  <2>2. g = [k \in 0 .. n |-> g[k]]
    BY <1>2
  <2>3. QED
    BY ONLY <2>1, <2>2
<1>7. PICK read : read = CHOOSE f : f = [k \in 0 .. n |-> IF k = 0 THEN 0 ELSE ByteCnt * f[k - 1] + bytes[at + k - 1]]
  OBVIOUS
<1>8. read = [k \in 0 .. n |-> IF k = 0 THEN 0 ELSE ByteCnt * read[k - 1] + bytes[at + k - 1]]
  BY <1>6, <1>7, Zenon
<1>9. PICK T : T = {k \in Nat : k <= n /\ read[k] # g[k]}
  OBVIOUS
<1>10. T = {}
  <2> SUFFICES ASSUME T # {} PROVE FALSE
    OBVIOUS
  <2>1. PICK k \in T : \A j \in T : k <= j
    BY <1>9, LeastNumber
  <2>2. k \in 0 .. n /\ read[k] # g[k]
    BY <1>9, <2>1
  <2>3. k # 0
    BY <1>3, <1>8, <2>2
  <2>4. k - 1 \in Nat /\ k - 1 \notin T /\ k - 1 <= n /\ k \in 1 .. n
    BY <2>1, <2>2, <2>3
  <2>5. read[k - 1] = g[k - 1]
    BY <1>9, <2>4
  <2>6. read[k] = ByteCnt * read[k - 1] + bytes[at + k - 1]
    BY <1>8, <2>2, <2>3
  <2>7. QED
    BY <1>5, <2>2, <2>4, <2>5, <2>6
<1>11. read[n] = g[n]
  BY <1>9, <1>10
<1>12. Get(bytes, at, n) = read[n]
  BY <1>7 DEF Get
<1>13. QED
  BY <1>4, <1>11, <1>12

\* What stands after each other.
LEMMA StandsBoth ==
  ASSUME NEW S, NEW s \in Seq(S), NEW t \in Seq(S), NEW bytes, NEW at \in Nat
  PROVE  Stands(bytes, at, s \o t) <=> Stands(bytes, at, s) /\ Stands(bytes, at + Len(s), t)
<1>1. /\ Len(s) \in Nat /\ Len(t) \in Nat /\ Len(s \o t) = Len(s) + Len(t)
      /\ \A i \in 1 .. Len(s) + Len(t) : (s \o t)[i] = IF i <= Len(s) THEN s[i] ELSE t[i - Len(s)]
  BY ConcatProperties, LenProperties
<1>2. PICK m \in Nat : m = Len(s)
  BY <1>1
<1>3. PICK n \in Nat : n = Len(t)
  BY <1>1
<1>4. ASSUME Stands(bytes, at, s \o t) PROVE Stands(bytes, at, s)
  <2>1. \A j \in 1 .. m : j \in 1 .. m + n /\ j <= m
    OBVIOUS
  <2>2. QED
    BY <1>1, <1>2, <1>3, <1>4, <2>1 DEF Stands
<1>5. ASSUME Stands(bytes, at, s \o t) PROVE Stands(bytes, at + Len(s), t)
  <2> SUFFICES ASSUME NEW j \in 1 .. n PROVE bytes[at + m + j - 1] = t[j]
    BY <1>2, <1>3 DEF Stands
  <2>1. m + j \in 1 .. m + n /\ ~(m + j <= m) /\ (m + j) - m = j /\ at + (m + j) - 1 = at + m + j - 1
    OBVIOUS
  <2>2. (s \o t)[m + j] = t[j]
    BY <1>1, <1>2, <1>3, <2>1
  <2>3. bytes[at + (m + j) - 1] = (s \o t)[m + j]
    BY <1>1, <1>2, <1>3, <1>5, <2>1 DEF Stands
  <2>4. QED
    BY <2>1, <2>2, <2>3
<1>6. ASSUME Stands(bytes, at, s), Stands(bytes, at + Len(s), t) PROVE Stands(bytes, at, s \o t)
  <2> SUFFICES ASSUME NEW i \in 1 .. m + n PROVE bytes[at + i - 1] = (s \o t)[i]
    BY <1>1, <1>2, <1>3 DEF Stands
  <2>1. CASE i <= m
    <3>1. i \in 1 .. m
      BY <2>1
    <3>2. QED
      BY <1>1, <1>2, <1>3, <1>6, <2>1, <3>1 DEF Stands
  <2>2. CASE i > m
    <3>1. i - m \in 1 .. n /\ at + m + (i - m) - 1 = at + i - 1 /\ ~(i <= m)
      BY <2>2
    <3>2. bytes[at + m + (i - m) - 1] = t[i - m]
      BY <1>2, <1>3, <1>6, <3>1 DEF Stands
    <3>3. QED
      BY <1>1, <1>2, <1>3, <3>1, <3>2
  <2>3. QED
    BY <1>2, <1>3, <2>1, <2>2
<1>7. QED
  BY <1>4, <1>5, <1>6

(***************************************************************************)
(* FlattenSeq, as the parts that were put together up to each of them.     *)
(***************************************************************************)
UpTo(u, s, n, S) == u \in [0 .. n -> Seq(S)] /\ u[0] = <<>> /\ \A k \in 1 .. n : u[k] = u[k - 1] \o s[k]

\* What FlattenSeq puts together.
LEMMA Flattened ==
  ASSUME NEW S, NEW n \in Nat, NEW s \in [1 .. n -> Seq(S)]
  PROVE  \E u : UpTo(u, s, n, S) /\ FlattenSeq(s) = u[n]
<1>1. s \in Seq(Seq(S)) /\ Len(s) = n /\ DOMAIN s = 1 .. n
  <2>1. PICK R : R = Seq(S)
    OBVIOUS
  <2>2. QED
    BY <2>1, FunctionIsSeq
<1>2. PICK R : R = Seq(S)
  OBVIOUS
<1>3. PICK F : F = [x \in R \X Nat |-> IF x[2] \in 1 .. n THEN x[1] \o s[x[2]] ELSE x[1]]
  OBVIOUS
<1>4. <<>> \in R /\ \A x \in R, k \in 1 .. n : x \o s[k] \in R
  BY <1>2, EmptySeq, ConcatProperties
<1>5. F \in [R \X Nat -> R]
  BY <1>3, <1>4
<1>6. PICK f : Recurs(f, R, <<>>, F)
  BY <1>4, <1>5, Recursion
<1>7. PICK u : u = [k \in 0 .. n |-> f[k]]
  OBVIOUS
<1>8. u \in [0 .. n -> R] /\ u[0] = <<>>
  BY <1>6, <1>7 DEF Recurs
<1>9. ASSUME NEW k \in 1 .. n PROVE u[k] = u[k - 1] \o s[k]
  <2>1. k \in Nat \ {0} /\ k - 1 \in Nat /\ k \in 0 .. n /\ k - 1 \in 0 .. n
    OBVIOUS
  <2>2. f[k] = F[<<f[k - 1], k>>] /\ f[k - 1] \in R
    BY <1>6, <2>1 DEF Recurs
  <2>3. F[<<f[k - 1], k>>] = f[k - 1] \o s[k]
    BY <1>3, <2>1, <2>2
  <2>4. QED
    BY <1>7, <2>1, <2>2, <2>3
<1>10. UpTo(u, s, n, S)
  BY <1>2, <1>8, <1>9 DEF UpTo
<1>11. CASE n = 0
  <2>1. s = <<>>
    BY <1>1, <1>11, EmptySeq
  <2>2. QED
    BY <1>1, <1>8, <1>10, <1>11, <2>1 DEF FlattenSeq
<1>12. CASE n # 0
  <2>1. PICK g : g = [i \in 1 .. n |-> u[i]]
    OBVIOUS
  <2>2. g = [i \in 1 .. n |-> IF i = 1 THEN s[i] ELSE g[i - 1] \o s[i]]
    <3>1. ASSUME NEW i \in 1 .. n PROVE g[i] = IF i = 1 THEN s[i] ELSE g[i - 1] \o s[i]
      <4>1. CASE i = 1
        <5>1. u[1] = <<>> \o s[1] /\ s[1] \in Seq(S)
          <6>1. 1 \in 1 .. n /\ 1 - 1 = 0
            BY <4>1
          <6>2. u[1] = u[1 - 1] \o s[1] /\ s[1] \in Seq(S)
            BY <1>9, <6>1
          <6>3. QED
            BY <1>8, <6>1, <6>2
        <5>2. <<>> \o s[1] = s[1]
          BY <5>1, ConcatEmptySeq
        <5>3. QED
          BY <2>1, <4>1, <5>1, <5>2
      <4>2. CASE i # 1
        <5>1. i - 1 \in 1 .. n
          BY <4>2
        <5>2. QED
          BY <1>9, <2>1, <4>2, <5>1
      <4>3. QED
        BY <4>1, <4>2
    <3>2. g = [i \in 1 .. n |-> g[i]]
      BY <2>1
    <3>3. QED
      BY ONLY <3>1, <3>2
  <2>3. PICK h : h = CHOOSE e : e = [i \in 1 .. n |-> IF i = 1 THEN s[i] ELSE e[i - 1] \o s[i]]
    OBVIOUS
  <2>4. h = [i \in 1 .. n |-> IF i = 1 THEN s[i] ELSE h[i - 1] \o s[i]]
    BY <2>2, <2>3, Zenon
  <2>5. PICK T : T = {i \in Nat : i \in 1 .. n /\ h[i] # g[i]}
    OBVIOUS
  <2>6. T = {}
    <3> SUFFICES ASSUME T # {} PROVE FALSE
      OBVIOUS
    <3>1. PICK i \in T : \A j \in T : i <= j
      BY <2>5, LeastNumber
    <3>2. i \in 1 .. n /\ h[i] # g[i]
      BY <2>5, <3>1
    <3>3. h[i] = (IF i = 1 THEN s[i] ELSE h[i - 1] \o s[i]) /\ g[i] = (IF i = 1 THEN s[i] ELSE g[i - 1] \o s[i])
      BY <2>2, <2>4, <3>2
    <3>4. i # 1
      BY <3>2, <3>3
    <3>5. i - 1 \in 1 .. n /\ i - 1 \in Nat /\ ~(i <= i - 1)
      BY <3>2, <3>4
    <3>6. h[i - 1] = g[i - 1]
      BY <2>5, <3>1, <3>5
    <3>7. QED
      BY <3>2, <3>3, <3>6
  <2>7. h[n] = g[n] /\ n \in 1 .. n
    <3>1. n \in Nat /\ n \in 1 .. n
      BY <1>12
    <3>2. QED
      BY <2>5, <2>6, <3>1
  <2>8. FlattenSeq(s) = h[n]
    BY <1>1, <1>12, <2>3 DEF FlattenSeq
  <2>9. QED
    BY <1>10, <2>1, <2>7, <2>8
<1>13. QED
  BY <1>11, <1>12

\* If the whole stands somewhere, its parts do.
LEMMA PartsStand ==
  ASSUME NEW S, NEW n \in Nat, NEW s \in [1 .. n -> Seq(S)], NEW u, UpTo(u, s, n, S),
         NEW bytes, NEW at \in Nat, Stands(bytes, at, u[n])
  PROVE  /\ \A k \in 0 .. n : u[k] \in Seq(S) /\ Len(u[k]) \in Nat
         /\ \A k \in 1 .. n : /\ Len(u[k]) = Len(u[k - 1]) + Len(s[k])
                              /\ Stands(bytes, at + Len(u[k - 1]), s[k])
<1>1. \A k \in 0 .. n : u[k] \in Seq(S) /\ Len(u[k]) \in Nat
  BY LenProperties DEF UpTo
<1>2. \A k \in 1 .. n : k - 1 \in 0 .. n /\ k \in 0 .. n /\ s[k] \in Seq(S) /\ u[k] = u[k - 1] \o s[k]
  <2>1. \A k \in 1 .. n : k - 1 \in 0 .. n /\ k \in 0 .. n
    OBVIOUS
  <2>2. \A k \in 1 .. n : s[k] \in Seq(S)
    OBVIOUS
  <2>3. \A k \in 1 .. n : u[k] = u[k - 1] \o s[k]
    BY DEF UpTo
  <2>4. QED
    BY <2>1, <2>2, <2>3
<1>3. PICK T : T = {d \in Nat : d <= n /\ ~Stands(bytes, at, u[n - d])}
  OBVIOUS
<1>4. T = {}
  <2> SUFFICES ASSUME T # {} PROVE FALSE
    OBVIOUS
  <2>1. PICK d \in T : \A e \in T : d <= e
    BY <1>3, LeastNumber
  <2>2. d \in Nat /\ d <= n /\ ~Stands(bytes, at, u[n - d])
    BY <1>3, <2>1
  <2>3. d # 0
    <3>1. n - 0 = n
      OBVIOUS
    <3>2. QED
      BY <2>2, <3>1
  <2>4. d - 1 \in Nat /\ d - 1 \notin T /\ d - 1 <= n
    BY <2>1, <2>2, <2>3
  <2>5. PICK k \in 1 .. n : k = n - (d - 1) /\ k - 1 = n - d
    BY <2>2, <2>3
  <2>6. Stands(bytes, at, u[k])
    BY <1>3, <2>4, <2>5
  <2>7. Stands(bytes, at, u[k - 1] \o s[k]) /\ u[k - 1] \in Seq(S) /\ s[k] \in Seq(S)
    BY <1>1, <1>2, <2>5, <2>6
  <2>8. Stands(bytes, at, u[k - 1])
    BY <2>7, StandsBoth
  <2>9. QED
    BY <2>2, <2>5, <2>8
<1>5. \A k \in 0 .. n : Stands(bytes, at, u[k])
  <2>1. \A k \in 0 .. n : n - k \in Nat /\ n - k <= n /\ n - (n - k) = k
    OBVIOUS
  <2>2. QED
    BY <1>3, <1>4, <2>1
<1>6. ASSUME NEW k \in 1 .. n
      PROVE  Len(u[k]) = Len(u[k - 1]) + Len(s[k]) /\ Stands(bytes, at + Len(u[k - 1]), s[k])
  <2>1. Stands(bytes, at, u[k - 1] \o s[k]) /\ u[k - 1] \in Seq(S) /\ s[k] \in Seq(S) /\ u[k] = u[k - 1] \o s[k]
    BY <1>1, <1>2, <1>5
  <2>2. Stands(bytes, at + Len(u[k - 1]), s[k])
    BY <2>1, StandsBoth
  <2>3. Len(u[k]) = Len(u[k - 1]) + Len(s[k])
    BY <2>1, ConcatProperties
  <2>4. QED
    BY <2>2, <2>3
<1>7. QED
  BY <1>1, <1>6

\* The lengths alone.
LengthsOf(u, s, n, S) ==
  /\ \A k \in 0 .. n : u[k] \in Seq(S) /\ Len(u[k]) \in Nat
  /\ \A k \in 1 .. n : Len(u[k]) = Len(u[k - 1]) + Len(s[k])

\* Each part adds its length.
LEMMA PartsLengths ==
  ASSUME NEW S, NEW n \in Nat, NEW s \in [1 .. n -> Seq(S)], NEW u, UpTo(u, s, n, S)
  PROVE  LengthsOf(u, s, n, S)
<1>1. \A k \in 0 .. n : u[k] \in Seq(S) /\ Len(u[k]) \in Nat
  BY LenProperties DEF UpTo
<1>2. \A k \in 1 .. n : k - 1 \in 0 .. n /\ k \in 0 .. n /\ s[k] \in Seq(S) /\ u[k] = u[k - 1] \o s[k]
  <2>1. \A k \in 1 .. n : k - 1 \in 0 .. n /\ k \in 0 .. n
    OBVIOUS
  <2>2. \A k \in 1 .. n : s[k] \in Seq(S)
    OBVIOUS
  <2>3. \A k \in 1 .. n : u[k] = u[k - 1] \o s[k]
    BY DEF UpTo
  <2>4. QED
    BY <2>1, <2>2, <2>3
<1>3. \A k \in 1 .. n : Len(u[k]) = Len(u[k - 1]) + Len(s[k])
  BY <1>1, <1>2, ConcatProperties
<1>4. QED
  BY <1>1, <1>3 DEF LengthsOf

\* Parts of one length.
AlikeStand(t, s, n, w) ==
  \A bytes : \A at \in Nat :
    Stands(bytes, at, t) => \A k \in 1 .. n : Stands(bytes, at + (k - 1) * w, s[k])

\* They stand at multiples of their length.
LEMMA AlikeParts ==
  ASSUME NEW S, NEW n \in Nat, NEW s \in [1 .. n -> Seq(S)], NEW w \in Nat,
         \A k \in 1 .. n : Len(s[k]) = w
  PROVE  /\ FlattenSeq(s) \in Seq(S) /\ Len(FlattenSeq(s)) = n * w
         /\ AlikeStand(FlattenSeq(s), s, n, w)
<1>1. PICK u : UpTo(u, s, n, S) /\ FlattenSeq(s) = u[n]
  BY Flattened
<1>2. /\ \A k \in 0 .. n : u[k] \in Seq(S) /\ Len(u[k]) \in Nat
      /\ \A k \in 1 .. n : Len(u[k]) = Len(u[k - 1]) + Len(s[k])
  <2>1. UpTo(u, s, n, S)
    BY <1>1
  <2>2. LengthsOf(u, s, n, S)
    BY <2>1, PartsLengths
  <2>3. QED
    BY <2>2 DEF LengthsOf
<1>3. u[0] = <<>>
  BY <1>1 DEF UpTo
<1>4. PICK T : T = {k \in Nat : k <= n /\ Len(u[k]) # k * w}
  OBVIOUS
<1>5. T = {}
  <2> SUFFICES ASSUME T # {} PROVE FALSE
    OBVIOUS
  <2>1. PICK k \in T : \A j \in T : k <= j
    BY <1>4, LeastNumber
  <2>2. k \in 0 .. n /\ Len(u[k]) # k * w
    BY <1>4, <2>1
  <2>3. k # 0
    <3>1. Len(u[0]) = 0 /\ 0 * w = 0
      BY <1>3, EmptySeq
    <3>2. QED
      BY <2>2, <3>1
  <2>4. k - 1 \in Nat /\ k - 1 \notin T /\ k - 1 <= n /\ k \in 1 .. n
    BY <2>1, <2>2, <2>3
  <2>5. Len(u[k - 1]) = (k - 1) * w
    BY <1>4, <2>4
  <2>6. Len(u[k]) = (k - 1) * w + w
    BY <1>2, <2>4, <2>5
  <2>7. (k - 1) * w + w = k * w
    BY <2>4
  <2>8. QED
    BY <2>2, <2>6, <2>7
<1>6. \A k \in 0 .. n : Len(u[k]) = k * w
  BY <1>4, <1>5
<1>7. ASSUME NEW bytes, NEW at \in Nat, Stands(bytes, at, FlattenSeq(s)), NEW k \in 1 .. n
      PROVE  Stands(bytes, at + (k - 1) * w, s[k])
  <2>1. Stands(bytes, at, u[n])
    BY <1>1, <1>7
  <2>2. Stands(bytes, at + Len(u[k - 1]), s[k])
    BY <1>1, <2>1, PartsStand
  <2>3. k - 1 \in 0 .. n
    OBVIOUS
  <2>4. QED
    BY <1>6, <2>2, <2>3
<1>8. n \in 0 .. n
  OBVIOUS
<1>9. AlikeStand(FlattenSeq(s), s, n, w)
  BY <1>7 DEF AlikeStand
<1>10. QED
  BY <1>1, <1>2, <1>6, <1>8, <1>9

(***************************************************************************)
(* The packets there are: every field a number its bytes can hold.         *)
(***************************************************************************)
Field(n) == 0 .. Weight[n] - 1
\* The fields a header of type t can have.
FieldsOf(t) ==
  IF t = "READ" THEN {s \in Seq(Field(2) \X Field(2)) : 6 + 4 * Len(s) < Weight[2]}
  ELSE {f \in [1 .. Len(Widths[t]) -> Nat] : \A i \in 1 .. Len(Widths[t]) : f[i] \in Field(Widths[t][i])}
\* The optional headers a packet can carry (PacketOptionalAbstractHeader).
OptionalHeader ==
  UNION {[type : {t}, info : FieldsOf(t)] : t \in {"ACK", "IP", "NONCE", "CHANGE", "READ"}}

\* The bytes of a number are numbers.
LEMMA PutNumbers ==
  ASSUME NEW n \in Nat, NEW x \in Nat
  PROVE  Put(x, n) \in Seq(Nat) /\ Len(Put(x, n)) = n
<1>1. Put(x, n) \in Seq(OneByte) /\ Len(Put(x, n)) = n
  BY PutBytesOf
<1>2. \A y \in OneByte : y \in Nat
  BY Weights DEF OneByte
<1>3. PICK S : S = OneByte
  OBVIOUS
<1>4. QED
  BY <1>1, <1>2, <1>3

\* The weights that fields have.
LEMMA FieldWeights ==
  /\ Weight[2] \in Nat /\ Weight[2] >= 16
  /\ \A n \in Nat : Weight[n] \in Nat /\ Weight[n] > 0
  /\ \A n \in Nat : \A x \in Field(n) : x \in Nat /\ x < Weight[n]
<1>1. \A n \in Nat : Weight[n] \in Nat /\ Weight[n] > 0
  BY Weights
<1>2. Weight[1] = ByteCnt * 1
  <2>1. 1 \in Nat \ {0} /\ 1 - 1 = 0
    OBVIOUS
  <2>2. QED
    BY <2>1, Weights
<1>3. Weight[2] = ByteCnt * ByteCnt
  <2>1. 2 \in Nat \ {0} /\ 2 - 1 = 1
    OBVIOUS
  <2>2. QED
    BY <1>2, <2>1, Weights
<1>4. ByteCnt * ByteCnt >= 16
  <2>1. \A a \in Nat : a >= 4 => a * a >= 16
    <3>1. ASSUME NEW a \in Nat, a >= 4 PROVE a * a >= 16
      <4>1. a * a >= 4 * a
        BY <3>1
      <4>2. QED
        BY <3>1, <4>1
    <3>2. QED
      BY <3>1
  <2>2. QED
    BY <2>1, Weights
<1>5. QED
  BY <1>1, <1>3, <1>4 DEF Field

\* The type numbers.
LEMMA TypeNumbers ==
  /\ TypeNo("ACK") = 1 /\ TypeNo("IP") = 2 /\ TypeNo("NONCE") = 3 /\ TypeNo("CHANGE") = 4 /\ TypeNo("READ") = 5
  /\ HeaderType[1] = "ACK" /\ HeaderType[2] = "IP" /\ HeaderType[3] = "NONCE"
  /\ HeaderType[4] = "CHANGE" /\ HeaderType[5] = "READ"
<1>1. DOMAIN HeaderType = {1, 2, 3, 4, 5}
  BY DEF HeaderType
<1>2. /\ HeaderType[1] = "ACK" /\ HeaderType[2] = "IP" /\ HeaderType[3] = "NONCE"
      /\ HeaderType[4] = "CHANGE" /\ HeaderType[5] = "READ"
  BY DEF HeaderType
<1>3. \A t, n : (\A i \in {1, 2, 3, 4, 5} : HeaderType[i] = t <=> i = n) /\ n \in {1, 2, 3, 4, 5} => TypeNo(t) = n
  BY <1>1, Zenon DEF TypeNo
<1>4. TypeNo("ACK") = 1
  BY <1>2, <1>3
<1>5. TypeNo("IP") = 2
  BY <1>2, <1>3
<1>6. TypeNo("NONCE") = 3
  BY <1>2, <1>3
<1>7. TypeNo("CHANGE") = 4
  BY <1>2, <1>3
<1>8. TypeNo("READ") = 5
  BY <1>2, <1>3
<1>9. QED
  BY <1>2, <1>4, <1>5, <1>6, <1>7, <1>8

\* The tables of widths and places.
LEMMA HeaderTables ==
  /\ Len(Widths["ACK"]) = 2 /\ Len(Widths["IP"]) = 3 /\ Len(Widths["NONCE"]) = 1 /\ Len(Widths["CHANGE"]) = 2
  /\ \A t \in {"ACK", "IP", "NONCE", "CHANGE"} : DOMAIN Widths[t] = 1 .. Len(Widths[t])
  /\ Widths["ACK"][1] = 2 /\ Widths["ACK"][2] = 2 /\ Widths["IP"][1] = 1 /\ Widths["IP"][2] = 1
  /\ Widths["IP"][3] = 4 /\ Widths["NONCE"][1] = 8 /\ Widths["CHANGE"][1] = 1 /\ Widths["CHANGE"][2] = 1
  /\ Places["ACK"][1] = 4 /\ Places["ACK"][2] = 6 /\ Places["IP"][1] = 4 /\ Places["IP"][2] = 5
  /\ Places["IP"][3] = 6 /\ Places["NONCE"][1] = 4 /\ Places["CHANGE"][1] = 4 /\ Places["CHANGE"][2] = 5
  /\ Sizes["ACK"] = 8 /\ Sizes["IP"] = 10 /\ Sizes["NONCE"] = 12 /\ Sizes["CHANGE"] = 6
<1>1. /\ Widths["ACK"] = <<2, 2>> /\ Widths["IP"] = <<1, 1, 4>> /\ Widths["NONCE"] = <<8>>
      /\ Widths["CHANGE"] = <<1, 1>>
  BY DEF Widths
<1>2. /\ Places["ACK"] = <<4, 6>> /\ Places["IP"] = <<4, 5, 6>> /\ Places["NONCE"] = <<4>>
      /\ Places["CHANGE"] = <<4, 5>>
  BY DEF Places
<1>3. Sizes["ACK"] = 8 /\ Sizes["IP"] = 10 /\ Sizes["NONCE"] = 12 /\ Sizes["CHANGE"] = 6
  BY DEF Sizes
<1>4. \A t \in {"ACK", "IP", "NONCE", "CHANGE"} : DOMAIN Widths[t] = 1 .. Len(Widths[t])
  BY <1>1
<1>5. Len(Widths["ACK"]) = 2 /\ Len(Widths["IP"]) = 3 /\ Len(Widths["NONCE"]) = 1 /\ Len(Widths["CHANGE"]) = 2
  BY <1>1
<1>6. QED
  BY <1>1, <1>2, <1>3, <1>4, <1>5

\* Where the fields of a header of fixed length stand.
PlainStands(o, t) ==
  \A bytes : \A at \in Nat : Stands(bytes, at + 4, EncodeFields(o)) =>
    \A i \in 1 .. Len(Widths[t]) : Stands(bytes, at + Places[t][i], Put(o.info[i], Widths[t][i]))

\* Every field stands at the place the table gives it.
LEMMA PlainFields ==
  ASSUME NEW t \in {"ACK", "IP", "NONCE", "CHANGE"}, NEW o \in [type : {t}, info : FieldsOf(t)]
  PROVE  /\ EncodeFields(o) \in Seq(Nat) /\ Len(EncodeFields(o)) = Sizes[t] - 4
         /\ PlainStands(o, t)
<1>1. PICK m \in Nat : m = Len(Widths[t])
  BY HeaderTables
<1>2. /\ o.type = t /\ DOMAIN o.info = 1 .. m
      /\ \A i \in 1 .. m : o.info[i] \in Nat
  BY <1>1 DEF FieldsOf
<1>3. \A i \in 1 .. m : Widths[t][i] \in Nat
  <2>1. (m = 1 /\ t = "NONCE") \/ (m = 2 /\ (t = "ACK" \/ t = "CHANGE")) \/ (m = 3 /\ t = "IP")
    BY <1>1, HeaderTables
  <2>2. \A i \in 1 .. m : i = 1 \/ (i = 2 /\ m >= 2) \/ (i = 3 /\ m >= 3)
    BY <2>1
  <2>3. QED
    BY <2>1, <2>2, HeaderTables
<1>4. PICK s : s = [i \in 1 .. m |-> Put(o.info[i], Widths[t][i])]
  OBVIOUS
<1>5. \A i \in 1 .. m : s[i] \in Seq(Nat) /\ Len(s[i]) = Widths[t][i] /\ s[i] = Put(o.info[i], Widths[t][i])
  BY <1>2, <1>3, <1>4, PutNumbers
<1>6. s \in [1 .. m -> Seq(Nat)]
  BY <1>4, <1>5
<1>7. EncodeFields(o) = FlattenSeq(s)
  BY <1>2, <1>4 DEF EncodeFields
<1>8. PICK u : UpTo(u, s, m, Nat) /\ FlattenSeq(s) = u[m]
  BY <1>6, Flattened
<1>9. LengthsOf(u, s, m, Nat)
  <2>1. UpTo(u, s, m, Nat)
    BY <1>8
  <2>2. QED
    BY <1>6, <2>1, PartsLengths
<1>10. /\ \A k \in 0 .. m : u[k] \in Seq(Nat) /\ Len(u[k]) \in Nat
       /\ \A k \in 1 .. m : Len(u[k]) = Len(u[k - 1]) + Widths[t][k]
  BY <1>5, <1>9 DEF LengthsOf
<1>11. Len(u[0]) = 0
  BY <1>8, EmptySeq DEF UpTo
<1>12. m >= 1 /\ Len(u[1]) = Widths[t][1]
  <2>1. m >= 1
    BY <1>1, HeaderTables
  <2>2. 1 \in 1 .. m /\ 1 - 1 = 0
    BY <2>1
  <2>3. Len(u[1]) = Len(u[1 - 1]) + Widths[t][1] /\ Widths[t][1] \in Nat
    BY <1>3, <1>10, <2>2
  <2>4. QED
    BY <1>11, <2>1, <2>2, <2>3
<1>13. m >= 2 => Len(u[2]) = Widths[t][1] + Widths[t][2]
  <2>1. ASSUME m >= 2 PROVE Len(u[2]) = Len(u[2 - 1]) + Widths[t][2]
    BY <1>10, <2>1
  <2>2. QED
    BY <1>12, <2>1
<1>14. m >= 3 => Len(u[3]) = Widths[t][1] + Widths[t][2] + Widths[t][3]
  <2>1. ASSUME m >= 3 PROVE Len(u[3]) = Len(u[3 - 1]) + Widths[t][3]
    BY <1>10, <2>1
  <2>2. ASSUME m >= 3 PROVE m >= 2 /\ 3 - 1 = 2
    BY <2>2
  <2>3. QED
    BY <1>13, <2>1, <2>2
<1>15. Len(u[m]) = Sizes[t] - 4 /\ \A k \in 1 .. m : Len(u[k - 1]) = Places[t][k] - 4 /\ Places[t][k] \in Nat
  <2>1. CASE t = "ACK"
    <3>1. m = 2 /\ Len(u[1]) = 2 /\ Len(u[2]) = 4
      BY <1>1, <1>12, <1>13, <2>1, HeaderTables
    <3>2. \A k \in 1 .. m : (k = 1 /\ k - 1 = 0) \/ (k = 2 /\ k - 1 = 1)
      BY <3>1
    <3>3. Places[t][1] = 4 /\ Places[t][2] = 6 /\ Sizes[t] = 8
      BY <2>1, HeaderTables
    <3>4. ASSUME NEW k \in 1 .. m PROVE Len(u[k - 1]) = Places[t][k] - 4 /\ Places[t][k] \in Nat
      <4>1. CASE k = 1 /\ k - 1 = 0
        BY <1>11, <3>1, <3>3, <4>1
      <4>2. CASE k = 2 /\ k - 1 = 1
        <5>1. Len(u[k - 1]) = 2
          BY <3>1, <4>2
        <5>2. Places[t][k] = 6
          BY <3>3, <4>2
        <5>3. QED
          BY <5>1, <5>2
      <4>3. QED
        BY <3>2, <4>1, <4>2
    <3>5. Len(u[m]) = Sizes[t] - 4
      BY <3>1, <3>3
    <3>6. QED
      BY <3>4, <3>5
  <2>2. CASE t = "IP"
    <3>1. m = 3 /\ Len(u[1]) = 1 /\ Len(u[2]) = 2 /\ Len(u[3]) = 6
      BY <1>1, <1>12, <1>13, <1>14, <2>2, HeaderTables
    <3>2. \A k \in 1 .. m : (k = 1 /\ k - 1 = 0) \/ (k = 2 /\ k - 1 = 1) \/ (k = 3 /\ k - 1 = 2)
      BY <3>1
    <3>3. Places[t][1] = 4 /\ Places[t][2] = 5 /\ Places[t][3] = 6 /\ Sizes[t] = 10
      BY <2>2, HeaderTables
    <3>4. ASSUME NEW k \in 1 .. m PROVE Len(u[k - 1]) = Places[t][k] - 4 /\ Places[t][k] \in Nat
      <4>1. CASE k = 1 /\ k - 1 = 0
        BY <1>11, <3>1, <3>3, <4>1
      <4>2. CASE k = 2 /\ k - 1 = 1
        <5>1. Len(u[k - 1]) = 1
          BY <3>1, <4>2
        <5>2. Places[t][k] = 5
          BY <3>3, <4>2
        <5>3. QED
          BY <5>1, <5>2
      <4>3. CASE k = 3 /\ k - 1 = 2
        <5>1. Len(u[k - 1]) = 2
          BY <3>1, <4>3
        <5>2. Places[t][k] = 6
          BY <3>3, <4>3
        <5>3. QED
          BY <5>1, <5>2
      <4>4. QED
        BY <3>2, <4>1, <4>2, <4>3
    <3>5. Len(u[m]) = Sizes[t] - 4
      BY <3>1, <3>3
    <3>6. QED
      BY <3>4, <3>5
  <2>3. CASE t = "NONCE"
    <3>1. m = 1 /\ Len(u[1]) = 8
      BY <1>1, <1>12, <2>3, HeaderTables
    <3>2. \A k \in 1 .. m : k = 1 /\ k - 1 = 0
      BY <3>1
    <3>3. QED
      BY <1>11, <2>3, <3>1, <3>2, HeaderTables
  <2>4. CASE t = "CHANGE"
    <3>1. m = 2 /\ Len(u[1]) = 1 /\ Len(u[2]) = 2
      BY <1>1, <1>12, <1>13, <2>4, HeaderTables
    <3>2. \A k \in 1 .. m : (k = 1 /\ k - 1 = 0) \/ (k = 2 /\ k - 1 = 1)
      BY <3>1
    <3>3. Places[t][1] = 4 /\ Places[t][2] = 5 /\ Sizes[t] = 6
      BY <2>4, HeaderTables
    <3>4. ASSUME NEW k \in 1 .. m PROVE Len(u[k - 1]) = Places[t][k] - 4 /\ Places[t][k] \in Nat
      <4>1. CASE k = 1 /\ k - 1 = 0
        BY <1>11, <3>1, <3>3, <4>1
      <4>2. CASE k = 2 /\ k - 1 = 1
        <5>1. Len(u[k - 1]) = 1
          BY <3>1, <4>2
        <5>2. Places[t][k] = 5
          BY <3>3, <4>2
        <5>3. QED
          BY <5>1, <5>2
      <4>3. QED
        BY <3>2, <4>1, <4>2
    <3>5. Len(u[m]) = Sizes[t] - 4
      BY <3>1, <3>3
    <3>6. QED
      BY <3>4, <3>5
  <2>5. QED
    BY <2>1, <2>2, <2>3, <2>4
<1>16. EncodeFields(o) = u[m] /\ u[m] \in Seq(Nat)
  <2>1. m \in 0 .. m
    OBVIOUS
  <2>2. QED
    BY <1>7, <1>8, <1>10, <2>1
<1>17. ASSUME NEW bytes, NEW at \in Nat, Stands(bytes, at + 4, EncodeFields(o)), NEW i \in 1 .. m
       PROVE  Stands(bytes, at + Places[t][i], Put(o.info[i], Widths[t][i]))
  <2>1. PICK a \in Nat : a = at + 4
    OBVIOUS
  <2>2. Stands(bytes, a, u[m]) /\ UpTo(u, s, m, Nat)
    BY <1>8, <1>16, <1>17, <2>1
  <2>3. Stands(bytes, a + Len(u[i - 1]), s[i])
    BY <1>6, <2>2, PartsStand
  <2>4. a + Len(u[i - 1]) = at + Places[t][i]
    <3>1. PICK x \in Nat : x = Places[t][i]
      BY <1>15
    <3>2. Len(u[i - 1]) = x - 4
      BY <1>15, <3>1
    <3>3. QED
      BY <2>1, <3>1, <3>2
  <2>5. QED
    BY <1>5, <2>3, <2>4
<1>18. PlainStands(o, t)
  BY <1>1, <1>17 DEF PlainStands
<1>19. QED
  BY <1>15, <1>16, <1>18

\* Where the flows of a READ header stand.
FlowsStand(o) ==
  \A bytes : \A at \in Nat : Stands(bytes, at + 4, EncodeFields(o)) =>
    /\ Stands(bytes, at + 4, Put(Len(o.info), 2))
    /\ \A i \in 1 .. Len(o.info) : /\ Stands(bytes, at + 2 + 4 * i, Put(o.info[i][1], 2))
                                   /\ Stands(bytes, at + 4 + 4 * i, Put(o.info[i][2], 2))

\* The list of a READ header has its length and its flows where addInfo looks.
LEMMA ReadFields ==
  ASSUME NEW o \in [type : {"READ"}, info : FieldsOf("READ")]
  PROVE  /\ EncodeFields(o) \in Seq(Nat) /\ Len(EncodeFields(o)) = 2 + 4 * Len(o.info)
         /\ FlowsStand(o)
<1>1. PICK m \in Nat : m = Len(o.info)
  BY DEF FieldsOf
<1>2. /\ o.type = "READ" /\ DOMAIN o.info = 1 .. m
      /\ \A i \in 1 .. m : o.info[i][1] \in Nat /\ o.info[i][2] \in Nat
  <2>1. o.info \in Seq(Field(2) \X Field(2)) /\ o.type = "READ"
    BY DEF FieldsOf
  <2>2. DOMAIN o.info = 1 .. m /\ \A i \in 1 .. m : o.info[i] \in Field(2) \X Field(2)
    <3>1. PICK S : S = Field(2) \X Field(2)
      OBVIOUS
    <3>2. QED
      BY <1>1, <2>1, <3>1
  <2>3. QED
    BY <2>1, <2>2, FieldWeights
<1>3. PICK s : s = [i \in 1 .. m |-> Put(o.info[i][1], 2) \o Put(o.info[i][2], 2)]
  OBVIOUS
<1>4. \A i \in 1 .. m : /\ Put(o.info[i][1], 2) \in Seq(Nat) /\ Len(Put(o.info[i][1], 2)) = 2
                        /\ Put(o.info[i][2], 2) \in Seq(Nat) /\ Len(Put(o.info[i][2], 2)) = 2
  BY <1>2, PutNumbers
<1>5. \A i \in 1 .. m : s[i] \in Seq(Nat) /\ Len(s[i]) = 4
  <2>1. ASSUME NEW i \in 1 .. m PROVE s[i] \in Seq(Nat) /\ Len(s[i]) = 4
    <3>1. PICK x \in Seq(Nat) : x = Put(o.info[i][1], 2) /\ Len(x) = 2
      BY <1>4
    <3>2. PICK y \in Seq(Nat) : y = Put(o.info[i][2], 2) /\ Len(y) = 2
      BY <1>4
    <3>3. x \o y \in Seq(Nat) /\ Len(x \o y) = 4
      <4>1. x \o y \in Seq(Nat) /\ Len(x \o y) = Len(x) + Len(y)
        BY ConcatProperties
      <4>2. Len(x) = 2 /\ Len(y) = 2
        BY <3>1, <3>2
      <4>3. QED
        BY <4>1, <4>2
    <3>4. QED
      BY <1>3, <3>1, <3>2, <3>3
  <2>2. QED
    BY <2>1
<1>6. s \in [1 .. m -> Seq(Nat)]
  BY <1>3, <1>5
<1>7. PICK t : t = FlattenSeq(s)
  OBVIOUS
<1>8. t \in Seq(Nat) /\ Len(t) = m * 4 /\ AlikeStand(t, s, m, 4)
  <2>1. \A k \in 1 .. m : Len(s[k]) = 4
    BY <1>5
  <2>2. PICK w \in Nat : w = 4
    OBVIOUS
  <2>3. \A k \in 1 .. m : Len(s[k]) = w
    BY <2>1, <2>2
  <2>4. FlattenSeq(s) \in Seq(Nat) /\ Len(FlattenSeq(s)) = m * w /\ AlikeStand(FlattenSeq(s), s, m, w)
    BY <1>6, <2>3, AlikeParts
  <2>5. QED
    BY <1>7, <2>2, <2>4
<1>9. PICK h : h = Put(m, 2)
  OBVIOUS
<1>10. h \in Seq(Nat) /\ Len(h) = 2
  BY <1>9, PutNumbers
<1>11. EncodeFields(o) = h \o t
  BY <1>1, <1>2, <1>3, <1>7, <1>9 DEF EncodeFields
<1>12. EncodeFields(o) \in Seq(Nat) /\ Len(EncodeFields(o)) = 2 + 4 * m
  <2>1. h \o t \in Seq(Nat) /\ Len(h \o t) = Len(h) + Len(t)
    BY <1>8, <1>10, ConcatProperties
  <2>2. QED
    BY <1>8, <1>10, <1>11, <2>1
<1>13. ASSUME NEW bytes, NEW at \in Nat, Stands(bytes, at + 4, EncodeFields(o))
       PROVE  /\ Stands(bytes, at + 4, Put(m, 2))
              /\ \A i \in 1 .. m : /\ Stands(bytes, at + 2 + 4 * i, Put(o.info[i][1], 2))
                                   /\ Stands(bytes, at + 4 + 4 * i, Put(o.info[i][2], 2))
  <2>1. PICK a \in Nat : a = at + 4
    OBVIOUS
  <2>2. Stands(bytes, a, h \o t)
    BY <1>11, <1>13, <2>1
  <2>3. Stands(bytes, a, h) /\ Stands(bytes, a + Len(h), t)
    BY <1>8, <1>10, <2>2, StandsBoth
  <2>4. PICK b \in Nat : b = a + 2
    OBVIOUS
  <2>5. Stands(bytes, b, t)
    BY <1>10, <2>3, <2>4
  <2>6. ASSUME NEW i \in 1 .. m
        PROVE  Stands(bytes, at + 2 + 4 * i, Put(o.info[i][1], 2)) /\ Stands(bytes, at + 4 + 4 * i, Put(o.info[i][2], 2))
    <3>1. PICK c \in Nat : c = b + (i - 1) * 4
      OBVIOUS
    <3>2. Stands(bytes, c, s[i])
      BY <1>8, <2>5, <3>1 DEF AlikeStand
    <3>3. PICK x : x = Put(o.info[i][1], 2)
      OBVIOUS
    <3>4. PICK y : y = Put(o.info[i][2], 2)
      OBVIOUS
    <3>5. x \in Seq(Nat) /\ y \in Seq(Nat) /\ Len(x) = 2 /\ s[i] = x \o y
      BY <1>3, <1>4, <3>3, <3>4
    <3>6. Stands(bytes, c, x) /\ Stands(bytes, c + Len(x), y)
      BY <3>2, <3>5, StandsBoth
    <3>7. c = at + 2 + 4 * i /\ c + Len(x) = at + 4 + 4 * i
      BY <2>1, <2>4, <3>1, <3>5
    <3>8. QED
      BY <3>3, <3>4, <3>6, <3>7
  <2>7. QED
    BY <1>9, <2>1, <2>3, <2>6
<1>14. FlowsStand(o)
  BY <1>1, <1>13 DEF FlowsStand
<1>15. QED
  BY <1>1, <1>12, <1>14

\* The parts of an optional header.
OptionStands(o) ==
  \A bytes : \A at \in Nat : Stands(bytes, at, EncodeOptionalHeader(o)) =>
    /\ bytes[at] = TypeNo(o.type) /\ Get(bytes, at + 2, 2) = OptLen(o)
    /\ Stands(bytes, at + 4, EncodeFields(o))

\* Type, length and fields of any optional header stand where its decoders look.
LEMMA OptionParts ==
  ASSUME NEW o \in OptionalHeader
  PROVE  /\ EncodeOptionalHeader(o) \in Seq(Nat) /\ Len(EncodeOptionalHeader(o)) = OptLen(o)
         /\ OptLen(o) \in Nat /\ OptionStands(o)
<1>1. PICK t \in {"ACK", "IP", "NONCE", "CHANGE", "READ"} : o \in [type : {t}, info : FieldsOf(t)]
  BY DEF OptionalHeader
<1>2. o.type = t /\ TypeNo(t) \in Nat
  BY <1>1, TypeNumbers
<1>3. /\ EncodeFields(o) \in Seq(Nat) /\ OptLen(o) = 4 + Len(EncodeFields(o))
      /\ OptLen(o) \in Nat /\ OptLen(o) < Weight[2]
  <2>1. CASE t = "READ"
    <3>1. EncodeFields(o) \in Seq(Nat) /\ Len(EncodeFields(o)) = 2 + 4 * Len(o.info)
      BY <1>1, <2>1, ReadFields
    <3>2. Len(o.info) \in Nat /\ 6 + 4 * Len(o.info) < Weight[2]
      BY <1>1, <2>1 DEF FieldsOf
    <3>3. OptLen(o) = 6 + 4 * Len(o.info)
      BY <1>2, <2>1 DEF OptLen
    <3>4. PICK l \in Nat : l = Len(o.info)
      BY <3>2
    <3>5. QED
      BY <3>1, <3>2, <3>3, <3>4
  <2>2. CASE t # "READ"
    <3>1. t \in {"ACK", "IP", "NONCE", "CHANGE"}
      BY <2>2
    <3>2. EncodeFields(o) \in Seq(Nat) /\ Len(EncodeFields(o)) = Sizes[t] - 4
      BY <1>1, <3>1, PlainFields
    <3>3. OptLen(o) = Sizes[t]
      BY <1>2, <2>2 DEF OptLen
    <3>4. Sizes[t] \in Nat /\ Sizes[t] < 16
      BY <3>1, HeaderTables
    <3>5. QED
      BY <3>2, <3>3, <3>4, FieldWeights
  <2>3. QED
    BY <2>1, <2>2
<1>4. PICK h : h = <<TypeNo(o.type), 0>>
  OBVIOUS
<1>5. PICK l : l = Put(OptLen(o), 2)
  OBVIOUS
<1>6. PICK f : f = EncodeFields(o)
  OBVIOUS
<1>7. h \in Seq(Nat) /\ Len(h) = 2 /\ h[1] = TypeNo(o.type)
  BY <1>2, <1>4
<1>8. l \in Seq(Nat) /\ Len(l) = 2
  BY <1>3, <1>5, PutNumbers
<1>9. f \in Seq(Nat) /\ OptLen(o) = 4 + Len(f)
  BY <1>3, <1>6
<1>10. EncodeOptionalHeader(o) = (h \o l) \o f
  BY <1>4, <1>5, <1>6 DEF EncodeOptionalHeader
<1>11. h \o l \in Seq(Nat) /\ Len(h \o l) = 4
  <2>1. h \o l \in Seq(Nat) /\ Len(h \o l) = Len(h) + Len(l)
    BY <1>7, <1>8, ConcatProperties
  <2>2. QED
    BY <1>7, <1>8, <2>1
<1>12. (h \o l) \o f \in Seq(Nat) /\ Len((h \o l) \o f) = OptLen(o)
  <2>1. PICK hl \in Seq(Nat) : hl = h \o l
    BY <1>11
  <2>2. hl \o f \in Seq(Nat) /\ Len(hl \o f) = Len(hl) + Len(f)
    BY <1>9, ConcatProperties
  <2>3. QED
    BY <1>9, <1>11, <2>1, <2>2
<1>13. ASSUME NEW bytes, NEW at \in Nat, Stands(bytes, at, EncodeOptionalHeader(o))
       PROVE  /\ bytes[at] = TypeNo(o.type) /\ Get(bytes, at + 2, 2) = OptLen(o)
              /\ Stands(bytes, at + 4, EncodeFields(o))
  <2>1. PICK hl \in Seq(Nat) : hl = h \o l /\ Len(hl) = 4
    BY <1>11
  <2>2. Stands(bytes, at, hl \o f)
    BY <1>10, <1>13, <2>1
  <2>3. Stands(bytes, at, hl) /\ Stands(bytes, at + Len(hl), f)
    BY <1>9, <2>2, StandsBoth
  <2>4. Stands(bytes, at, h \o l)
    BY <2>1, <2>3
  <2>5. Stands(bytes, at, h) /\ Stands(bytes, at + Len(h), l)
    BY <1>7, <1>8, <2>4, StandsBoth
  <2>6. bytes[at] = TypeNo(o.type)
    <3>1. 1 \in 1 .. Len(h) /\ at + 1 - 1 = at
      BY <1>7
    <3>2. bytes[at + 1 - 1] = h[1]
      BY <2>5, <3>1 DEF Stands
    <3>3. QED
      BY <1>7, <3>1, <3>2
  <2>7. Get(bytes, at + 2, 2) = OptLen(o)
    <3>1. PICK a \in Nat : a = at + 2
      OBVIOUS
    <3>2. PICK x \in Nat : x = OptLen(o) /\ x < Weight[2]
      BY <1>3
    <3>3. Stands(bytes, a, Put(x, 2))
      BY <1>5, <1>7, <2>5, <3>1, <3>2
    <3>4. PICK n \in Nat : n = 2
      OBVIOUS
    <3>5. Get(bytes, a, n) = x
      BY <3>2, <3>3, <3>4, GetPut
    <3>6. QED
      BY <3>1, <3>2, <3>4, <3>5
  <2>8. QED
    BY <1>6, <2>1, <2>3, <2>6, <2>7
<1>14. OptionStands(o)
  BY <1>13 DEF OptionStands
<1>15. QED
  BY <1>3, <1>10, <1>12, <1>14

\* A field that stands somewhere is read there.
LEMMA FieldRead ==
  ASSUME NEW n \in Nat, NEW x \in Field(n), NEW bytes, NEW at \in Nat, Stands(bytes, at, Put(x, n))
  PROVE  Get(bytes, at, n) = x
<1>1. x \in Nat /\ x < Weight[n]
  BY FieldWeights
<1>2. QED
  BY <1>1, GetPut

\* What is read of an optional header.
HeaderRead(bytes, at, o) ==
  /\ DecodeOptionalHeader(bytes, at) = Turned(o) /\ OptLen(Turned(o)) = OptLen(o)
  /\ NextOption(bytes, at) = at + OptLen(o) /\ ShownOption(bytes, at) = Shown(o)

\* Headers of fixed length.
LEMMA PlainRead ==
  ASSUME NEW t \in {"ACK", "IP", "NONCE", "CHANGE"}, NEW o \in [type : {t}, info : FieldsOf(t)],
         NEW bytes, NEW at \in Nat, Stands(bytes, at, EncodeOptionalHeader(o))
  PROVE  HeaderRead(bytes, at, o)
<1>1. o \in OptionalHeader
  BY DEF OptionalHeader
<1>2. bytes[at] = TypeNo(t) /\ Get(bytes, at + 2, 2) = OptLen(o) /\ Stands(bytes, at + 4, EncodeFields(o))
  <2>1. OptionStands(o) /\ o.type = t
    BY <1>1, OptionParts
  <2>2. QED
    BY <2>1 DEF OptionStands
<1>3. PICK m \in Nat : m = Len(Widths[t])
  BY HeaderTables
<1>4. /\ o.type = t /\ o.info \in [1 .. m -> Nat] /\ DOMAIN Widths[t] = 1 .. m
      /\ \A i \in 1 .. m : o.info[i] \in Field(Widths[t][i])
  BY <1>3, HeaderTables DEF FieldsOf
<1>5. \A i \in 1 .. m : Widths[t][i] \in Nat /\ Places[t][i] \in Nat
  <2>1. CASE t = "ACK"
    <3>1. \A i \in 1 .. m : i = 1 \/ i = 2
      BY <1>3, <2>1, HeaderTables
    <3>2. Widths[t][1] = 2 /\ Places[t][1] = 4 /\ Widths[t][2] = 2 /\ Places[t][2] = 6
      BY <2>1, HeaderTables
    <3>3. QED
      BY <3>1, <3>2
  <2>2. CASE t = "IP"
    <3>1. \A i \in 1 .. m : i = 1 \/ i = 2 \/ i = 3
      BY <1>3, <2>2, HeaderTables
    <3>2. Widths[t][1] = 1 /\ Places[t][1] = 4 /\ Widths[t][2] = 1 /\ Places[t][2] = 5 /\ Widths[t][3] = 4 /\ Places[t][3] = 6
      BY <2>2, HeaderTables
    <3>3. QED
      BY <3>1, <3>2
  <2>3. CASE t = "NONCE"
    <3>1. \A i \in 1 .. m : i = 1
      BY <1>3, <2>3, HeaderTables
    <3>2. Widths[t][1] = 8 /\ Places[t][1] = 4
      BY <2>3, HeaderTables
    <3>3. QED
      BY <3>1, <3>2
  <2>4. CASE t = "CHANGE"
    <3>1. \A i \in 1 .. m : i = 1 \/ i = 2
      BY <1>3, <2>4, HeaderTables
    <3>2. Widths[t][1] = 1 /\ Places[t][1] = 4 /\ Widths[t][2] = 1 /\ Places[t][2] = 5
      BY <2>4, HeaderTables
    <3>3. QED
      BY <3>1, <3>2
  <2>5. QED
    BY <2>1, <2>2, <2>3, <2>4
<1>6. ASSUME NEW i \in 1 .. m PROVE Get(bytes, at + Places[t][i], Widths[t][i]) = o.info[i]
  <2>1. PlainStands(o, t)
    BY PlainFields
  <2>2. Stands(bytes, at + Places[t][i], Put(o.info[i], Widths[t][i]))
    BY <1>2, <1>3, <2>1 DEF PlainStands
  <2>3. PICK n \in Nat : n = Widths[t][i]
    BY <1>5
  <2>4. PICK a \in Nat : a = at + Places[t][i]
    BY <1>5
  <2>5. PICK x \in Field(n) : x = o.info[i]
    BY <1>4, <2>3
  <2>6. Stands(bytes, a, Put(x, n))
    BY <2>2, <2>3, <2>4, <2>5
  <2>7. Get(bytes, a, n) = x
    BY <2>6, FieldRead
  <2>8. QED
    BY <2>3, <2>4, <2>5, <2>7
<1>7. HeaderType[bytes[at]] = t
  BY <1>2, TypeNumbers
<1>8. [i \in DOMAIN Widths[t] |-> Get(bytes, at + Places[t][i], Widths[t][i])] = o.info
  <2>1. PICK f : f = [i \in DOMAIN Widths[t] |-> Get(bytes, at + Places[t][i], Widths[t][i])]
    OBVIOUS
  <2>2. DOMAIN f = 1 .. m /\ \A i \in 1 .. m : f[i] = o.info[i]
    BY <1>4, <1>6, <2>1
  <2>3. f = o.info
    BY <1>4, <2>1, <2>2
  <2>4. QED
    BY <2>1, <2>3
<1>9. t # "READ" /\ Turned(o) = o /\ o = [type |-> t, info |-> o.info]
  BY <1>4 DEF Turned
<1>10. DecodeOptionalHeader(bytes, at) = o
  <2>1. DecodeOptionalHeader(bytes, at) =
          [type |-> t, info |-> [i \in DOMAIN Widths[t] |-> Get(bytes, at + Places[t][i], Widths[t][i])]]
    BY <1>7, <1>9 DEF DecodeOptionalHeader
  <2>2. QED
    BY <1>8, <1>9, <2>1
<1>11. NextOption(bytes, at) = at + OptLen(o)
  BY <1>2 DEF NextOption
<1>12. ShownOption(bytes, at) = Shown(o)
  <2>1. CASE t = "ACK"
    <3>1. bytes[at] = 1 /\ m = 2
      BY <1>2, <1>3, <2>1, TypeNumbers, HeaderTables
    <3>2. ShownOption(bytes, at) = <<Get(bytes, at + 4, 2), Get(bytes, at + 6, 2)>>
      BY <3>1 DEF ShownOption
    <3>3. Get(bytes, at + 4, 2) = o.info[1] /\ Get(bytes, at + 6, 2) = o.info[2]
      <4>1. 1 \in 1 .. m /\ 2 \in 1 .. m
        BY <3>1
      <4>2. Get(bytes, at + Places[t][1], Widths[t][1]) = o.info[1] /\ Get(bytes, at + Places[t][2], Widths[t][2]) = o.info[2]
        BY <1>6, <4>1
      <4>3. Places[t][1] = 4 /\ Places[t][2] = 6 /\ Widths[t][1] = 2 /\ Widths[t][2] = 2
        BY <2>1, HeaderTables
      <4>4. QED
        BY <4>2, <4>3
    <3>4. o.info = <<o.info[1], o.info[2]>>
      BY <1>4, <3>1
    <3>5. Shown(o) = o.info
      BY <1>4, <2>1 DEF Shown
    <3>6. QED
      BY <3>2, <3>3, <3>4, <3>5
  <2>2. CASE t = "IP"
    <3>1. bytes[at] = 2 /\ m = 3
      BY <1>2, <1>3, <2>2, TypeNumbers, HeaderTables
    <3>2. ShownOption(bytes, at) = <<Get(bytes, at + 4, 1), Get(bytes, at + 6, 4)>>
      BY <3>1 DEF ShownOption
    <3>3. Get(bytes, at + 4, 1) = o.info[1] /\ Get(bytes, at + 6, 4) = o.info[3]
      <4>1. 1 \in 1 .. m /\ 3 \in 1 .. m
        BY <3>1
      <4>2. Get(bytes, at + Places[t][1], Widths[t][1]) = o.info[1] /\ Get(bytes, at + Places[t][3], Widths[t][3]) = o.info[3]
        BY <1>6, <4>1
      <4>3. Places[t][1] = 4 /\ Places[t][3] = 6 /\ Widths[t][1] = 1 /\ Widths[t][3] = 4
        BY <2>2, HeaderTables
      <4>4. QED
        BY <4>2, <4>3
    <3>4. Shown(o) = <<o.info[1], o.info[3]>>
      BY <1>4, <2>2 DEF Shown
    <3>5. QED
      BY <3>2, <3>3, <3>4
  <2>3. CASE t = "NONCE"
    <3>1. bytes[at] = 3 /\ m = 1
      BY <1>2, <1>3, <2>3, TypeNumbers, HeaderTables
    <3>2. ShownOption(bytes, at) = <<Get(bytes, at + 4, 8)>>
      BY <3>1 DEF ShownOption
    <3>3. Get(bytes, at + 4, 8) = o.info[1]
      <4>1. 1 \in 1 .. m
        BY <3>1
      <4>2. Get(bytes, at + Places[t][1], Widths[t][1]) = o.info[1]
        BY <1>6, <4>1
      <4>3. Places[t][1] = 4 /\ Widths[t][1] = 8
        BY <2>3, HeaderTables
      <4>4. QED
        BY <4>2, <4>3
    <3>4. o.info = <<o.info[1]>>
      BY <1>4, <3>1
    <3>5. Shown(o) = o.info
      BY <1>4, <2>3 DEF Shown
    <3>6. QED
      BY <3>2, <3>3, <3>4, <3>5
  <2>4. CASE t = "CHANGE"
    <3>1. bytes[at] = 4
      BY <1>2, <2>4, TypeNumbers
    <3>2. ShownOption(bytes, at) = <<>>
      BY <3>1 DEF ShownOption
    <3>3. Shown(o) = <<>>
      BY <1>4, <2>4 DEF Shown
    <3>4. QED
      BY <3>2, <3>3
  <2>5. QED
    BY <2>1, <2>2, <2>3, <2>4
<1>13. QED
  BY <1>9, <1>10, <1>11, <1>12 DEF HeaderRead

\* READ headers.
LEMMA ReadRead ==
  ASSUME NEW o \in [type : {"READ"}, info : FieldsOf("READ")],
         NEW bytes, NEW at \in Nat, Stands(bytes, at, EncodeOptionalHeader(o))
  PROVE  HeaderRead(bytes, at, o)
<1>1. o \in OptionalHeader
  BY DEF OptionalHeader
<1>2. bytes[at] = 5 /\ Get(bytes, at + 2, 2) = OptLen(o) /\ Stands(bytes, at + 4, EncodeFields(o))
  <2>1. OptionStands(o) /\ o.type = "READ"
    BY <1>1, OptionParts
  <2>2. QED
    BY <2>1, TypeNumbers DEF OptionStands
<1>3. PICK m \in Nat : m = Len(o.info) /\ 6 + 4 * m < Weight[2]
  BY DEF FieldsOf
<1>4. /\ o.type = "READ" /\ DOMAIN o.info = 1 .. m /\ o.info \in Seq(Field(2) \X Field(2))
      /\ \A i \in 1 .. m : o.info[i] = <<o.info[i][1], o.info[i][2]>> /\ o.info[i][1] \in Field(2) /\ o.info[i][2] \in Field(2)
  <2>1. o.info \in Seq(Field(2) \X Field(2)) /\ o.type = "READ"
    BY DEF FieldsOf
  <2>2. DOMAIN o.info = 1 .. m /\ \A i \in 1 .. m : o.info[i] \in Field(2) \X Field(2)
    <3>1. PICK S : S = Field(2) \X Field(2)
      OBVIOUS
    <3>2. QED
      BY <1>3, <2>1, <3>1
  <2>3. QED
    BY <2>1, <2>2
<1>5. PICK w \in Nat : w = 2
  OBVIOUS
<1>6. /\ Stands(bytes, at + 4, Put(m, w))
      /\ \A i \in 1 .. m : /\ Stands(bytes, at + 2 + 4 * i, Put(o.info[i][1], w))
                           /\ Stands(bytes, at + 4 + 4 * i, Put(o.info[i][2], w))
  <2>1. FlowsStand(o)
    BY ReadFields
  <2>2. QED
    BY <1>2, <1>3, <1>5, <2>1 DEF FlowsStand
<1>7. Get(bytes, at + 4, 2) = m
  <2>1. PICK a \in Nat : a = at + 4
    OBVIOUS
  <2>2. m < Weight[w] /\ Stands(bytes, a, Put(m, w))
    BY <1>3, <1>5, <1>6, <2>1, FieldWeights
  <2>3. Get(bytes, a, w) = m
    BY <2>2, GetPut
  <2>4. QED
    BY <1>5, <2>1, <2>3
<1>8. ASSUME NEW i \in 1 .. m
      PROVE  Get(bytes, at + 2 + 4 * i, 2) = o.info[i][1] /\ Get(bytes, at + 4 + 4 * i, 2) = o.info[i][2]
  <2>1. PICK a \in Nat : a = at + 2 + 4 * i
    OBVIOUS
  <2>2. PICK b \in Nat : b = at + 4 + 4 * i
    OBVIOUS
  <2>3. PICK x \in Field(w) : x = o.info[i][1]
    BY <1>4, <1>5
  <2>4. PICK y \in Field(w) : y = o.info[i][2]
    BY <1>4, <1>5
  <2>5. Stands(bytes, a, Put(x, w)) /\ Stands(bytes, b, Put(y, w))
    BY <1>6, <2>1, <2>2, <2>3, <2>4
  <2>6. Get(bytes, a, w) = x /\ Get(bytes, b, w) = y
    BY <2>5, FieldRead
  <2>7. QED
    BY <1>5, <2>1, <2>2, <2>3, <2>4, <2>6
<1>9. PICK f : f = [i \in 1 .. m |-> <<Get(bytes, at + 2 + 4 * i, 2), Get(bytes, at + 4 + 4 * i, 2)>>]
  OBVIOUS
<1>10. f = o.info
  <2>1. \A i \in 1 .. m : f[i] = <<o.info[i][1], o.info[i][2]>>
    BY <1>8, <1>9
  <2>2. \A i \in 1 .. m : f[i] = o.info[i]
    BY <1>4, <2>1
  <2>3. o.info = [i \in 1 .. m |-> o.info[i]]
    BY <1>4
  <2>4. QED
    BY <1>9, <2>2, <2>3
<1>11. DecodeInfo(bytes, at) = Reverse(o.info)
  BY <1>7, <1>9, <1>10 DEF DecodeInfo
<1>12. Turned(o) = [type |-> "READ", info |-> Reverse(o.info)] /\ Len(Reverse(o.info)) = m
  <2>1. Turned(o) = [type |-> "READ", info |-> Reverse(o.info)]
    BY <1>4 DEF Turned
  <2>2. PICK r : r = Reverse(o.info)
    OBVIOUS
  <2>3. r = [i \in 1 .. m |-> o.info[(m - i) + 1]]
    BY <1>3, <2>2 DEF Reverse
  <2>4. Len(r) = m
    BY <2>3
  <2>5. QED
    BY <2>1, <2>2, <2>4
<1>13. DecodeOptionalHeader(bytes, at) = Turned(o)
  BY <1>2, <1>11, <1>12, TypeNumbers DEF DecodeOptionalHeader
<1>14. OptLen(Turned(o)) = OptLen(o)
  <2>1. OptLen(o) = 6 + 4 * m
    BY <1>3, <1>4 DEF OptLen
  <2>2. PICK e : e = Turned(o)
    OBVIOUS
  <2>3. e.type = "READ" /\ Len(e.info) = m
    BY <1>12, <2>2
  <2>4. OptLen(e) = 6 + 4 * m
    BY <2>3 DEF OptLen
  <2>5. QED
    BY <2>1, <2>2, <2>4
<1>15. NextOption(bytes, at) = at + OptLen(o)
  BY <1>2 DEF NextOption
<1>16. ShownOption(bytes, at) = Shown(o)
  <2>1. Shown(o) = o.info
    BY <1>4 DEF Shown
  <2>2. ShownOption(bytes, at) = [i \in 1 .. Get(bytes, at + 4, 2) |->
                          <<Get(bytes, at + 2 + 4 * i, 2), Get(bytes, at + 4 + 4 * i, 2)>>]
    BY <1>2 DEF ShownOption
  <2>3. QED
    BY <1>7, <1>9, <1>10, <2>1, <2>2
<1>17. QED
  BY <1>13, <1>14, <1>15, <1>16 DEF HeaderRead

\* Any of them.
LEMMA OptionRead ==
  ASSUME NEW o \in OptionalHeader, NEW bytes, NEW at \in Nat, Stands(bytes, at, EncodeOptionalHeader(o))
  PROVE  HeaderRead(bytes, at, o)
<1>1. PICK t \in {"ACK", "IP", "NONCE", "CHANGE", "READ"} : o \in [type : {t}, info : FieldsOf(t)]
  BY DEF OptionalHeader
<1>2. CASE t = "READ"
  BY <1>1, <1>2, ReadRead
<1>3. CASE t # "READ"
  <2>1. t \in {"ACK", "IP", "NONCE", "CHANGE"}
    BY <1>3
  <2>2. QED
    BY <1>1, <2>1, PlainRead
<1>4. QED
  BY <1>2, <1>3

\* One element more, in front and at the end.
LEMMA OneMore ==
  ASSUME NEW S, NEW n \in Nat, n > 0, NEW f \in [1 .. n -> S]
  PROVE  /\ <<f[1]>> \o [j \in 1 .. n - 1 |-> f[j + 1]] = f
         /\ Append([j \in 1 .. n - 1 |-> f[j]], f[n]) = f
<1>1. f \in Seq(S) /\ Len(f) = n
  BY FunctionIsSeq
<1>2. PICK t : t = [j \in 1 .. n - 1 |-> f[j + 1]]
  OBVIOUS
<1>3. n - 1 \in Nat /\ 1 \in 1 .. n /\ \A j \in 1 .. n - 1 : j + 1 \in 1 .. n /\ j \in 1 .. n
  OBVIOUS
<1>4. t \in [1 .. n - 1 -> S]
  BY <1>2, <1>3
<1>5. t \in Seq(S) /\ Len(t) = n - 1
  BY <1>3, <1>4, FunctionIsSeq
<1>6. PICK h : h = <<f[1]>>
  OBVIOUS
<1>7. h \in Seq(S) /\ Len(h) = 1 /\ h[1] = f[1]
  BY <1>3, <1>6
<1>8. /\ h \o t \in Seq(S) /\ Len(h \o t) = Len(h) + Len(t)
      /\ \A i \in 1 .. Len(h) + Len(t) : (h \o t)[i] = IF i <= Len(h) THEN h[i] ELSE t[i - Len(h)]
  BY <1>5, <1>7, ConcatProperties
<1>9. Len(h) + Len(t) = n
  BY <1>5, <1>7
<1>10. ASSUME NEW i \in 1 .. n PROVE (h \o t)[i] = f[i]
  <2>1. CASE i = 1
    <3>1. i <= Len(h)
      BY <1>7, <2>1
    <3>2. QED
      BY <1>7, <1>8, <1>9, <2>1, <3>1
  <2>2. CASE i # 1
    <3>1. ~(i <= Len(h)) /\ i - Len(h) = i - 1 /\ i - 1 \in 1 .. n - 1 /\ (i - 1) + 1 = i
      BY <1>7, <2>2
    <3>2. (h \o t)[i] = t[i - 1]
      BY <1>8, <1>9, <3>1
    <3>3. t[i - 1] = f[(i - 1) + 1]
      BY <1>2, <3>1
    <3>4. QED
      BY <3>1, <3>2, <3>3
  <2>3. QED
    BY <2>1, <2>2
<1>11. h \o t = f
  <2>1. PICK r : r = h \o t
    OBVIOUS
  <2>2. r \in Seq(S) /\ Len(r) = n /\ \A i \in 1 .. n : r[i] = f[i]
    BY <1>8, <1>9, <1>10, <2>1
  <2>3. r = f
    BY <1>1, <2>2, SeqEqual
  <2>4. QED
    BY <2>1, <2>3
<1>12. PICK b : b = [j \in 1 .. n - 1 |-> f[j]]
  OBVIOUS
<1>13. b \in [1 .. n - 1 -> S]
  BY <1>3, <1>12
<1>14. b \in Seq(S) /\ Len(b) = n - 1
  BY <1>3, <1>13, FunctionIsSeq
<1>15. f[n] \in S
  <2>1. n \in 1 .. n
    OBVIOUS
  <2>2. QED
    BY <2>1
<1>16. PICK a : a = Append(b, f[n])
  OBVIOUS
<1>17. a \in Seq(S) /\ Len(a) = n /\ \A i \in 1 .. n - 1 : a[i] = b[i]
  BY <1>14, <1>15, <1>16, AppendProperties
<1>18. a[n] = f[n]
  BY <1>14, <1>15, <1>16, AppendProperties
<1>19. \A i \in 1 .. n : a[i] = f[i]
  <2>1. \A i \in 1 .. n : i = n \/ i \in 1 .. n - 1
    OBVIOUS
  <2>2. QED
    BY <1>12, <1>17, <1>18, <2>1
<1>20. a = f
  BY <1>1, <1>17, <1>19, SeqEqual
<1>21. QED
  BY <1>2, <1>6, <1>11, <1>12, <1>16, <1>20

(***************************************************************************)
(* The optional headers of a packet, one after the other.                  *)
(***************************************************************************)
EncodedOptions(o) == FlattenSeq([i \in DOMAIN o |-> EncodeOptionalHeader(o[i])])

\* What stands for them, up to each of them.
OptionsAt(o, u, m, bytes) ==
  /\ u[0] = <<>> /\ \A n \in 0 .. m : Len(u[n]) \in Nat
  /\ \A n \in 1 .. m : /\ Len(u[n]) = Len(u[n - 1]) + OptLen(o[n])
                       /\ HeaderRead(bytes, HeaderSize + 1 + Len(u[n - 1]), o[n])

\* Each header begins where the one before it ends.
LEMMA OptionsFollow ==
  ASSUME NEW m \in Nat, NEW o \in [1 .. m -> OptionalHeader]
  PROVE  /\ EncodedOptions(o) \in Seq(Nat)
         /\ \A bytes : Stands(bytes, HeaderSize + 1, EncodedOptions(o)) =>
              \E u : OptionsAt(o, u, m, bytes) /\ u[m] = EncodedOptions(o)
<1>1. PICK s : s = [i \in 1 .. m |-> EncodeOptionalHeader(o[i])]
  OBVIOUS
<1>2. \A i \in 1 .. m : /\ s[i] \in Seq(Nat) /\ Len(s[i]) = OptLen(o[i]) /\ OptLen(o[i]) \in Nat
                        /\ s[i] = EncodeOptionalHeader(o[i])
  BY <1>1, OptionParts
<1>3. s \in [1 .. m -> Seq(Nat)]
  BY <1>1, <1>2
<1>4. EncodedOptions(o) = FlattenSeq(s)
  <2>1. DOMAIN o = 1 .. m
    OBVIOUS
  <2>2. QED
    BY <1>1, <2>1 DEF EncodedOptions
<1>5. PICK u : UpTo(u, s, m, Nat) /\ FlattenSeq(s) = u[m]
  BY <1>3, Flattened
<1>6. UpTo(u, s, m, Nat)
  BY <1>5
<1>7. LengthsOf(u, s, m, Nat)
  BY <1>3, <1>6, PartsLengths
<1>8. EncodedOptions(o) \in Seq(Nat)
  <2>1. m \in 0 .. m
    OBVIOUS
  <2>2. u[m] \in Seq(Nat)
    BY <1>7, <2>1 DEF LengthsOf
  <2>3. QED
    BY <1>4, <1>5, <2>2
<1>9. ASSUME NEW bytes, Stands(bytes, HeaderSize + 1, EncodedOptions(o)) PROVE OptionsAt(o, u, m, bytes)
  <2>1. PICK a \in Nat : a = HeaderSize + 1
    BY DEF HeaderSize
  <2>2. Stands(bytes, a, u[m])
    BY <1>4, <1>5, <1>9, <2>1
  <2>3. ASSUME NEW n \in 1 .. m PROVE Len(u[n]) = Len(u[n - 1]) + OptLen(o[n]) /\ HeaderRead(bytes, a + Len(u[n - 1]), o[n])
    <3>1. Len(u[n]) = Len(u[n - 1]) + Len(s[n]) /\ Stands(bytes, a + Len(u[n - 1]), s[n])
      BY <1>3, <1>6, <2>2, PartsStand
    <3>2. n - 1 \in 0 .. m
      OBVIOUS
    <3>3. PICK b \in Nat : b = a + Len(u[n - 1])
      BY <1>7, <3>2 DEF LengthsOf
    <3>4. PICK e \in OptionalHeader : e = o[n]
      OBVIOUS
    <3>5. Stands(bytes, b, EncodeOptionalHeader(e))
      BY <1>2, <3>1, <3>3, <3>4
    <3>6. HeaderRead(bytes, b, e)
      BY <3>5, OptionRead
    <3>7. QED
      BY <1>2, <3>1, <3>3, <3>4, <3>6
  <2>4. QED
    BY <1>6, <1>7, <2>1, <2>3 DEF OptionsAt, UpTo, LengthsOf
<1>10. QED
  BY <1>4, <1>5, <1>8, <1>9

\* decodeHeader takes them off one by one.
LEMMA DecodesOptions ==
  ASSUME NEW m \in Nat, NEW o \in [1 .. m -> OptionalHeader], NEW u, NEW bytes, OptionsAt(o, u, m, bytes)
  PROVE  DecodeOptions(bytes, m) =
           [at |-> HeaderSize + 1 + Len(u[m]), opt |-> [j \in 1 .. m |-> Turned(o[m - j + 1])]]
<1>1. PICK g : g = [n \in 0 .. m |-> [at |-> HeaderSize + 1 + Len(u[n]), opt |-> [j \in 1 .. n |-> Turned(o[n - j + 1])]]]
  OBVIOUS
<1>2. HeaderSize + 1 \in Nat
  BY DEF HeaderSize
<1>3. g[0] = [at |-> HeaderSize + 1, opt |-> <<>>]
  <2>1. 0 \in 0 .. m /\ Len(u[0]) = 0
    BY EmptySeq DEF OptionsAt
  <2>2. [j \in 1 .. 0 |-> Turned(o[0 - j + 1])] = <<>>
    OBVIOUS
  <2>3. HeaderSize + 1 + Len(u[0]) = HeaderSize + 1
    BY <1>2, <2>1
  <2>4. QED
    BY <1>1, <2>1, <2>2, <2>3
<1>4. ASSUME NEW n \in 1 .. m PROVE g[n] = DecodeNext(bytes, g[n - 1])
  <2>1. n \in 0 .. m /\ n - 1 \in 0 .. m /\ n - 1 \in Nat /\ n \in Nat /\ n > 0
    OBVIOUS
  <2>2. PICK a : a = HeaderSize + 1 + Len(u[n - 1])
    OBVIOUS
  <2>3. DecodeOptionalHeader(bytes, a) = Turned(o[n]) /\ OptLen(Turned(o[n])) = OptLen(o[n])
    BY <2>2 DEF OptionsAt, HeaderRead
  <2>4. PICK f : f = [j \in 1 .. n |-> Turned(o[n - j + 1])]
    OBVIOUS
  <2>5. PICK S : S = {Turned(o[i]) : i \in 1 .. m}
    OBVIOUS
  <2>6. \A j \in 1 .. n : n - j + 1 \in 1 .. m
    OBVIOUS
  <2>7. f \in [1 .. n -> S]
    BY <2>4, <2>5, <2>6
  <2>8. <<f[1]>> \o [j \in 1 .. n - 1 |-> f[j + 1]] = f
    BY <2>1, <2>7, OneMore
  <2>9. f[1] = Turned(o[n])
    <3>1. 1 \in 1 .. n /\ n - 1 + 1 = n
      OBVIOUS
    <3>2. QED
      BY <2>4, <3>1
  <2>10. [j \in 1 .. n - 1 |-> f[j + 1]] = [j \in 1 .. n - 1 |-> Turned(o[(n - 1) - j + 1])]
    <3>1. \A j \in 1 .. n - 1 : j + 1 \in 1 .. n /\ n - (j + 1) + 1 = (n - 1) - j + 1
      OBVIOUS
    <3>2. \A j \in 1 .. n - 1 : f[j + 1] = Turned(o[(n - 1) - j + 1])
      BY <2>4, <3>1
    <3>3. QED
      BY <3>2
  <2>11. g[n - 1] = [at |-> a, opt |-> [j \in 1 .. n - 1 |-> Turned(o[(n - 1) - j + 1])]]
    BY <1>1, <2>1, <2>2
  <2>12. PICK e : e = [j \in 1 .. n - 1 |-> Turned(o[(n - 1) - j + 1])]
    OBVIOUS
  <2>13. g[n - 1].at = a /\ g[n - 1].opt = e
    BY <2>11, <2>12
  <2>14. DecodeNext(bytes, g[n - 1]) = [at |-> a + OptLen(o[n]), opt |-> <<Turned(o[n])>> \o e]
    BY <2>3, <2>13 DEF DecodeNext
  <2>15. <<Turned(o[n])>> \o e = f
    BY <2>8, <2>9, <2>10, <2>12
  <2>16. a + OptLen(o[n]) = HeaderSize + 1 + Len(u[n])
    <3>1. Len(u[n]) = Len(u[n - 1]) + OptLen(o[n]) /\ Len(u[n]) \in Nat /\ Len(u[n - 1]) \in Nat
      BY <2>1 DEF OptionsAt
    <3>2. OptLen(o[n]) \in Nat
      <4>1. PICK x \in OptionalHeader : x = o[n]
        OBVIOUS
      <4>2. QED
        BY <4>1, OptionParts
    <3>3. QED
      BY <1>2, <2>2, <3>1, <3>2
  <2>17. g[n] = [at |-> HeaderSize + 1 + Len(u[n]), opt |-> f]
    BY <1>1, <2>1, <2>4
  <2>18. QED
    BY <2>14, <2>15, <2>16, <2>17
<1>5. g = [n \in 0 .. m |-> IF n = 0 THEN [at |-> HeaderSize + 1, opt |-> <<>>] ELSE DecodeNext(bytes, g[n - 1])]
  <2>1. \A n \in 0 .. m : g[n] = IF n = 0 THEN [at |-> HeaderSize + 1, opt |-> <<>>] ELSE DecodeNext(bytes, g[n - 1])
    <3>1. \A n \in 0 .. m : n # 0 => n \in 1 .. m
      OBVIOUS
    <3>2. QED
      BY <1>3, <1>4, <3>1
  <2>2. g = [n \in 0 .. m |-> g[n]]
    BY <1>1
  <2>3. QED
    BY ONLY <2>1, <2>2
<1>6. PICK h : h = CHOOSE f : f = [n \in 0 .. m |-> IF n = 0 THEN [at |-> HeaderSize + 1, opt |-> <<>>] ELSE DecodeNext(bytes, f[n - 1])]
  OBVIOUS
<1>7. h = [n \in 0 .. m |-> IF n = 0 THEN [at |-> HeaderSize + 1, opt |-> <<>>] ELSE DecodeNext(bytes, h[n - 1])]
  BY <1>5, <1>6, Zenon
<1>8. PICK T : T = {n \in Nat : n <= m /\ h[n] # g[n]}
  OBVIOUS
<1>9. T = {}
  <2> SUFFICES ASSUME T # {} PROVE FALSE
    OBVIOUS
  <2>1. PICK n \in T : \A j \in T : n <= j
    BY <1>8, LeastNumber
  <2>2. n \in 0 .. m /\ h[n] # g[n]
    BY <1>8, <2>1
  <2>3. n # 0
    BY <1>3, <1>7, <2>2
  <2>4. n - 1 \in Nat /\ n - 1 \notin T /\ n - 1 <= m /\ n \in 1 .. m
    BY <2>1, <2>2, <2>3
  <2>5. h[n - 1] = g[n - 1]
    BY <1>8, <2>4
  <2>6. h[n] = DecodeNext(bytes, h[n - 1])
    BY <1>7, <2>2, <2>3
  <2>7. QED
    BY <1>4, <2>2, <2>4, <2>5, <2>6
<1>10. h[m] = g[m]
  BY <1>8, <1>9
<1>11. DecodeOptions(bytes, m) = h[m]
  BY <1>6 DEF DecodeOptions
<1>12. m \in 0 .. m
  OBVIOUS
<1>13. QED
  BY <1>1, <1>10, <1>11, <1>12

\* The dissector shows them one by one.
LEMMA ShowsOptions ==
  ASSUME NEW m \in Nat, NEW o \in [1 .. m -> OptionalHeader], NEW u, NEW bytes, OptionsAt(o, u, m, bytes)
  PROVE  ShownOptions(bytes, m) =
           [at |-> HeaderSize + 1 + Len(u[m]), opt |-> [j \in 1 .. m |-> Shown(o[j])]]
<1>1. PICK g : g = [n \in 0 .. m |-> [at |-> HeaderSize + 1 + Len(u[n]), opt |-> [j \in 1 .. n |-> Shown(o[j])]]]
  OBVIOUS
<1>2. HeaderSize + 1 \in Nat
  BY DEF HeaderSize
<1>3. g[0] = [at |-> HeaderSize + 1, opt |-> <<>>]
  <2>1. 0 \in 0 .. m /\ Len(u[0]) = 0
    BY EmptySeq DEF OptionsAt
  <2>2. [j \in 1 .. 0 |-> Shown(o[j])] = <<>>
    OBVIOUS
  <2>3. HeaderSize + 1 + Len(u[0]) = HeaderSize + 1
    BY <1>2, <2>1
  <2>4. QED
    BY <1>1, <2>1, <2>2, <2>3
<1>4. ASSUME NEW n \in 1 .. m PROVE g[n] = ShowNext(bytes, g[n - 1])
  <2>1. n \in 0 .. m /\ n - 1 \in 0 .. m /\ n - 1 \in Nat /\ n \in Nat /\ n > 0
    OBVIOUS
  <2>2. PICK a : a = HeaderSize + 1 + Len(u[n - 1])
    OBVIOUS
  <2>3. ShownOption(bytes, a) = Shown(o[n]) /\ NextOption(bytes, a) = a + OptLen(o[n])
    BY <2>2 DEF OptionsAt, HeaderRead
  <2>4. PICK f : f = [j \in 1 .. n |-> Shown(o[j])]
    OBVIOUS
  <2>5. PICK S : S = {Shown(o[i]) : i \in 1 .. m}
    OBVIOUS
  <2>6. \A j \in 1 .. n : j \in 1 .. m
    OBVIOUS
  <2>7. f \in [1 .. n -> S]
    BY <2>4, <2>5, <2>6
  <2>8. Append([j \in 1 .. n - 1 |-> f[j]], f[n]) = f
    BY <2>1, <2>7, OneMore
  <2>9. f[n] = Shown(o[n])
    <3>1. n \in 1 .. n
      OBVIOUS
    <3>2. QED
      BY <2>4, <3>1
  <2>10. [j \in 1 .. n - 1 |-> f[j]] = [j \in 1 .. n - 1 |-> Shown(o[j])]
    <3>1. \A j \in 1 .. n - 1 : j \in 1 .. n
      OBVIOUS
    <3>2. \A j \in 1 .. n - 1 : f[j] = Shown(o[j])
      BY <2>4, <3>1
    <3>3. QED
      BY <3>2
  <2>11. PICK e : e = [j \in 1 .. n - 1 |-> Shown(o[j])]
    OBVIOUS
  <2>12. g[n - 1].at = a /\ g[n - 1].opt = e
    BY <1>1, <2>1, <2>2, <2>11
  <2>13. ShowNext(bytes, g[n - 1]) = [at |-> a + OptLen(o[n]), opt |-> Append(e, Shown(o[n]))]
    BY <2>3, <2>12 DEF ShowNext
  <2>14. Append(e, Shown(o[n])) = f
    BY <2>8, <2>9, <2>10, <2>11
  <2>15. a + OptLen(o[n]) = HeaderSize + 1 + Len(u[n])
    <3>1. Len(u[n]) = Len(u[n - 1]) + OptLen(o[n]) /\ Len(u[n]) \in Nat /\ Len(u[n - 1]) \in Nat
      BY <2>1 DEF OptionsAt
    <3>2. OptLen(o[n]) \in Nat
      <4>1. PICK x \in OptionalHeader : x = o[n]
        OBVIOUS
      <4>2. QED
        BY <4>1, OptionParts
    <3>3. QED
      BY <1>2, <2>2, <3>1, <3>2
  <2>16. g[n] = [at |-> HeaderSize + 1 + Len(u[n]), opt |-> f]
    BY <1>1, <2>1, <2>4
  <2>17. QED
    BY <2>13, <2>14, <2>15, <2>16
<1>5. g = [n \in 0 .. m |-> IF n = 0 THEN [at |-> HeaderSize + 1, opt |-> <<>>] ELSE ShowNext(bytes, g[n - 1])]
  <2>1. \A n \in 0 .. m : g[n] = IF n = 0 THEN [at |-> HeaderSize + 1, opt |-> <<>>] ELSE ShowNext(bytes, g[n - 1])
    <3>1. \A n \in 0 .. m : n # 0 => n \in 1 .. m
      OBVIOUS
    <3>2. QED
      BY <1>3, <1>4, <3>1
  <2>2. g = [n \in 0 .. m |-> g[n]]
    BY <1>1
  <2>3. QED
    BY ONLY <2>1, <2>2
<1>6. PICK h : h = CHOOSE f : f = [n \in 0 .. m |-> IF n = 0 THEN [at |-> HeaderSize + 1, opt |-> <<>>] ELSE ShowNext(bytes, f[n - 1])]
  OBVIOUS
<1>7. h = [n \in 0 .. m |-> IF n = 0 THEN [at |-> HeaderSize + 1, opt |-> <<>>] ELSE ShowNext(bytes, h[n - 1])]
  BY <1>5, <1>6, Zenon
<1>8. PICK T : T = {n \in Nat : n <= m /\ h[n] # g[n]}
  OBVIOUS
<1>9. T = {}
  <2> SUFFICES ASSUME T # {} PROVE FALSE
    OBVIOUS
  <2>1. PICK n \in T : \A j \in T : n <= j
    BY <1>8, LeastNumber
  <2>2. n \in 0 .. m /\ h[n] # g[n]
    BY <1>8, <2>1
  <2>3. n # 0
    BY <1>3, <1>7, <2>2
  <2>4. n - 1 \in Nat /\ n - 1 \notin T /\ n - 1 <= m /\ n \in 1 .. m
    BY <2>1, <2>2, <2>3
  <2>5. h[n - 1] = g[n - 1]
    BY <1>8, <2>4
  <2>6. h[n] = ShowNext(bytes, h[n - 1])
    BY <1>7, <2>2, <2>3
  <2>7. QED
    BY <1>4, <2>2, <2>4, <2>5, <2>6
<1>10. h[m] = g[m]
  BY <1>8, <1>9
<1>11. ShownOptions(bytes, m) = h[m]
  BY <1>6 DEF ShownOptions
<1>12. m \in 0 .. m
  OBVIOUS
<1>13. QED
  BY <1>1, <1>10, <1>11, <1>12

\* The packets that encodeHeader is given (Packet, PacketHeader).
Packet ==
  [version : Nat, ifcsrc : Nat, ifcdst : Nat, flag : Field(2), seqNo : Field(2), ackNo : Field(2),
   window : Field(2), fingerPrint : Field(2), flowId : Field(2), flowSeqNo : Field(2),
   origAckNo : Field(2), padding : Field(2), sentTS : Field(8), opt : Seq(OptionalHeader),
   data : Seq(Nat)]

\* What stands in the fields of fixed length.
MandatoryAt(bytes, pkt) ==
  /\ bytes[1] = ((pkt.version % Nibble) * Nibble + OHLen(pkt)) % ByteCnt
  /\ bytes[2] = ((pkt.ifcsrc % Nibble) * Nibble) + (pkt.ifcdst % Nibble)
  /\ \A i \in 1 .. 9 : Get(bytes, 1 + 2 * i, 2) = Words(pkt)[i]
  /\ Get(bytes, 21, 8) = pkt.sentTS

\* The nine words fit in two bytes each.
LEMMA WordsOf ==
  ASSUME NEW pkt \in Packet
  PROVE  DOMAIN Words(pkt) = 1 .. 9 /\ \A i \in 1 .. 9 : Words(pkt)[i] \in Field(2)
<1>1. PICK w : w = Words(pkt)
  OBVIOUS
<1>2. w = <<pkt.flag, pkt.seqNo, pkt.ackNo, pkt.window, pkt.fingerPrint, pkt.flowId, pkt.flowSeqNo, pkt.origAckNo, pkt.padding>>
  BY <1>1 DEF Words
<1>3. PICK S : S = Field(2)
  OBVIOUS
<1>4. /\ pkt.flag \in S /\ pkt.seqNo \in S /\ pkt.ackNo \in S /\ pkt.window \in S /\ pkt.fingerPrint \in S
      /\ pkt.flowId \in S /\ pkt.flowSeqNo \in S /\ pkt.origAckNo \in S /\ pkt.padding \in S
  BY <1>3 DEF Packet
<1>5. w \in Seq(S) /\ Len(w) = 9
  BY <1>2, <1>4
<1>6. DOMAIN w = 1 .. 9 /\ \A i \in 1 .. 9 : w[i] \in S
  <2>1. DOMAIN w = 1 .. 9
    BY <1>2
  <2>2. \A i \in 1 .. Len(w) : w[i] \in S
    BY <1>5, ElementOfSeq
  <2>3. QED
    BY <1>5, <2>1, <2>2
<1>7. QED
  BY <1>1, <1>3, <1>6

\* Halves of a byte.
LEMMA Halves ==
  ASSUME NEW a \in Nat, NEW b \in Nat, a < Nibble, b < Nibble
  PROVE  /\ a * Nibble + b \in Nat /\ a * Nibble + b < ByteCnt
         /\ (a * Nibble + b) % ByteCnt = a * Nibble + b
         /\ (a * Nibble + b) \div Nibble = a /\ (a * Nibble + b) % Nibble = b
<1>1. PICK n \in Nat : n = Nibble /\ n > 1
  BY WireAssumption
<1>2. PICK v \in Nat : v = a * n + b
  <2>1. a * n \in Nat
    OBVIOUS
  <2>2. QED
    BY <2>1
<1>3. v < n * n
  <2>1. (n - a) * n >= n
    BY <1>1
  <2>2. n * n - a * n = (n - a) * n
    BY <1>1
  <2>3. n * n \in Nat /\ a * n \in Nat
    OBVIOUS
  <2>4. QED
    BY <1>1, <1>2, <2>1, <2>2, <2>3
<1>4. v \div n = a /\ v % n = b
  BY <1>1, <1>2, DivisionUnique
<1>5. PICK w \in Nat : w = ByteCnt /\ v < w
  BY <1>1, <1>3, Weights DEF ByteCnt
<1>6. v % w = v
  BY <1>5
<1>7. QED
  BY <1>1, <1>2, <1>4, <1>5, <1>6

\* Whoever has the bytes of the fixed part has its fields.
MandatoryStands(pkt) ==
  \A bytes : Stands(bytes, 1, EncodeMandatory(pkt)) => MandatoryAt(bytes, pkt)

\* The fixed part has HeaderSize bytes, and each field its place among them.
LEMMA MandatoryRead ==
  ASSUME NEW pkt \in Packet
  PROVE  EncodeMandatory(pkt) \in Seq(Nat) /\ Len(EncodeMandatory(pkt)) = HeaderSize /\ MandatoryStands(pkt)
<1>1. PICK x \in Nat : x = ((pkt.version % Nibble) * Nibble + OHLen(pkt)) % ByteCnt
  <2>1. pkt.version \in Nat /\ Len(pkt.opt) \in Nat /\ Nibble \in Nat /\ Nibble > 0
    BY WireAssumption, LenProperties DEF Packet
  <2>2. pkt.version % Nibble \in Nat /\ OHLen(pkt) \in Nat /\ pkt.version % Nibble < Nibble /\ OHLen(pkt) < Nibble
    BY <2>1, Division DEF OHLen
  <2>3. QED
    BY <2>2, Halves
<1>2. PICK y \in Nat : y = ((pkt.ifcsrc % Nibble) * Nibble) + (pkt.ifcdst % Nibble)
  <2>1. pkt.ifcsrc \in Nat /\ pkt.ifcdst \in Nat /\ Nibble \in Nat /\ Nibble > 0
    BY WireAssumption DEF Packet
  <2>2. /\ pkt.ifcsrc % Nibble \in Nat /\ pkt.ifcsrc % Nibble < Nibble
        /\ pkt.ifcdst % Nibble \in Nat /\ pkt.ifcdst % Nibble < Nibble
    BY <2>1, Division
  <2>3. QED
    BY <2>2, Halves
<1>3. PICK h : h = <<x, y>>
  OBVIOUS
<1>4. h \in Seq(Nat) /\ Len(h) = 2 /\ h[1] = x /\ h[2] = y
  BY <1>3
<1>5. PICK w \in Nat : w = 2
  OBVIOUS
<1>6. PICK n \in Nat : n = 9
  OBVIOUS
<1>7. PICK s : s = [i \in 1 .. n |-> Put(Words(pkt)[i], w)]
  OBVIOUS
<1>8. \A i \in 1 .. n : Words(pkt)[i] \in Field(w) /\ Words(pkt)[i] \in Nat
  BY <1>5, <1>6, WordsOf, FieldWeights
<1>9. \A i \in 1 .. n : s[i] \in Seq(Nat) /\ Len(s[i]) = w /\ s[i] = Put(Words(pkt)[i], w)
  BY <1>7, <1>8, PutNumbers
<1>10. s \in [1 .. n -> Seq(Nat)]
  BY <1>7, <1>9
<1>11. FlattenSeq(s) \in Seq(Nat) /\ Len(FlattenSeq(s)) = n * w /\ AlikeStand(FlattenSeq(s), s, n, w)
  BY <1>9, <1>10, AlikeParts
<1>12. PICK t \in Seq(Nat) : t = FlattenSeq(s) /\ Len(t) = 18 /\ AlikeStand(t, s, n, w)
  BY <1>5, <1>6, <1>11
<1>13. PICK e \in Nat : e = 8
  OBVIOUS
<1>14. PICK v : v = pkt.sentTS
  OBVIOUS
<1>15. v \in Field(e) /\ v \in Nat
  BY <1>13, <1>14, FieldWeights DEF Packet
<1>16. PICK z \in Seq(Nat) : z = Put(v, e) /\ Len(z) = 8
  BY <1>13, <1>15, PutNumbers
<1>17. EncodeMandatory(pkt) = (h \o t) \o z
  BY <1>1, <1>2, <1>3, <1>5, <1>6, <1>7, <1>12, <1>13, <1>14, <1>16 DEF EncodeMandatory
<1>18. h \o t \in Seq(Nat) /\ Len(h \o t) = 20
  <2>1. h \o t \in Seq(Nat) /\ Len(h \o t) = Len(h) + Len(t)
    BY <1>4, ConcatProperties
  <2>2. Len(h) = 2 /\ Len(t) = 18
    BY <1>4, <1>12
  <2>3. QED
    BY <2>1, <2>2
<1>19. PICK ht \in Seq(Nat) : ht = h \o t /\ Len(ht) = 20
  BY <1>18
<1>20. ht \o z \in Seq(Nat) /\ Len(ht \o z) = 28
  <2>1. ht \o z \in Seq(Nat) /\ Len(ht \o z) = Len(ht) + Len(z)
    BY ConcatProperties
  <2>2. Len(ht) = 20 /\ Len(z) = 8
    BY <1>16, <1>19
  <2>3. QED
    BY <2>1, <2>2
<1>21. ASSUME NEW bytes, Stands(bytes, 1, EncodeMandatory(pkt)) PROVE MandatoryAt(bytes, pkt)
  <2>1. PICK p \in Nat : p = 1
    OBVIOUS
  <2>2. Stands(bytes, p, ht \o z)
    BY <1>17, <1>19, <1>21, <2>1
  <2>3. Stands(bytes, p, ht) /\ Stands(bytes, p + Len(ht), z)
    BY <2>2, StandsBoth
  <2>4. Stands(bytes, p, h \o t)
    BY <1>19, <2>3
  <2>5. Stands(bytes, p, h) /\ Stands(bytes, p + Len(h), t)
    BY <1>4, <2>4, StandsBoth
  <2>6. bytes[1] = x /\ bytes[2] = y
    <3>1. \A j \in 1 .. 2 : bytes[p + j - 1] = h[j]
      BY <1>4, <2>5 DEF Stands
    <3>2. 1 \in 1 .. 2 /\ 2 \in 1 .. 2 /\ p + 1 - 1 = 1 /\ p + 2 - 1 = 2
      BY <2>1
    <3>3. bytes[p + 1 - 1] = h[1] /\ bytes[p + 2 - 1] = h[2]
      BY <3>1, <3>2
    <3>4. QED
      BY <1>4, <3>2, <3>3
  <2>7. PICK r \in Nat : r = 3
    OBVIOUS
  <2>8. Stands(bytes, r, t)
    <3>1. Len(h) = 2
      BY <1>4
    <3>2. p + Len(h) = r
      BY <2>1, <2>7, <3>1
    <3>3. QED
      BY <2>5, <3>2
  <2>9. ASSUME NEW i \in 1 .. n PROVE Get(bytes, 1 + 2 * i, 2) = Words(pkt)[i]
    <3>1. Stands(bytes, r + (i - 1) * w, s[i])
      BY <1>12, <2>8 DEF AlikeStand
    <3>2. PICK a \in Nat : a = 1 + 2 * i /\ a = r + (i - 1) * w
      BY <1>5, <2>7
    <3>3. PICK f \in Field(w) : f = Words(pkt)[i]
      BY <1>8
    <3>4. Stands(bytes, a, Put(f, w))
      BY <1>9, <3>1, <3>2, <3>3
    <3>5. Get(bytes, a, w) = f
      BY <3>4, FieldRead
    <3>6. QED
      BY <1>5, <3>2, <3>3, <3>5
  <2>10. Get(bytes, 21, 8) = pkt.sentTS
    <3>1. PICK a \in Nat : a = 21
      OBVIOUS
    <3>2. p + Len(ht) = a
      <4>1. Len(ht) = 20
        BY <1>19
      <4>2. QED
        BY <2>1, <3>1, <4>1
    <3>3. Stands(bytes, a, Put(v, e))
      BY <1>16, <2>3, <3>2
    <3>4. Get(bytes, a, e) = v
      BY <1>15, <3>3, FieldRead
    <3>5. QED
      BY <1>13, <1>14, <3>1, <3>4
  <2>11. QED
    BY <1>1, <1>2, <1>6, <2>6, <2>9, <2>10 DEF MandatoryAt
<1>22. MandatoryStands(pkt)
  BY <1>21 DEF MandatoryStands
<1>23. QED
  BY <1>17, <1>19, <1>20, <1>22 DEF HeaderSize

\* A packet on the wire.
OnTheWire(bytes, pkt) ==
  /\ Len(bytes) \in Nat /\ Len(bytes) >= HeaderSize /\ MandatoryAt(bytes, pkt)
  /\ \E u, m : /\ m = Len(pkt.opt) /\ OptionsAt(pkt.opt, u, m, bytes)
               /\ SubSeq(bytes, HeaderSize + 1 + Len(u[m]), Len(bytes)) = pkt.data

\* What encodeHeader writes is the packet on the wire.
LEMMA Encoded ==
  ASSUME NEW pkt \in Packet, EncodeHeader(pkt) # Failed
  PROVE  OnTheWire(EncodeHeader(pkt), pkt)
<1>1. PICK m \in Nat : m = Len(pkt.opt)
  BY LenProperties DEF Packet
<1>2. PICK o \in [1 .. m -> OptionalHeader] : o = pkt.opt
  <2>1. PICK S : S = OptionalHeader
    OBVIOUS
  <2>2. pkt.opt \in Seq(S)
    BY <2>1 DEF Packet
  <2>3. pkt.opt \in [1 .. m -> S]
    BY <1>1, <2>2
  <2>4. QED
    BY <2>1, <2>3
<1>3. PICK h \in Seq(Nat) : h = EncodeMandatory(pkt) /\ Len(h) = HeaderSize
  BY MandatoryRead
<1>4. PICK f \in Seq(Nat) : f = EncodedOptions(o)
  BY OptionsFollow
<1>5. PICK d \in Seq(Nat) : d = pkt.data
  BY DEF Packet
<1>6. PICK hf \in Seq(Nat) : hf = h \o f /\ Len(hf) = Len(h) + Len(f)
  BY ConcatProperties
<1>7. PICK bytes : bytes = hf \o d
  OBVIOUS
<1>8. EncodeHeader(pkt) = bytes
  <2>1. EncodeHeader(pkt) = EncodeMandatory(pkt)
       \o FlattenSeq([i \in DOMAIN pkt.opt |-> EncodeOptionalHeader(pkt.opt[i])])
       \o pkt.data
    BY DEF EncodeHeader
  <2>2. QED
    BY <1>2, <1>3, <1>4, <1>5, <1>6, <1>7, <2>1 DEF EncodedOptions
<1>9. bytes \in Seq(Nat) /\ Len(bytes) = Len(hf) + Len(d)
  BY <1>7, ConcatProperties
<1>10. PICK k \in Nat : k = Len(hf) /\ k >= HeaderSize /\ k = HeaderSize + Len(f)
  <2>1. Len(h) \in Nat /\ Len(f) \in Nat /\ HeaderSize \in Nat
    BY LenProperties DEF HeaderSize
  <2>2. QED
    BY <1>3, <1>6, <2>1
<1>11. PICK l \in Nat : l = Len(d)
  BY LenProperties
<1>12. PICK a \in Nat : a = 1
  OBVIOUS
<1>13. Stands(bytes, a, hf \o d)
  <2>1. \A j \in Nat : a + j - 1 = j
    BY <1>12
  <2>2. PICK c \in Nat : c = Len(hf \o d)
    BY <1>7, <1>9, LenProperties
  <2>3. ASSUME NEW j \in 1 .. c PROVE bytes[a + j - 1] = (hf \o d)[j]
    <3>1. a + j - 1 = j
      <4>1. j \in Nat
        BY <2>2
      <4>2. QED
        BY <2>1, <4>1
    <3>2. bytes[a + j - 1] = bytes[j]
      BY <3>1
    <3>3. QED
      BY <1>7, <3>2
  <2>4. QED
    BY <2>2, <2>3 DEF Stands
<1>14. Stands(bytes, a, hf) /\ Stands(bytes, a + Len(hf), d)
  BY <1>13, StandsBoth
<1>15. Stands(bytes, a, h) /\ Stands(bytes, a + Len(h), f)
  <2>1. Stands(bytes, a, h \o f)
    BY <1>6, <1>14
  <2>2. QED
    BY <2>1, StandsBoth
<1>16. MandatoryAt(bytes, pkt)
  <2>1. Stands(bytes, 1, EncodeMandatory(pkt)) /\ MandatoryStands(pkt)
    BY <1>3, <1>12, <1>15, MandatoryRead
  <2>2. QED
    BY <2>1 DEF MandatoryStands
<1>17. PICK u : OptionsAt(o, u, m, bytes) /\ u[m] = f
  <2>1. a + Len(h) = HeaderSize + 1
    BY <1>3, <1>12 DEF HeaderSize
  <2>2. Stands(bytes, HeaderSize + 1, EncodedOptions(o))
    BY <1>4, <1>15, <2>1
  <2>3. \E u : OptionsAt(o, u, m, bytes) /\ u[m] = EncodedOptions(o)
    BY <2>2, OptionsFollow
  <2>4. QED
    BY <1>4, <2>3
<1>18. PICK b \in Nat : b = HeaderSize + 1 + Len(u[m]) /\ b = k + 1
  BY <1>10, <1>17, LenProperties DEF HeaderSize
<1>19. PICK n \in Nat : n = Len(bytes) /\ n = k + l
  BY <1>9, <1>10, <1>11
<1>20. SubSeq(bytes, b, n) = d
  <2>1. PICK r : r = SubSeq(bytes, b, n)
    OBVIOUS
  <2>2. r = [i \in 1 .. l |-> bytes[k + i]]
    <3>1. n = k + l /\ b = k + 1
      BY <1>18, <1>19
    <3>2. n - b + 1 = l
      BY ONLY <3>1, k \in Nat, l \in Nat
    <3>3. \A i \in 1 .. l : b + i - 1 = k + i
      BY ONLY <3>1, k \in Nat, l \in Nat
    <3>4. QED
      BY <1>9, <1>18, <1>19, <2>1, <3>2, <3>3
  <2>3. \A i \in 1 .. l : bytes[k + i] = d[i]
    <3>1. \A i \in 1 .. l : bytes[a + k + i - 1] = d[i]
      BY <1>10, <1>11, <1>14 DEF Stands
    <3>2. \A i \in 1 .. l : a + k + i - 1 = k + i
      BY <1>12
    <3>3. QED
      BY <3>1, <3>2
  <2>4. d = [i \in 1 .. l |-> d[i]]
    BY <1>11
  <2>5. r = [i \in 1 .. l |-> d[i]]
    BY <2>2, <2>3
  <2>6. QED
    BY <2>1, <2>4, <2>5
<1>21. Len(bytes) >= HeaderSize
  BY <1>10, <1>19 DEF HeaderSize
<1>22. QED
  BY <1>1, <1>2, <1>5, <1>8, <1>16, <1>17, <1>18, <1>19, <1>20, <1>21 DEF OnTheWire

\* The two halves of the first two bytes.
LEMMA FirstBytes ==
  ASSUME NEW pkt \in Packet, Len(pkt.opt) < Nibble, NEW bytes, MandatoryAt(bytes, pkt)
  PROVE  /\ bytes[1] \div Nibble = pkt.version % Nibble /\ bytes[1] % Nibble = Len(pkt.opt)
         /\ bytes[2] \div Nibble = pkt.ifcsrc % Nibble /\ bytes[2] % Nibble = pkt.ifcdst % Nibble
<1>1. Nibble \in Nat /\ Nibble > 0
  BY WireAssumption
<1>2. PICK v \in Nat : v = pkt.version % Nibble /\ v < Nibble
  <2>1. pkt.version \in Nat
    BY DEF Packet
  <2>2. QED
    BY <1>1, <2>1, Division
<1>3. PICK m \in Nat : m = OHLen(pkt) /\ m < Nibble /\ m = Len(pkt.opt)
  <2>1. PICK l \in Nat : l = Len(pkt.opt)
    BY LenProperties DEF Packet
  <2>2. PICK n \in Nat : n = Nibble /\ n > 0
    BY <1>1
  <2>3. l < n
    BY <2>1, <2>2
  <2>4. l % n = l
    BY <2>3
  <2>5. QED
    BY <2>1, <2>2, <2>3, <2>4 DEF OHLen
<1>4. PICK s \in Nat : s = pkt.ifcsrc % Nibble /\ s < Nibble
  <2>1. pkt.ifcsrc \in Nat
    BY DEF Packet
  <2>2. QED
    BY <1>1, <2>1, Division
<1>5. PICK d \in Nat : d = pkt.ifcdst % Nibble /\ d < Nibble
  <2>1. pkt.ifcdst \in Nat
    BY DEF Packet
  <2>2. QED
    BY <1>1, <2>1, Division
<1>6. bytes[1] = (v * Nibble + m) % ByteCnt /\ bytes[2] = s * Nibble + d
  BY <1>2, <1>3, <1>4, <1>5 DEF MandatoryAt
<1>7. (v * Nibble + m) % ByteCnt = v * Nibble + m /\ (v * Nibble + m) \div Nibble = v /\ (v * Nibble + m) % Nibble = m
  BY <1>2, <1>3, Halves
<1>8. (s * Nibble + d) \div Nibble = s /\ (s * Nibble + d) % Nibble = d
  BY <1>4, <1>5, Halves
<1>9. QED
  BY <1>2, <1>3, <1>4, <1>5, <1>6, <1>7, <1>8

\* decodeHeader gives back every packet that encodeHeader wrote with fewer than Nibble
\* optional headers, whatever they are and however much data it has (Packet.cc).
THEOREM HeadersReturn ==
  ASSUME NEW pkt \in Packet PROVE RoundTrip(pkt)
<1> SUFFICES ASSUME Len(pkt.opt) < Nibble, EncodeHeader(pkt) # Failed
             PROVE  DecodeHeader(EncodeHeader(pkt)) = Arrived(pkt)
  BY DEF RoundTrip
<1>1. PICK bytes : bytes = EncodeHeader(pkt)
  OBVIOUS
<1>2. OnTheWire(bytes, pkt)
  BY <1>1, Encoded
<1>3. PICK m \in Nat : m = Len(pkt.opt)
  BY LenProperties DEF Packet
<1>4. PICK o \in [1 .. m -> OptionalHeader] : o = pkt.opt
  <2>1. PICK S : S = OptionalHeader
    OBVIOUS
  <2>2. pkt.opt \in Seq(S)
    BY <2>1 DEF Packet
  <2>3. pkt.opt \in [1 .. m -> S]
    BY <1>3, <2>2
  <2>4. QED
    BY <2>1, <2>3
<1>5. PICK u : OptionsAt(o, u, m, bytes) /\ SubSeq(bytes, HeaderSize + 1 + Len(u[m]), Len(bytes)) = pkt.data
  BY <1>2, <1>3, <1>4 DEF OnTheWire
<1>6. MandatoryAt(bytes, pkt) /\ Len(bytes) >= HeaderSize
  BY <1>2 DEF OnTheWire
<1>7. /\ bytes[1] \div Nibble = pkt.version % Nibble /\ bytes[1] % Nibble = m
      /\ bytes[2] \div Nibble = pkt.ifcsrc % Nibble /\ bytes[2] % Nibble = pkt.ifcdst % Nibble
  BY <1>3, <1>6, FirstBytes
<1>8. PICK opts : opts = DecodeOptions(bytes, bytes[1] % Nibble)
  OBVIOUS
<1>9. opts = [at |-> HeaderSize + 1 + Len(u[m]), opt |-> [j \in 1 .. m |-> Turned(o[m - j + 1])]]
  <2>1. OptionsAt(o, u, m, bytes)
    BY <1>5
  <2>2. QED
    BY <1>7, <1>8, <2>1, DecodesOptions
<1>10. /\ Get(bytes, 3, 2) = pkt.flag /\ Get(bytes, 5, 2) = pkt.seqNo /\ Get(bytes, 7, 2) = pkt.ackNo
       /\ Get(bytes, 9, 2) = pkt.window /\ Get(bytes, 11, 2) = pkt.fingerPrint
       /\ Get(bytes, 13, 2) = pkt.flowId /\ Get(bytes, 15, 2) = pkt.flowSeqNo
       /\ Get(bytes, 17, 2) = pkt.origAckNo /\ Get(bytes, 19, 2) = pkt.padding
       /\ Get(bytes, 21, 8) = pkt.sentTS
  <2>1. \A i \in 1 .. 9 : Get(bytes, 1 + 2 * i, 2) = Words(pkt)[i]
    BY <1>6 DEF MandatoryAt
  <2>2. Get(bytes, 1 + 2 * 1, 2) = Words(pkt)[1] /\ Get(bytes, 1 + 2 * 2, 2) = Words(pkt)[2]
        /\ Get(bytes, 1 + 2 * 3, 2) = Words(pkt)[3] /\ Get(bytes, 1 + 2 * 4, 2) = Words(pkt)[4]
        /\ Get(bytes, 1 + 2 * 5, 2) = Words(pkt)[5] /\ Get(bytes, 1 + 2 * 6, 2) = Words(pkt)[6]
        /\ Get(bytes, 1 + 2 * 7, 2) = Words(pkt)[7] /\ Get(bytes, 1 + 2 * 8, 2) = Words(pkt)[8]
        /\ Get(bytes, 1 + 2 * 9, 2) = Words(pkt)[9]
    BY <2>1
  <2>3. /\ 1 + 2 * 1 = 3 /\ 1 + 2 * 2 = 5 /\ 1 + 2 * 3 = 7 /\ 1 + 2 * 4 = 9 /\ 1 + 2 * 5 = 11
        /\ 1 + 2 * 6 = 13 /\ 1 + 2 * 7 = 15 /\ 1 + 2 * 8 = 17 /\ 1 + 2 * 9 = 19
    OBVIOUS
  <2>4. /\ Words(pkt)[1] = pkt.flag /\ Words(pkt)[2] = pkt.seqNo /\ Words(pkt)[3] = pkt.ackNo
        /\ Words(pkt)[4] = pkt.window /\ Words(pkt)[5] = pkt.fingerPrint /\ Words(pkt)[6] = pkt.flowId
        /\ Words(pkt)[7] = pkt.flowSeqNo /\ Words(pkt)[8] = pkt.origAckNo /\ Words(pkt)[9] = pkt.padding
    BY DEF Words
  <2>5. QED
    BY <1>6, <2>2, <2>3, <2>4 DEF MandatoryAt
<1>11. SubSeq(bytes, opts.at, Len(bytes)) = pkt.data /\ opts.opt = [j \in 1 .. m |-> Turned(o[m - j + 1])]
  BY <1>5, <1>9
<1>12. DecodeHeader(bytes) =
         [version |-> pkt.version % Nibble, ifcsrc |-> pkt.ifcsrc % Nibble,
          ifcdst |-> pkt.ifcdst % Nibble, flag |-> pkt.flag, seqNo |-> pkt.seqNo,
          ackNo |-> pkt.ackNo, window |-> pkt.window, fingerPrint |-> pkt.fingerPrint,
          flowId |-> pkt.flowId, flowSeqNo |-> pkt.flowSeqNo, origAckNo |-> pkt.origAckNo,
          padding |-> pkt.padding, sentTS |-> pkt.sentTS, opt |-> opts.opt, data |-> pkt.data]
  <2>1. ~(Len(bytes) < HeaderSize)
    <3>1. Len(bytes) \in Nat
      BY <1>2 DEF OnTheWire
    <3>2. QED
      BY <1>6, <3>1 DEF HeaderSize
  <2>2. QED
    BY <1>7, <1>8, <1>10, <1>11, <2>1 DEF DecodeHeader
<1>13. Reverse([i \in DOMAIN o |-> Turned(o[i])]) = opts.opt
  <2>1. PICK f : f = [i \in 1 .. m |-> Turned(o[i])]
    OBVIOUS
  <2>2. DOMAIN o = 1 .. m /\ Len(f) = m
    BY <2>1
  <2>3. Reverse(f) = [i \in 1 .. m |-> f[(m - i) + 1]]
    BY <2>2 DEF Reverse
  <2>4. \A i \in 1 .. m : (m - i) + 1 \in 1 .. m /\ f[(m - i) + 1] = Turned(o[m - i + 1])
    BY <2>1
  <2>5. Reverse(f) = [i \in 1 .. m |-> Turned(o[m - i + 1])]
    BY <2>3, <2>4
  <2>6. QED
    BY <1>11, <2>1, <2>2, <2>5
<1>14. Arrived(pkt) =
         [version |-> pkt.version % Nibble, ifcsrc |-> pkt.ifcsrc % Nibble,
          ifcdst |-> pkt.ifcdst % Nibble, flag |-> pkt.flag, seqNo |-> pkt.seqNo,
          ackNo |-> pkt.ackNo, window |-> pkt.window, fingerPrint |-> pkt.fingerPrint,
          flowId |-> pkt.flowId, flowSeqNo |-> pkt.flowSeqNo, origAckNo |-> pkt.origAckNo,
          padding |-> pkt.padding, sentTS |-> pkt.sentTS, opt |-> opts.opt, data |-> pkt.data]
  <2>1. PICK rv : rv = Reverse([i \in DOMAIN pkt.opt |-> Turned(pkt.opt[i])])
    OBVIOUS
  <2>2. Arrived(pkt) = [pkt EXCEPT !.version = pkt.version % Nibble, !.ifcsrc = pkt.ifcsrc % Nibble,
                                   !.ifcdst = pkt.ifcdst % Nibble, !.opt = rv]
    BY <2>1 DEF Arrived
  <2>3. pkt = [version |-> pkt.version, ifcsrc |-> pkt.ifcsrc,
          ifcdst |-> pkt.ifcdst, flag |-> pkt.flag, seqNo |-> pkt.seqNo,
          ackNo |-> pkt.ackNo, window |-> pkt.window, fingerPrint |-> pkt.fingerPrint,
          flowId |-> pkt.flowId, flowSeqNo |-> pkt.flowSeqNo, origAckNo |-> pkt.origAckNo,
          padding |-> pkt.padding, sentTS |-> pkt.sentTS, opt |-> pkt.opt, data |-> pkt.data]
    BY DEF Packet
  <2>4. rv = opts.opt
    BY <1>4, <1>13, <2>1
  <2>5. QED
    BY <2>2, <2>3, <2>4
<1>15. QED
  BY <1>1, <1>12, <1>14

\* A flag has one name and one bit.
LEMMA FlagBits ==
  DOMAIN FlagName = 1 .. 11 /\ \A i \in 1 .. 11 : FlagBit(FlagName[i]) = 2 ^ (i - 1)
<1>1. DOMAIN FlagName = 1 .. 11
  BY DEF FlagName
<1>2. /\ FlagName[1] = "ACK" /\ FlagName[2] = "DAT" /\ FlagName[3] = "SYN" /\ FlagName[4] = "FFN"
      /\ FlagName[5] = "CFN" /\ FlagName[6] = "FAC" /\ FlagName[7] = "CHS" /\ FlagName[8] = "CSN"
      /\ FlagName[9] = "CTR" /\ FlagName[10] = "CHF" /\ FlagName[11] = "IFC"
  BY DEF FlagName
<1>3. ASSUME NEW i \in 1 .. 11, NEW j \in 1 .. 11, FlagName[i] = FlagName[j] PROVE i = j
  <2>1. i \in {1, 2, 3, 4, 5, 6, 7, 8, 9, 10, 11} /\ j \in {1, 2, 3, 4, 5, 6, 7, 8, 9, 10, 11}
    OBVIOUS
  <2>2. QED
    BY <1>2, <1>3, <2>1
<1>4. ASSUME NEW i \in 1 .. 11 PROVE FlagBit(FlagName[i]) = 2 ^ (i - 1)
  <2>1. PICK f : f = FlagName[i]
    OBVIOUS
  <2>2. \A j \in 1 .. 11 : FlagName[j] = f => j = i
    BY <1>3, <2>1
  <2>3. (CHOOSE j \in DOMAIN FlagName : FlagName[j] = f) = i
    BY <1>1, <2>1, <2>2
  <2>4. FlagBit(f) = 2 ^ (i - 1)
    BY <2>3, Zenon DEF FlagBit
  <2>5. QED
    BY <2>1, <2>4
<1>5. QED
  BY <1>1, <1>4

\* printLog's bits are the flags that are set.
LEMMA FlagsShown ==
  ASSUME NEW flags
  PROVE  ShownFlags(flags) = {f \in ToSet(FlagName) : (flags \div FlagBit(f)) % 2 = 1}
<1>1. ToSet(FlagName) = {FlagName[i] : i \in 1 .. 11}
  BY FlagBits DEF ToSet
<1>2. PICK Set1 : Set1 = {j \in 1 .. 11 : (flags \div 2 ^ (j - 1)) % 2 = 1}
  OBVIOUS
<1>3. ShownFlags(flags) = {FlagName[i] : i \in Set1}
  BY <1>2, FlagBits, Zenon DEF ShownFlags
<1>4. \A i \in 1 .. 11 : i \in Set1 <=> (flags \div FlagBit(FlagName[i])) % 2 = 1
  <2>1. ASSUME NEW i \in 1 .. 11 PROVE i \in Set1 <=> (flags \div FlagBit(FlagName[i])) % 2 = 1
    <3>1. PICK b : b = 2 ^ (i - 1)
      OBVIOUS
    <3>2. FlagBit(FlagName[i]) = b
      BY <3>1, FlagBits
    <3>3. i \in Set1 <=> (flags \div b) % 2 = 1
      BY <1>2, <3>1, Zenon
    <3>4. QED
      BY <3>2, <3>3
  <2>2. QED
    BY <2>1
<1>5. Set1 \subseteq 1 .. 11
  BY <1>2, Zenon
<1>6. PICK B : B = {f \in ToSet(FlagName) : (flags \div FlagBit(f)) % 2 = 1}
  OBVIOUS
<1>7. \A f : f \in B <=> \E i \in 1 .. 11 : f = FlagName[i] /\ (flags \div FlagBit(f)) % 2 = 1
  BY <1>1, <1>6, Zenon
<1>8. \A f : f \in ShownFlags(flags) <=> \E i \in Set1 : f = FlagName[i]
  BY <1>3, Zenon
<1>9. ShownFlags(flags) = B
  BY <1>4, <1>5, <1>7, <1>8, Zenon
<1>10. QED
  BY <1>6, <1>9

\* The dissector for Wireshark shows every such packet as it was sent, but for what it
\* does not know (mpudp.lua).
THEOREM DissectorShows ==
  ASSUME NEW pkt \in Packet PROVE DissectorAgrees(pkt)
<1> SUFFICES ASSUME Len(pkt.opt) < Nibble, EncodeHeader(pkt) # Failed
             PROVE  Dissected(EncodeHeader(pkt)) =
                      [version |-> pkt.version % Nibble, ifcsrc |-> pkt.ifcsrc % Nibble,
                       ifcdst |-> pkt.ifcdst % Nibble,
                       flags |-> {f \in ToSet(FlagName) : (pkt.flag \div FlagBit(f)) % 2 = 1},
                       words |-> Words(pkt),
                       sentTS |-> pkt.sentTS, opt |-> [i \in DOMAIN pkt.opt |-> Shown(pkt.opt[i])],
                       data |-> pkt.data]
  BY DEF DissectorAgrees
<1>1. PICK bytes : bytes = EncodeHeader(pkt)
  OBVIOUS
<1>2. OnTheWire(bytes, pkt)
  BY <1>1, Encoded
<1>3. PICK m \in Nat : m = Len(pkt.opt)
  BY LenProperties DEF Packet
<1>4. PICK o \in [1 .. m -> OptionalHeader] : o = pkt.opt
  <2>1. PICK S : S = OptionalHeader
    OBVIOUS
  <2>2. pkt.opt \in Seq(S)
    BY <2>1 DEF Packet
  <2>3. pkt.opt \in [1 .. m -> S]
    BY <1>3, <2>2
  <2>4. QED
    BY <2>1, <2>3
<1>5. PICK u : OptionsAt(o, u, m, bytes) /\ SubSeq(bytes, HeaderSize + 1 + Len(u[m]), Len(bytes)) = pkt.data
  BY <1>2, <1>3, <1>4 DEF OnTheWire
<1>6. MandatoryAt(bytes, pkt)
  BY <1>2 DEF OnTheWire
<1>7. /\ bytes[1] \div Nibble = pkt.version % Nibble /\ bytes[1] % Nibble = m
      /\ bytes[2] \div Nibble = pkt.ifcsrc % Nibble /\ bytes[2] % Nibble = pkt.ifcdst % Nibble
  BY <1>3, <1>6, FirstBytes
<1>8. PICK opts : opts = ShownOptions(bytes, bytes[1] % Nibble)
  OBVIOUS
<1>9. opts = [at |-> HeaderSize + 1 + Len(u[m]), opt |-> [j \in 1 .. m |-> Shown(o[j])]]
  <2>1. OptionsAt(o, u, m, bytes)
    BY <1>5
  <2>2. QED
    BY <1>7, <1>8, <2>1, ShowsOptions
<1>10. [i \in 1 .. 9 |-> Get(bytes, 1 + 2 * i, 2)] = Words(pkt)
  <2>1. \A i \in 1 .. 9 : Get(bytes, 1 + 2 * i, 2) = Words(pkt)[i]
    BY <1>6 DEF MandatoryAt
  <2>2. Words(pkt) = [i \in 1 .. 9 |-> Words(pkt)[i]]
    <3>1. PICK w : w = Words(pkt)
      OBVIOUS
    <3>2. w = <<w[1], w[2], w[3], w[4], w[5], w[6], w[7], w[8], w[9]>>
      BY <3>1 DEF Words
    <3>3. w = [i \in 1 .. 9 |-> w[i]]
      BY <3>2
    <3>4. QED
      BY <3>1, <3>3
  <2>3. QED
    BY <2>1, <2>2
<1>11. Get(bytes, 3, 2) = pkt.flag /\ Get(bytes, 21, 8) = pkt.sentTS
  <2>1. Get(bytes, 1 + 2 * 1, 2) = Words(pkt)[1] /\ Get(bytes, 21, 8) = pkt.sentTS
    BY <1>6 DEF MandatoryAt
  <2>2. 1 + 2 * 1 = 3 /\ Words(pkt)[1] = pkt.flag
    BY DEF Words
  <2>3. QED
    BY <2>1, <2>2
<1>12. SubSeq(bytes, opts.at, Len(bytes)) = pkt.data /\ opts.opt = [i \in DOMAIN pkt.opt |-> Shown(pkt.opt[i])]
  BY <1>4, <1>5, <1>9
<1>13. PICK fl : fl = {f \in ToSet(FlagName) : (pkt.flag \div FlagBit(f)) % 2 = 1}
  OBVIOUS
<1>14. ShownFlags(pkt.flag) = fl
  BY <1>13, FlagsShown
<1>15. Dissected(bytes) =
         [version |-> pkt.version % Nibble, ifcsrc |-> pkt.ifcsrc % Nibble, ifcdst |-> pkt.ifcdst % Nibble,
          flags |-> fl, words |-> Words(pkt), sentTS |-> pkt.sentTS,
          opt |-> [i \in DOMAIN pkt.opt |-> Shown(pkt.opt[i])], data |-> pkt.data]
  BY <1>7, <1>8, <1>10, <1>11, <1>12, <1>14 DEF Dissected
<1>16. QED
  BY <1>1, <1>13, <1>15

(***************************************************************************)
(* Carries that are added again leave a number that differs by a multiple  *)
(* of WordCnt - 1.                                                         *)
(***************************************************************************)
Carried(n) == IF n = 0 THEN 0 ELSE ((n - 1) % (WordCnt - 1)) + 1

\* There are at least 16 words.
LEMMA WordCntIs == WordCnt \in Nat /\ WordCnt >= 16 /\ WordCnt - 1 \in Nat /\ WordCnt - 1 > 0
<1>1. \A a \in Nat : a >= 4 => a * a \in Nat /\ a * a >= 16
  <2>1. ASSUME NEW a \in Nat, a >= 4 PROVE a * a \in Nat /\ a * a >= 16
    <3>1. a * a >= 4 * a
      BY <2>1
    <3>2. QED
      BY <2>1, <3>1
  <2>2. QED
    BY <2>1
<1>2. QED
  BY <1>1, Weights DEF WordCnt

\* A multiple of the divisor does not change the remainder.
LEMMA MultipleAway ==
  ASSUME NEW a \in Nat, NEW q1 \in Nat, NEW b \in Nat, b > 0
  PROVE  (a + q1 * b) % b = a % b
<1>1. PICK q2 \in Nat, r2 \in Nat : q2 = a \div b /\ r2 = a % b /\ r2 < b /\ a = q2 * b + r2
  BY Division
<1>2. a + q1 * b = (q2 + q1) * b + r2
  <2>1. (q2 + q1) * b = q2 * b + q1 * b
    OBVIOUS
  <2>2. q2 * b \in Nat /\ q1 * b \in Nat
    OBVIOUS
  <2>3. QED
    BY <1>1, <2>1, <2>2
<1>3. PICK q3 \in Nat : q3 = q2 + q1
  OBVIOUS
<1>4. (q3 * b + r2) % b = r2
  BY <1>1, DivisionUnique
<1>5. QED
  BY <1>1, <1>2, <1>3, <1>4

\* A word has no carries.
LEMMA CarriedSmall ==
  ASSUME NEW n \in Nat, n < WordCnt PROVE Carried(n) = n
<1>1. PICK w \in Nat : w = WordCnt - 1 /\ w > 0 /\ n <= w
  BY WordCntIs
<1>2. CASE n = 0
  BY <1>2 DEF Carried
<1>3. CASE n # 0
  <2>1. PICK k \in Nat : k = n - 1 /\ k < w
    BY <1>1, <1>3
  <2>2. k % w = k
    BY <2>1
  <2>3. QED
    BY <1>1, <1>3, <2>1, <2>2 DEF Carried
<1>4. QED
  BY <1>2, <1>3

\* Adding the carries once makes a number smaller and changes nothing else.
LEMMA CarriedOn ==
  ASSUME NEW n \in Nat, ~(n < WordCnt)
  PROVE  /\ (n % WordCnt) + (n \div WordCnt) \in Nat /\ (n % WordCnt) + (n \div WordCnt) < n
         /\ Carried((n % WordCnt) + (n \div WordCnt)) = Carried(n)
<1>1. PICK w \in Nat : w = WordCnt /\ w >= 16
  BY WordCntIs
<1>2. PICK d \in Nat, r \in Nat : d = n \div w /\ r = n % w /\ r < w /\ n = d * w + r
  BY <1>1, Division
<1>3. d >= 1
  <2>1. ASSUME d = 0 PROVE FALSE
    <3>1. d * w = 0
      BY <2>1
    <3>2. n = r
      BY <1>2, <3>1
    <3>3. QED
      BY <1>1, <1>2, <3>2
  <2>2. QED
    BY <2>1
<1>4. PICK v \in Nat : v = w - 1 /\ v >= 15 /\ v > 0
  BY <1>1
<1>5. d * w = d * v + d /\ d * v \in Nat /\ d * v >= 1
  <2>1. d * (v + 1) = d * v + d
    OBVIOUS
  <2>2. d * v >= v
    BY <1>3
  <2>3. d * v \in Nat
    OBVIOUS
  <2>4. v + 1 = w
    BY <1>4
  <2>5. QED
    BY <1>4, <2>1, <2>2, <2>3, <2>4
<1>6. PICK k \in Nat : k = (r + d) - 1
  BY <1>3
<1>7. r + d \in Nat /\ r + d < n /\ r + d # 0 /\ n # 0 /\ n - 1 = k + d * v
  BY <1>2, <1>3, <1>5, <1>6
<1>8. (k + d * v) % v = k % v
  <2>1. d \in Nat /\ k \in Nat /\ v \in Nat /\ v > 0
    BY <1>2, <1>4, <1>6
  <2>2. QED
    BY ONLY <2>1, MultipleAway
<1>9. Carried(n) = ((n - 1) % v) + 1
  BY <1>1, <1>4, <1>7 DEF Carried
<1>10. Carried(r + d) = (k % v) + 1
  BY <1>1, <1>4, <1>6, <1>7 DEF Carried
<1>11. QED
  BY <1>1, <1>2, <1>7, <1>8, <1>9, <1>10

\* Where the loop over the carries ends.
LEMMA FoldIs == \A n \in Nat : Fold[n] = Carried(n)
<1>1. PICK g : g = [n \in Nat |-> Carried(n)]
  OBVIOUS
<1>2. g = [n \in Nat |-> IF n < WordCnt THEN n ELSE g[(n % WordCnt) + (n \div WordCnt)]]
  <2>1. ASSUME NEW n \in Nat PROVE g[n] = IF n < WordCnt THEN n ELSE g[(n % WordCnt) + (n \div WordCnt)]
    <3>1. CASE n < WordCnt
      BY <1>1, <3>1, CarriedSmall
    <3>2. CASE ~(n < WordCnt)
      <4>1. PICK k \in Nat : k = (n % WordCnt) + (n \div WordCnt) /\ Carried(k) = Carried(n)
        BY <3>2, CarriedOn
      <4>2. g[k] = g[n]
        BY <1>1, <4>1
      <4>3. QED
        BY <3>2, <4>1, <4>2
    <3>3. QED
      BY <3>1, <3>2
  <2>2. g = [n \in Nat |-> g[n]]
    BY <1>1
  <2>3. QED
    BY ONLY <2>1, <2>2
<1>3. Fold = [n \in Nat |-> IF n < WordCnt THEN n ELSE Fold[(n % WordCnt) + (n \div WordCnt)]]
  BY <1>2, Zenon DEF Fold
<1>4. PICK T : T = {n \in Nat : Fold[n] # Carried(n)}
  OBVIOUS
<1>5. T = {}
  <2> SUFFICES ASSUME T # {} PROVE FALSE
    OBVIOUS
  <2>1. PICK n \in T : \A j \in T : n <= j
    BY <1>4, LeastNumber
  <2>2. n \in Nat /\ Fold[n] # Carried(n)
    BY <1>4, <2>1
  <2>3. CASE n < WordCnt
    <3>1. Fold[n] = n
      BY <1>3, <2>2, <2>3
    <3>2. QED
      BY <2>2, <2>3, <3>1, CarriedSmall
  <2>4. CASE ~(n < WordCnt)
    <3>1. PICK k \in Nat : k = (n % WordCnt) + (n \div WordCnt) /\ k < n /\ Carried(k) = Carried(n)
      BY <2>2, <2>4, CarriedOn
    <3>2. Fold[n] = Fold[k]
      BY <1>3, <2>2, <2>4, <3>1
    <3>3. k \notin T
      BY <2>1, <2>2, <3>1
    <3>4. QED
      BY <1>4, <2>2, <3>1, <3>2, <3>3
  <2>5. QED
    BY <2>3, <2>4
<1>6. QED
  BY <1>4, <1>5

\* The complement of a sum brings it to all ones.
LEMMA ComplementFills ==
  ASSUME NEW n \in Nat
  PROVE  /\ Fold[n] \in Nat /\ Fold[n] <= WordCnt - 1
         /\ Fold[n + (WordCnt - 1 - Fold[n])] = WordCnt - 1
<1>1. PICK v \in Nat : v = WordCnt - 1 /\ v > 0 /\ v < WordCnt
  BY WordCntIs
<1>2. CASE n = 0
  <2>1. Fold[n] = 0
    BY <1>2, FoldIs DEF Carried
  <2>2. Fold[v] = v
    BY <1>1, FoldIs, CarriedSmall
  <2>3. n + (WordCnt - 1 - Fold[n]) = v
    BY <1>1, <1>2, <2>1
  <2>4. QED
    BY <1>1, <2>1, <2>2, <2>3
<1>3. CASE n # 0
  <2>1. PICK k \in Nat : k = n - 1
    BY <1>3
  <2>2. PICK d \in Nat, r \in Nat : d = k \div v /\ r = k % v /\ r < v /\ k = d * v + r
    BY <1>1, Division
  <2>3. Fold[n] = r + 1
    BY <1>1, <1>3, <2>1, <2>2, FoldIs DEF Carried
  <2>4. PICK e \in Nat : e = v - 1 /\ e < v
    BY <1>1
  <2>5. d * v \in Nat
    OBVIOUS
  <2>6. PICK x \in Nat : x = d * v + e /\ n + (v - (r + 1)) = x + 1
    BY <2>1, <2>2, <2>4, <2>5
  <2>7. (d * v + e) % v = e
    <3>1. d \in Nat /\ e \in Nat /\ v \in Nat /\ e < v
      BY <1>1, <2>2, <2>4
    <3>2. QED
      BY ONLY <3>1, DivisionUnique
  <2>8. Carried(x + 1) = ((x + 1 - 1) % v) + 1
    BY <1>1 DEF Carried
  <2>9. x + 1 - 1 = x
    OBVIOUS
  <2>10. Carried(x + 1) = v
    BY <2>4, <2>6, <2>7, <2>8, <2>9
  <2>11. Fold[x + 1] = v
    BY <2>10, FoldIs
  <2>12. WordCnt - 1 - Fold[n] = v - (r + 1)
    BY <1>1, <2>3
  <2>13. Fold[n + (WordCnt - 1 - Fold[n])] = v
    BY <2>6, <2>11, <2>12
  <2>14. r + 1 \in Nat /\ r + 1 <= v
    <3>1. r \in Nat /\ v \in Nat /\ r < v
      BY <1>1, <2>2
    <3>2. QED
      BY ONLY <3>1
  <2>15. QED
    BY <1>1, <2>3, <2>13, <2>14
<1>4. QED
  BY <1>2, <1>3

\* The sum of the words, as it grows.
SumsTo(f, bytes) ==
  /\ f \in [Nat -> Nat] /\ f[0] = 0
  /\ \A k \in 1 .. Len(bytes) \div 2 : f[k] = f[k - 1] + (bytes[2 * k - 1] + ByteCnt * bytes[2 * k])

\* What an odd byte at the end adds.
OddByte(bytes) == IF Len(bytes) % 2 = 1 THEN bytes[Len(bytes)] ELSE 0

\* A whole word lies within the bytes and is not the odd one.
LEMMA WordsInside ==
  ASSUME NEW l \in Nat, NEW k \in 1 .. l \div 2
  PROVE  2 * k - 1 \in 1 .. l /\ 2 * k \in 1 .. l /\ (l % 2 = 1 => 2 * k # l /\ 2 * k - 1 # l)
<1>1. PICK h \in Nat, r \in Nat : h = l \div 2 /\ r = l % 2 /\ r < 2 /\ l = h * 2 + r
  BY Division
<1>2. k \in 1 .. h
  BY <1>1
<1>3. QED
  BY <1>1, <1>2

\* WordSum is what they grow to.
LEMMA WordSumIs ==
  ASSUME NEW bytes \in Seq(Nat)
  PROVE  \E f : SumsTo(f, bytes) /\ WordSum(bytes) = f[Len(bytes) \div 2] + OddByte(bytes)
<1>1. PICK l \in Nat : l = Len(bytes) /\ \A i \in 1 .. l : bytes[i] \in Nat
  BY LenProperties, ElementOfSeq
<1>2. PICK h \in Nat : h = l \div 2
  BY Division
<1>3. \A k \in 1 .. h : bytes[2 * k - 1] + ByteCnt * bytes[2 * k] \in Nat
  <2>1. ASSUME NEW k \in 1 .. h PROVE bytes[2 * k - 1] + ByteCnt * bytes[2 * k] \in Nat
    <3>1. k \in 1 .. l \div 2
      BY <1>2
    <3>2. 2 * k - 1 \in 1 .. l /\ 2 * k \in 1 .. l
      BY <1>1, <3>1, WordsInside
    <3>3. PICK x \in Nat : x = bytes[2 * k - 1]
      BY <1>1, <3>2
    <3>4. PICK y \in Nat : y = bytes[2 * k]
      BY <1>1, <3>2
    <3>5. ByteCnt * y \in Nat
      BY Weights
    <3>6. QED
      BY <3>3, <3>4, <3>5
  <2>2. QED
    BY <2>1
<1>4. PICK F : F = [x \in Nat \X Nat |->
                     IF x[2] \in 1 .. h THEN x[1] + (bytes[2 * x[2] - 1] + ByteCnt * bytes[2 * x[2]]) ELSE x[1]]
  OBVIOUS
<1>5. F \in [Nat \X Nat -> Nat]
  <2>1. ASSUME NEW x \in Nat \X Nat
        PROVE  (IF x[2] \in 1 .. h THEN x[1] + (bytes[2 * x[2] - 1] + ByteCnt * bytes[2 * x[2]]) ELSE x[1]) \in Nat
    <3>1. x[1] \in Nat
      OBVIOUS
    <3>2. CASE x[2] \in 1 .. h
      <4>1. PICK y \in Nat : y = bytes[2 * x[2] - 1] + ByteCnt * bytes[2 * x[2]]
        BY <1>3, <3>2
      <4>2. x[1] + y \in Nat
        BY <3>1
      <4>3. QED
        BY <3>2, <4>1, <4>2
    <3>3. CASE x[2] \notin 1 .. h
      BY <3>1, <3>3
    <3>4. QED
      BY <3>2, <3>3
  <2>2. QED
    BY <1>4, <2>1
<1>6. PICK f : Recurs(f, Nat, 0, F)
  <2>1. \E f : Recurs(f, Nat, 0, F)
    BY <1>5, Recursion
  <2>2. QED
    BY <2>1
<1>7. f \in [Nat -> Nat] /\ f[0] = 0
  BY <1>6 DEF Recurs
<1>8. ASSUME NEW k \in 1 .. h PROVE f[k] = f[k - 1] + (bytes[2 * k - 1] + ByteCnt * bytes[2 * k])
  <2>1. k \in Nat \ {0} /\ k - 1 \in Nat
    OBVIOUS
  <2>2. f[k] = F[<<f[k - 1], k>>] /\ f[k - 1] \in Nat
    BY <1>6, <1>7, <2>1 DEF Recurs
  <2>3. F[<<f[k - 1], k>>] = f[k - 1] + (bytes[2 * k - 1] + ByteCnt * bytes[2 * k])
    BY <1>4, <2>1, <2>2
  <2>4. QED
    BY <2>2, <2>3
<1>9. SumsTo(f, bytes)
  BY <1>1, <1>2, <1>7, <1>8 DEF SumsTo
<1>10. PICK g : g = [k \in 0 .. h |-> f[k]]
  OBVIOUS
<1>11. ASSUME NEW k \in 1 .. h PROVE g[k] = g[k - 1] + bytes[2 * k - 1] + ByteCnt * bytes[2 * k]
  <2>1. k \in 0 .. h /\ k - 1 \in 0 .. h /\ k - 1 \in Nat /\ k \in 1 .. l \div 2
    BY <1>2
  <2>2. 2 * k - 1 \in 1 .. l /\ 2 * k \in 1 .. l
    BY <1>1, <2>1, WordsInside
  <2>3. PICK x \in Nat : x = bytes[2 * k - 1]
    BY <1>1, <2>2
  <2>4. PICK y \in Nat : y = bytes[2 * k]
    BY <1>1, <2>2
  <2>5. PICK z \in Nat : z = ByteCnt * y
    BY Weights
  <2>6. PICK p \in Nat : p = f[k - 1]
    BY <1>7, <2>1
  <2>7. f[k] = p + (x + z)
    BY <1>8, <2>3, <2>4, <2>5, <2>6
  <2>8. p + (x + z) = p + x + z
    OBVIOUS
  <2>9. g[k] = f[k] /\ g[k - 1] = p
    BY <1>10, <2>1, <2>6
  <2>10. QED
    BY <2>3, <2>4, <2>5, <2>7, <2>8, <2>9
<1>12. g[0] = 0
  <2>1. 0 \in 0 .. h
    OBVIOUS
  <2>2. QED
    BY <1>7, <1>10, <2>1
<1>13. g = [k \in 0 .. h |-> IF k = 0 THEN 0 ELSE g[k - 1] + bytes[2 * k - 1] + ByteCnt * bytes[2 * k]]
  <2>1. \A k \in 0 .. h : g[k] = IF k = 0 THEN 0 ELSE g[k - 1] + bytes[2 * k - 1] + ByteCnt * bytes[2 * k]
    <3>1. \A k \in 0 .. h : k # 0 => k \in 1 .. h
      OBVIOUS
    <3>2. QED
      BY <1>11, <1>12, <3>1, Zenon
  <2>2. g = [k \in 0 .. h |-> g[k]]
    BY <1>10
  <2>3. QED
    BY ONLY <2>1, <2>2, Zenon
<1>14. PICK e : e = CHOOSE s : s = [k \in 0 .. h |-> IF k = 0 THEN 0 ELSE s[k - 1] + bytes[2 * k - 1] + ByteCnt * bytes[2 * k]]
  OBVIOUS
<1>15. e = [k \in 0 .. h |-> IF k = 0 THEN 0 ELSE e[k - 1] + bytes[2 * k - 1] + ByteCnt * bytes[2 * k]]
  BY <1>13, <1>14, Zenon
<1>16. PICK T : T = {k \in Nat : k <= h /\ e[k] # g[k]}
  OBVIOUS
<1>17. T = {}
  <2> SUFFICES ASSUME T # {} PROVE FALSE
    OBVIOUS
  <2>1. PICK k \in T : \A j \in T : k <= j
    BY <1>16, LeastNumber
  <2>2. k \in 0 .. h /\ e[k] # g[k]
    BY <1>16, <2>1
  <2>3. 0 \in 0 .. h /\ e[0] = 0
    <3>1. 0 \in 0 .. h
      OBVIOUS
    <3>2. QED
      BY <1>15, <3>1, Zenon
  <2>4. k # 0
    BY <1>12, <2>2, <2>3
  <2>5. k - 1 \in Nat /\ k - 1 \notin T /\ k - 1 <= h /\ k \in 1 .. h
    BY <2>1, <2>2, <2>4
  <2>6. e[k - 1] = g[k - 1]
    BY <1>16, <2>5
  <2>7. e[k] = e[k - 1] + bytes[2 * k - 1] + ByteCnt * bytes[2 * k]
    BY <1>15, <2>2, <2>4, Zenon
  <2>8. QED
    BY <1>11, <2>2, <2>5, <2>6, <2>7, Zenon
<1>18. e[h] = f[h]
  <2>1. h \in 0 .. h /\ h \in Nat /\ h <= h
    OBVIOUS
  <2>2. e[h] = g[h]
    BY <1>16, <1>17, <2>1
  <2>3. QED
    BY <1>10, <2>1, <2>2
<1>19. WordSum(bytes) = e[h] + OddByte(bytes)
  BY <1>1, <1>2, <1>14, Zenon DEF WordSum, OddByte
<1>20. QED
  BY <1>1, <1>2, <1>9, <1>18, <1>19

\* Bytes that differ in one word, which was zero.
WordApart(b0, b1, l, w, c) ==
  /\ Len(b0) = l /\ Len(b1) = l /\ w \in 1 .. l \div 2
  /\ \A i \in 1 .. l : i # 2 * w - 1 /\ i # 2 * w => b1[i] = b0[i]
  /\ b0[2 * w - 1] = 0 /\ b0[2 * w] = 0 /\ b1[2 * w - 1] + ByteCnt * b1[2 * w] = c

\* It adds what it becomes to the sum.
LEMMA OneWordMore ==
  ASSUME NEW b0 \in Seq(Nat), NEW b1 \in Seq(Nat), NEW l \in Nat,
         NEW w \in Nat, NEW c \in Nat, WordApart(b0, b1, l, w, c)
  PROVE  WordSum(b0) \in Nat /\ WordSum(b1) = WordSum(b0) + c
<1>21. Len(b0) = l /\ Len(b1) = l /\ w \in 1 .. l \div 2
  BY DEF WordApart
<1>22. \A i \in 1 .. l : i # 2 * w - 1 /\ i # 2 * w => b1[i] = b0[i]
  BY DEF WordApart
<1>23. b0[2 * w - 1] = 0 /\ b0[2 * w] = 0 /\ b1[2 * w - 1] + ByteCnt * b1[2 * w] = c
  BY DEF WordApart
<1>1. PICK f0 : SumsTo(f0, b0) /\ WordSum(b0) = f0[Len(b0) \div 2] + OddByte(b0)
  BY WordSumIs
<1>2. PICK f1 : SumsTo(f1, b1) /\ WordSum(b1) = f1[Len(b1) \div 2] + OddByte(b1)
  BY WordSumIs
<1>3. PICK h \in Nat : h = l \div 2
  BY Division
<1>4. /\ f0 \in [Nat -> Nat] /\ f0[0] = 0 /\ f1 \in [Nat -> Nat] /\ f1[0] = 0
      /\ \A k \in 1 .. h : f0[k] = f0[k - 1] + (b0[2 * k - 1] + ByteCnt * b0[2 * k])
      /\ \A k \in 1 .. h : f1[k] = f1[k - 1] + (b1[2 * k - 1] + ByteCnt * b1[2 * k])
  BY <1>21, <1>1, <1>2, <1>3 DEF SumsTo
<1>5. ASSUME NEW k \in 1 .. h, k # w
      PROVE  b1[2 * k - 1] + ByteCnt * b1[2 * k] = b0[2 * k - 1] + ByteCnt * b0[2 * k]
  <2>1. k \in 1 .. l \div 2
    BY <1>3
  <2>2. 2 * k - 1 \in 1 .. l /\ 2 * k \in 1 .. l
    BY <2>1, WordsInside
  <2>3. w \in Nat /\ k \in Nat
    <3>1. w \in 1 .. h
      BY <1>21, <1>3
    <3>2. QED
      BY <3>1
  <2>4. 2 * k - 1 # 2 * w - 1 /\ 2 * k - 1 # 2 * w /\ 2 * k # 2 * w - 1 /\ 2 * k # 2 * w
    BY <1>5, <2>3
  <2>5. QED
    BY <1>22, <2>2, <2>4
<1>6. b0[2 * w - 1] + ByteCnt * b0[2 * w] = 0
  BY <1>23, Weights
<1>7. PICK T : T = {k \in Nat : k <= h /\ f1[k] # f0[k] + IF k >= w THEN c ELSE 0}
  OBVIOUS
<1>8. w \in 1 .. h
  BY <1>21, <1>3
<1>9. T = {}
  <2> SUFFICES ASSUME T # {} PROVE FALSE
    OBVIOUS
  <2>1. PICK k \in T : \A j \in T : k <= j
    BY <1>7, LeastNumber
  <2>2. k \in Nat /\ k <= h /\ f1[k] # f0[k] + IF k >= w THEN c ELSE 0
    BY <1>7, <2>1
  <2>3. k # 0
    <3>1. ~(0 >= w) /\ f1[0] = f0[0] + 0
      BY <1>4, <1>8
    <3>2. QED
      BY <2>2, <3>1
  <2>4. k - 1 \in Nat /\ k - 1 \notin T /\ k - 1 <= h /\ k \in 1 .. h
    BY <2>1, <2>2, <2>3
  <2>5. f1[k - 1] = f0[k - 1] + IF k - 1 >= w THEN c ELSE 0
    BY <1>7, <2>4
  <2>6. PICK p \in Nat : p = f0[k - 1]
    BY <1>4, <2>4
  <2>7. PICK x : x = b0[2 * k - 1] + ByteCnt * b0[2 * k]
    OBVIOUS
  <2>8. f0[k] = p + x
    BY <1>4, <2>4, <2>6, <2>7
  <2>9. f1[k] = f1[k - 1] + (b1[2 * k - 1] + ByteCnt * b1[2 * k])
    BY <1>4, <2>4
  <2>10. x \in Nat
    <3>2. PICK l1 \in 1 .. l : l1 = 2 * k - 1
      BY <1>3, <2>4, WordsInside
    <3>3. PICK l2 \in 1 .. l : l2 = 2 * k
      BY <1>3, <2>4, WordsInside
    <3>4. PICK y1 \in Nat : y1 = b0[l1]
      BY <1>21, ElementOfSeq
    <3>5. PICK y2 \in Nat : y2 = b0[l2]
      BY <1>21, ElementOfSeq
    <3>6. PICK y3 \in Nat : y3 = ByteCnt * y2
      BY Weights
    <3>7. x = y1 + y3
      BY <2>7, <3>2, <3>3, <3>4, <3>5, <3>6
    <3>8. QED
      BY <3>7
  <2>11. CASE k = w
    <3>1. x = 0 /\ b1[2 * k - 1] + ByteCnt * b1[2 * k] = c
      BY <1>23, <1>6, <2>7, <2>11
    <3>2. ~(k - 1 >= w) /\ k >= w
      BY <1>8, <2>11
    <3>3. f1[k - 1] = p + 0
      BY <2>5, <2>6, <3>2
    <3>4. f1[k] = p + c /\ f0[k] = p
      BY <2>8, <2>9, <3>1, <3>3
    <3>5. QED
      BY <2>2, <3>2, <3>4
  <2>12. CASE k # w
    <3>1. b1[2 * k - 1] + ByteCnt * b1[2 * k] = x
      BY <1>5, <2>4, <2>7, <2>12
    <3>2. (k - 1 >= w) <=> (k >= w)
      BY <1>8, <2>4, <2>12
    <3>3. PICK d \in Nat : d = IF k >= w THEN c ELSE 0
      OBVIOUS
    <3>4. f1[k - 1] = p + d
      BY <2>5, <2>6, <3>2, <3>3
    <3>5. f1[k] = (p + d) + x
      BY <2>9, <3>1, <3>4
    <3>6. (p + d) + x = (p + x) + d
      BY <2>10
    <3>7. QED
      BY <2>2, <2>8, <3>3, <3>5, <3>6
  <2>13. QED
    BY <2>11, <2>12
<1>10. f1[h] = f0[h] + c
  <2>1. h >= w /\ h <= h
    BY <1>8
  <2>2. QED
    BY <1>7, <1>9, <2>1
<1>11. OddByte(b1) = OddByte(b0) /\ OddByte(b0) \in Nat
  <2>1. CASE l % 2 = 1
    <3>1. l # 2 * w /\ l # 2 * w - 1
      BY <1>21, <2>1, WordsInside
    <3>2. l \in 1 .. l
      <4>1. l # 0
        BY <2>1
      <4>2. QED
        BY <4>1
    <3>3. b1[l] = b0[l] /\ b0[l] \in Nat
      BY <1>21, <1>22, <3>1, <3>2, ElementOfSeq
    <3>4. QED
      BY <1>21, <2>1, <3>3 DEF OddByte
  <2>2. CASE l % 2 # 1
    BY <1>21, <2>2 DEF OddByte
  <2>3. QED
    BY <2>1, <2>2
<1>12. QED
  <2>1. PICK s \in Nat : s = f0[h]
    BY <1>4
  <2>2. PICK d \in Nat : d = OddByte(b0)
    BY <1>11
  <2>3. WordSum(b0) = s + d /\ WordSum(b1) = (s + c) + d
    BY <1>21, <1>1, <1>2, <1>3, <1>10, <1>11, <2>1, <2>2
  <2>4. QED
    BY <2>3

\* What stands before the checksum.
Before(ip, udp) ==
  Put(ip.src, 4) \o Put(ip.dst, 4) \o <<0, 17 % ByteCnt>> \o Put(udp.len, 2)
  \o Put(udp.source, 2) \o Put(udp.dest, 2) \o Put(udp.len, 2)

\* One more number behind a sequence.
LEMMA PutBehind ==
  ASSUME NEW s \in Seq(Nat), NEW x \in Nat, NEW n \in Nat
  PROVE  s \o Put(x, n) \in Seq(Nat) /\ Len(s \o Put(x, n)) = Len(s) + n
<1>1. PICK t \in Seq(Nat) : t = Put(x, n) /\ Len(t) = n
  BY PutNumbers
<1>2. s \o t \in Seq(Nat) /\ Len(s \o t) = Len(s) + Len(t)
  BY ConcatProperties
<1>3. QED
  BY <1>1, <1>2

\* It has 18 bytes.
LEMMA BeforeIs ==
  ASSUME NEW ip \in [src : Nat, dst : Nat], NEW udp \in [source : Nat, dest : Nat, len : Nat]
  PROVE  Before(ip, udp) \in Seq(Nat) /\ Len(Before(ip, udp)) = 18
<1>1. PICK two \in Nat : two = 2
  OBVIOUS
<1>2. PICK four \in Nat : four = 4
  OBVIOUS
<1>3. /\ ip.src \in Nat /\ ip.dst \in Nat /\ udp.source \in Nat /\ udp.dest \in Nat /\ udp.len \in Nat
  OBVIOUS
<1>4. PICK s1 \in Seq(Nat) : s1 = Put(ip.src, four) /\ Len(s1) = 4
  BY <1>2, <1>3, PutNumbers
<1>5. PICK s2 \in Seq(Nat) : s2 = s1 \o Put(ip.dst, four) /\ Len(s2) = 8
  <2>1. s1 \o Put(ip.dst, four) \in Seq(Nat) /\ Len(s1 \o Put(ip.dst, four)) = Len(s1) + four
    BY <1>3, PutBehind
  <2>2. Len(s1) = 4
    BY <1>4
  <2>3. Len(s1) + four = 8
    BY <1>2, <2>2
  <2>4. QED
    BY <2>1, <2>3
<1>6. PICK z : z = <<0, 17 % ByteCnt>>
  OBVIOUS
<1>7. z \in Seq(Nat) /\ Len(z) = 2
  <2>1. 17 % ByteCnt \in Nat
    BY Weights
  <2>2. QED
    BY <1>6, <2>1
<1>8. PICK s3 \in Seq(Nat) : s3 = s2 \o z /\ Len(s3) = 10
  <2>1. s2 \o z \in Seq(Nat) /\ Len(s2 \o z) = Len(s2) + Len(z)
    BY <1>7, ConcatProperties
  <2>2. Len(s2) + Len(z) = 10
    BY <1>5, <1>7
  <2>3. QED
    BY <2>1, <2>2
<1>9. PICK s4 \in Seq(Nat) : s4 = s3 \o Put(udp.len, two) /\ Len(s4) = 12
  <2>1. s3 \o Put(udp.len, two) \in Seq(Nat) /\ Len(s3 \o Put(udp.len, two)) = Len(s3) + two
    BY <1>3, PutBehind
  <2>2. Len(s3) + two = 12
    BY <1>1, <1>8
  <2>3. QED
    BY <2>1, <2>2
<1>10. PICK s5 \in Seq(Nat) : s5 = s4 \o Put(udp.source, two) /\ Len(s5) = 14
  <2>1. s4 \o Put(udp.source, two) \in Seq(Nat) /\ Len(s4 \o Put(udp.source, two)) = Len(s4) + two
    BY <1>3, PutBehind
  <2>2. Len(s4) + two = 14
    BY <1>1, <1>9
  <2>3. QED
    BY <2>1, <2>2
<1>11. PICK s6 \in Seq(Nat) : s6 = s5 \o Put(udp.dest, two) /\ Len(s6) = 16
  <2>1. s5 \o Put(udp.dest, two) \in Seq(Nat) /\ Len(s5 \o Put(udp.dest, two)) = Len(s5) + two
    BY <1>3, PutBehind
  <2>2. Len(s5) + two = 16
    BY <1>1, <1>10
  <2>3. QED
    BY <2>1, <2>2
<1>12. PICK s7 \in Seq(Nat) : s7 = s6 \o Put(udp.len, two) /\ Len(s7) = 18
  <2>1. s6 \o Put(udp.len, two) \in Seq(Nat) /\ Len(s6 \o Put(udp.len, two)) = Len(s6) + two
    BY <1>3, PutBehind
  <2>2. Len(s6) + two = 18
    BY <1>1, <1>11
  <2>3. QED
    BY <2>1, <2>2
<1>13. Before(ip, udp) = s7
  BY <1>1, <1>2, <1>4, <1>5, <1>6, <1>8, <1>9, <1>10, <1>11, <1>12, Zenon DEF Before
<1>14. QED
  BY <1>12, <1>13

\* What two bytes of a checksum change.
LEMMA CheckChanges ==
  ASSUME NEW p \in Seq(Nat), Len(p) = 18, NEW t \in Seq(Nat), NEW x \in Nat, NEW y \in Nat
  PROVE  /\ WordSum((p \o <<0, 0>>) \o t) \in Nat
         /\ WordSum((p \o <<x, y>>) \o t) = WordSum((p \o <<0, 0>>) \o t) + (x + ByteCnt * y)
<1>1. PICK z : z = <<0, 0>>
  OBVIOUS
<1>2. PICK c : c = <<x, y>>
  OBVIOUS
<1>3. z \in Seq(Nat) /\ Len(z) = 2 /\ z[1] = 0 /\ z[2] = 0 /\ c \in Seq(Nat) /\ Len(c) = 2 /\ c[1] = x /\ c[2] = y
  BY <1>1, <1>2
<1>4. PICK n \in Nat : n = Len(t)
  BY LenProperties
<1>5. ASSUME NEW e \in Seq(Nat), Len(e) = 2
      PROVE  /\ (p \o e) \o t \in Seq(Nat) /\ Len((p \o e) \o t) = 20 + n
             /\ \A i \in 1 .. 20 + n : ((p \o e) \o t)[i] = IF i <= 18 THEN p[i] ELSE IF i <= 20 THEN e[i - 18] ELSE t[i - 20]
  <2>1. /\ p \o e \in Seq(Nat) /\ Len(p \o e) = Len(p) + Len(e)
        /\ \A i \in 1 .. Len(p) + Len(e) : (p \o e)[i] = IF i <= Len(p) THEN p[i] ELSE e[i - Len(p)]
    BY ConcatProperties
  <2>2. PICK pe \in Seq(Nat) : pe = p \o e /\ Len(pe) = 20
    <3>1. Len(p) + Len(e) = 20
      BY <1>5
    <3>2. QED
      BY <2>1, <3>1
  <2>3. \A i \in 1 .. 20 : pe[i] = IF i <= 18 THEN p[i] ELSE e[i - 18]
    <3>1. Len(p) + Len(e) = 20
      BY <1>5
    <3>2. QED
      BY <2>1, <2>2, <3>1
  <2>4. /\ pe \o t \in Seq(Nat) /\ Len(pe \o t) = Len(pe) + Len(t)
        /\ \A i \in 1 .. Len(pe) + Len(t) : (pe \o t)[i] = IF i <= Len(pe) THEN pe[i] ELSE t[i - Len(pe)]
    BY ConcatProperties
  <2>5. Len(pe) + Len(t) = 20 + n
    BY <1>4, <2>2
  <2>6. PICK r : r = pe \o t
    OBVIOUS
  <2>7. r \in Seq(Nat) /\ Len(r) = 20 + n /\ \A i \in 1 .. 20 + n : r[i] = IF i <= 20 THEN pe[i] ELSE t[i - 20]
    BY <2>2, <2>4, <2>5, <2>6
  <2>8. \A i \in 1 .. 20 + n : r[i] = IF i <= 18 THEN p[i] ELSE IF i <= 20 THEN e[i - 18] ELSE t[i - 20]
    <3>1. ASSUME NEW i \in 1 .. 20 + n
          PROVE  r[i] = IF i <= 18 THEN p[i] ELSE IF i <= 20 THEN e[i - 18] ELSE t[i - 20]
      <4>1. CASE i <= 20
        <5>1. i \in 1 .. 20
          BY <4>1
        <5>2. QED
          BY <2>3, <2>7, <4>1, <5>1
      <4>2. CASE ~(i <= 20)
        BY <2>7, <4>2
      <4>3. QED
        BY <4>1, <4>2
    <3>2. QED
      BY <3>1
  <2>9. QED
    BY <2>2, <2>6, <2>7, <2>8
<1>6. PICK b0 \in Seq(Nat) : b0 = (p \o z) \o t
  BY <1>3, <1>5
<1>7. PICK b1 \in Seq(Nat) : b1 = (p \o c) \o t
  BY <1>3, <1>5
<1>8. PICK l \in Nat : l = 20 + n
  OBVIOUS
<1>9. /\ Len(b0) = l
      /\ \A i \in 1 .. l : b0[i] = IF i <= 18 THEN p[i] ELSE IF i <= 20 THEN z[i - 18] ELSE t[i - 20]
  BY <1>3, <1>5, <1>6, <1>8
<1>10. /\ Len(b1) = l
       /\ \A i \in 1 .. l : b1[i] = IF i <= 18 THEN p[i] ELSE IF i <= 20 THEN c[i - 18] ELSE t[i - 20]
  BY <1>3, <1>5, <1>7, <1>8
<1>11. PICK w \in Nat : w = 10
  OBVIOUS
<1>12. w \in 1 .. l \div 2 /\ 2 * w - 1 = 19 /\ 2 * w = 20
  <2>1. PICK h \in Nat, r \in Nat : h = l \div 2 /\ r < 2 /\ l = h * 2 + r
    BY Division
  <2>2. h >= 10
    BY <1>8, <2>1
  <2>3. QED
    BY <1>11, <2>1, <2>2
<1>13. 19 \in 1 .. l /\ 20 \in 1 .. l
  BY <1>8
<1>14. b0[19] = 0 /\ b0[20] = 0
  <2>1. b0[19] = z[19 - 18] /\ b0[20] = z[20 - 18]
    BY <1>9, <1>13
  <2>2. 19 - 18 = 1 /\ 20 - 18 = 2
    OBVIOUS
  <2>3. QED
    BY <1>3, <2>1, <2>2
<1>15. b1[19] = x /\ b1[20] = y
  <2>1. b1[19] = c[19 - 18] /\ b1[20] = c[20 - 18]
    BY <1>10, <1>13
  <2>2. 19 - 18 = 1 /\ 20 - 18 = 2
    OBVIOUS
  <2>3. QED
    BY <1>3, <2>1, <2>2
<1>16. \A i \in 1 .. l : i # 2 * w - 1 /\ i # 2 * w => b1[i] = b0[i]
  <2>1. ASSUME NEW i \in 1 .. l, i # 19, i # 20 PROVE b1[i] = b0[i]
    <3>1. i <= 18 \/ ~(i <= 20)
      BY <2>1
    <3>2. QED
      BY <1>9, <1>10, <3>1
  <2>2. QED
    BY <1>12, <2>1
<1>17. PICK d \in Nat : d = x + ByteCnt * y
  <2>1. PICK b \in Nat : b = ByteCnt
    BY Weights
  <2>2. PICK e \in Nat : e = b * y
    OBVIOUS
  <2>3. x + e \in Nat
    OBVIOUS
  <2>4. QED
    BY <2>1, <2>2, <2>3
<1>18. b0[2 * w - 1] = 0 /\ b0[2 * w] = 0 /\ b1[2 * w - 1] + ByteCnt * b1[2 * w] = d
  BY <1>12, <1>14, <1>15, <1>17
<1>19. WordSum(b0) \in Nat /\ WordSum(b1) = WordSum(b0) + d
  <2>1. WordApart(b0, b1, l, w, d)
    BY <1>9, <1>10, <1>12, <1>16, <1>18 DEF WordApart
  <2>2. QED
    BY <2>1, OneWordMore
<1>20. QED
  BY <1>1, <1>2, <1>6, <1>7, <1>17, <1>19

\* A receiver that adds up all words of any datagram, its checksum among them, gets all
\* ones (udp4_checksum).
THEOREM ChecksumsVerify ==
  ASSUME NEW ip \in [src : Nat, dst : Nat], NEW udp \in [source : Nat, dest : Nat, len : Nat],
         NEW payload \in Seq(Nat)
  PROVE  ChecksumVerifies(ip, udp, payload)
<1>1. PICK p \in Seq(Nat) : p = Before(ip, udp) /\ Len(p) = 18
  BY BeforeIs
<1>2. PICK t \in Seq(Nat) : t = Padded(payload)
  <2>1. <<0>> \in Seq(Nat)
    OBVIOUS
  <2>2. payload \o <<0>> \in Seq(Nat)
    BY <2>1, ConcatProperties
  <2>3. QED
    BY <2>2 DEF Padded
<1>3. \A e : PseudoHeader(ip, udp, e) = p \o e
  BY <1>1, Zenon DEF PseudoHeader, Before
<1>4. PICK s : s = WordSum((p \o <<0, 0>>) \o t)
  OBVIOUS
<1>5. s \in Nat
  <2>1. 0 \in Nat
    OBVIOUS
  <2>2. QED
    BY <1>1, <1>4, <2>1, CheckChanges
<1>6. /\ Fold[s] \in Nat /\ Fold[s] <= WordCnt - 1
      /\ Fold[s + (WordCnt - 1 - Fold[s])] = WordCnt - 1
  BY <1>5, ComplementFills
<1>7. PICK c \in Nat : c = WordCnt - 1 - Fold[s]
  BY <1>6, WordCntIs
<1>8. Udp4Checksum(ip, udp, payload) = c
  BY <1>2, <1>3, <1>4, <1>7 DEF Udp4Checksum, Checksum, Folded
<1>9. PICK x \in Nat : x = c % ByteCnt
  <2>1. PICK b \in Nat : b = ByteCnt /\ b > 0
    BY Weights
  <2>2. c % b \in Nat
    BY <2>1, Division
  <2>3. QED
    BY <2>1, <2>2
<1>10. PICK y \in Nat : y = c \div ByteCnt
  <2>1. PICK b \in Nat : b = ByteCnt /\ b > 0
    BY Weights
  <2>2. c \div b \in Nat
    BY <2>1, Division
  <2>3. QED
    BY <2>1, <2>2
<1>11. x + ByteCnt * y = c
  <2>1. PICK b \in Nat : b = ByteCnt /\ b > 0
    BY Weights
  <2>2. c = (c \div b) * b + (c % b)
    BY <2>1, Division
  <2>3. c = y * b + x
    BY <1>9, <1>10, <2>1, <2>2
  <2>4. y * b = b * y /\ y * b \in Nat
    OBVIOUS
  <2>5. QED
    BY <2>1, <2>3, <2>4
<1>12. WordSum((p \o <<x, y>>) \o t) = s + (x + ByteCnt * y)
  BY <1>1, <1>4, CheckChanges
<1>13. Fold[WordSum((p \o <<x, y>>) \o t)] = WordCnt - 1
  BY <1>6, <1>7, <1>11, <1>12
<1>14. QED
  BY <1>2, <1>3, <1>8, <1>9, <1>10, <1>13 DEF ChecksumVerifies
=============================================================================
