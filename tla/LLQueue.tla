------------------------------- MODULE LLQueue ------------------------------
(***************************************************************************)
(* util::AppLLQueue, the queue between most threads of the program: its    *)
(* elements are linked through themselves, so a packet can be in one queue *)
(* at a time and carries its old link with it.  A queue with a limit makes *)
(* producers wait for room.                                                *)
(***************************************************************************)
EXTENDS Naturals, Sequences, FiniteSets, SequencesExt

CONSTANTS Producer, Consumer,
          Element,      \* the LL_Nodes there are
          MaxQueue,     \* the limit of a queue that has one
          MaxAdds,      \* bound on elements added
          Nil           \* NULL

LLQueueAssumption ==
  /\ MaxQueue \in Nat \ {0} /\ MaxAdds \in Nat /\ Nil \notin Element /\ IsFiniteSet(Element)
ASSUME LLQueueAssumption

VARIABLES maxQueueSize, \* MaxQueue, or 0 for a queue without a limit
          q,            \* next of every element; beg, end and size of the queue
          limitQueueSize,
          producer, consumer,
          adds,         \* elements added so far
          order         \* history: the elements that are in the queue

qVars == <<maxQueueSize, q, limitQueueSize, producer, consumer, adds, order>>

Resting == [pc |-> "idle", head |-> Nil, owed |-> 0, due |-> <<>>]

QueueInit ==
  /\ maxQueueSize \in {0, MaxQueue} /\ limitQueueSize = maxQueueSize
  /\ q = [next |-> [n \in Element |-> Nil], beg |-> Nil, end |-> Nil, size |-> 0]
  /\ producer = [p \in Producer |-> Nil] /\ consumer = [c \in Consumer |-> Resting]
  /\ adds = 0 /\ order = <<>>

\* The elements linked from n on.
Chain(next, n) ==
  LET at[k \in 1 .. Cardinality(Element) + 1] ==
        IF k = 1 THEN n ELSE IF at[k - 1] = Nil THEN Nil ELSE next[at[k - 1]]
      length == CHOOSE k \in 0 .. Cardinality(Element) :
                  at[k + 1] = Nil /\ \A i \in 1 .. k : at[i] # Nil
  IN [k \in 1 .. length |-> at[k]]

\* Elements nobody holds: any thread may come with one.
Loose == Element \ (ToSet(order) \cup {producer[p] : p \in Producer}
                    \cup UNION {ToSet(consumer[c].due) : c \in Consumer})

-----------------------------------------------------------------------------
\* add.  Mutant of Linked: the end of the queue stays where it is.
LinkedBehind(s, n) ==
  LET new == [s EXCEPT !.next[n] = Nil, !.size = @ + 1] IN
  IF s.beg # Nil THEN [new EXCEPT !.next[s.end] = n] ELSE [new EXCEPT !.beg = n, !.end = n]

Linked(s, n) ==
  LET new == [s EXCEPT !.next[n] = Nil, !.size = @ + 1] IN
  IF s.beg # Nil THEN [new EXCEPT !.next[s.end] = n, !.end = n]
                 ELSE [new EXCEPT !.beg = n, !.end = n]

WaitForRoom(p, n) ==
  /\ producer[p] = Nil /\ n \in Loose /\ adds < MaxAdds
  /\ maxQueueSize > 0 => limitQueueSize > 0
  /\ limitQueueSize' = IF maxQueueSize > 0 THEN limitQueueSize - 1 ELSE limitQueueSize
  /\ producer' = [producer EXCEPT ![p] = n] /\ adds' = adds + 1
  /\ UNCHANGED <<maxQueueSize, q, consumer, order>>

AddToQueue(p) ==
  /\ producer[p] # Nil /\ producer' = [producer EXCEPT ![p] = Nil]
  /\ q' = Linked(q, producer[p]) /\ order' = Append(order, producer[p])
  /\ UNCHANGED <<maxQueueSize, limitQueueSize, consumer, adds>>

\* addLLToQueue of a chain n, m that another queue without a limit handed out: the
\* link to m is read before n loses it.
AddLLToQueue(p, n, m) ==
  /\ producer[p] = Nil /\ maxQueueSize = 0 /\ {n, m} \subseteq Loose /\ n # m
  /\ adds + 2 <= MaxAdds /\ adds' = adds + 2
  /\ q' = Linked(Linked(q, n), m) /\ order' = order \o <<n, m>>
  /\ UNCHANGED <<maxQueueSize, limitQueueSize, producer, consumer>>

-----------------------------------------------------------------------------
\* What a consumer owes the producers for k elements it took.
Owed(k) == IF maxQueueSize > 0 THEN k ELSE 0

GetFromQueue(c) ==
  /\ consumer[c].pc = "idle" /\ q.beg # Nil
  /\ LET rest == q.next[q.beg]
     IN q' = [q EXCEPT !.beg = rest, !.end = IF rest = Nil THEN Nil ELSE @, !.size = @ - 1]
  /\ consumer' = [consumer EXCEPT ![c] =
       [pc |-> "notify", head |-> q.beg, owed |-> Owed(1), due |-> <<q.beg>>]]
  /\ order' = Tail(order)
  /\ UNCHANGED <<maxQueueSize, limitQueueSize, producer, adds>>

\* getAllFromQueue looks before it locks; another may have emptied the queue then.
LookFirst(c) ==
  /\ consumer[c].pc = "idle" /\ q.beg # Nil
  /\ consumer' = [consumer EXCEPT ![c].pc = "looked"]
  /\ UNCHANGED <<maxQueueSize, q, limitQueueSize, producer, adds, order>>

GetAllFromQueue(c) ==
  /\ consumer[c].pc = "looked"
  /\ q' = [q EXCEPT !.beg = Nil, !.end = Nil, !.size = 0]
  /\ consumer' = [consumer EXCEPT ![c] =
       [pc |-> "notifyAll", head |-> q.beg, owed |-> Owed(q.size), due |-> order]]
  /\ order' = <<>>
  /\ UNCHANGED <<maxQueueSize, limitQueueSize, producer, adds>>

NotifyRoom(c) ==
  /\ consumer[c].owed > 0 /\ limitQueueSize' = limitQueueSize + 1
  /\ consumer' = [consumer EXCEPT ![c].owed = @ - 1]
  /\ UNCHANGED <<maxQueueSize, q, producer, adds, order>>

\* The single element is unlinked last, outside the lock.
ReturnElements(c) ==
  /\ consumer[c].pc \in {"notify", "notifyAll"} /\ consumer[c].owed = 0
  /\ q' = IF consumer[c].pc = "notify" THEN [q EXCEPT !.next[consumer[c].head] = Nil] ELSE q
  /\ consumer' = [consumer EXCEPT ![c].pc = "walk"]
  /\ UNCHANGED <<maxQueueSize, limitQueueSize, producer, adds, order>>

\* The caller reads the link before it gives the element away.
Consume(c) ==
  /\ consumer[c].pc = "walk"
  /\ consumer' = [consumer EXCEPT ![c] =
       IF consumer[c].head = Nil THEN Resting
       ELSE [consumer[c] EXCEPT !.head = q.next[consumer[c].head], !.due = Tail(consumer[c].due)]]
  /\ UNCHANGED <<maxQueueSize, q, limitQueueSize, producer, adds, order>>

QueueRun ==
  \/ \E p \in Producer : AddToQueue(p)
  \/ \E c \in Consumer : GetFromQueue(c) \/ LookFirst(c) \/ GetAllFromQueue(c)
                         \/ NotifyRoom(c) \/ ReturnElements(c) \/ Consume(c)
QueueNext ==
  QueueRun \/ \E p \in Producer, n \in Element :
                WaitForRoom(p, n) \/ \E m \in Element : AddLLToQueue(p, n, m)

\* Threads run; producers need not produce.
QueueSpec == QueueInit /\ [][QueueNext]_qVars
QueueFairSpec == QueueSpec /\ WF_qVars(QueueRun)

-----------------------------------------------------------------------------
\* Places of a queue with a limit that consumers have yet to give back.
Owing == UNION {{c} \X (1 .. consumer[c].owed) : c \in Consumer}

\* The links are the queue: from beg they lead through its elements in the order
\* they came, to end; what a consumer took it finds along the links, though others
\* add to the queue and reuse elements meanwhile; and every place of a queue with a
\* limit is free, taken, or about to be given back.
QueueInOrder ==
  /\ Chain(q.next, q.beg) = order
  /\ q.size = Len(order) /\ (order # <<>> => q.end = Last(order))
  /\ \A c \in Consumer : consumer[c].pc = "walk" => Chain(q.next, consumer[c].head) = consumer[c].due
  /\ maxQueueSize > 0 =>
       limitQueueSize + q.size + Cardinality({p \in Producer : producer[p] # Nil})
         + Cardinality(Owing) = MaxQueue

\* Everything added gets out, and all room is given back.
QueueEmptied == /\ order = <<>> /\ \A p \in Producer : producer[p] = Nil
                /\ \A c \in Consumer : consumer[c] = Resting
QueueEmpties == <>[]QueueEmptied
=============================================================================
