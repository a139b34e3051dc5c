-------------------------- MODULE ReliableTransfer --------------------------
(***************************************************************************)
(* What a pair of channel handlers promises to the layers above it, for    *)
(* each direction separately: a packet taken by the sender is passed up at *)
(* the other end at most once, nothing else is passed up, and the sender   *)
(* forgets a packet only when the other end has taken it, or when the      *)
(* channel died and the packet went back to the scheduler.                 *)
(* Channel.tla implements this specification.                              *)
(***************************************************************************)
EXTENDS Integers

CONSTANTS
    Node,         \* the two ends; a direction is named by its sender
    PacketId      \* packets of a direction are numbered in sending order

VARIABLES
    sent,         \* sent[p]: how many packets p's sender took
    passedUp,     \* passedUp[p][i]: how often p's packet i was passed up
    retired,      \* retired[p]: packets p forgot because they arrived
    returned      \* returned[p]: packets p's dead channel gave back

vars == <<sent, passedUp, retired, returned>>

Init ==
    /\ sent = [p \in Node |-> 0]
    /\ passedUp = [p \in Node |-> [i \in PacketId |-> 0]]
    /\ retired = [p \in Node |-> {}]
    /\ returned = [p \in Node |-> {}]

(***************************************************************************)
(* The steps of one direction. A handler of the code may step in both      *)
(* directions at once (accepting the peer's close starts our own), so Next *)
(* lets every direction take its own step.                                 *)
(***************************************************************************)
Submit(p) ==
    /\ sent'[p] = sent[p] + 1
    /\ passedUp'[p] = passedUp[p]
    /\ retired'[p] = retired[p]
    /\ returned'[p] = returned[p]

PassUp(p) ==
    /\ \E i \in PacketId :
        /\ i < sent[p]
        /\ passedUp[p][i] = 0
        /\ passedUp'[p] = [passedUp[p] EXCEPT ![i] = 1]
    /\ sent'[p] = sent[p]
    /\ retired'[p] = retired[p]
    /\ returned'[p] = returned[p]

Retire(p) ==
    /\ retired[p] \subseteq retired'[p]
    /\ \A i \in retired'[p] : passedUp[p][i] = 1
    /\ retired'[p] \cap returned[p] = {}
    /\ sent'[p] = sent[p]
    /\ passedUp'[p] = passedUp[p]
    /\ returned'[p] = returned[p]

Return(p) ==
    /\ returned'[p] = {i \in PacketId : i < sent[p]} \ retired[p]
    /\ sent'[p] = sent[p]
    /\ passedUp'[p] = passedUp[p]
    /\ retired'[p] = retired[p]

Idle(p) ==
    /\ sent'[p] = sent[p]
    /\ passedUp'[p] = passedUp[p]
    /\ retired'[p] = retired[p]
    /\ returned'[p] = returned[p]

Next == \A p \in Node : Submit(p) \/ PassUp(p) \/ Retire(p) \/ Return(p) \/ Idle(p)

Spec == Init /\ [][Next]_vars
=============================================================================
