----------------------------- MODULE MCChannel -----------------------------
(***************************************************************************)
(* Instances of Channel for TLC: left's application sends, right's does    *)
(* not: it only sends its channel start packet and, when left closes, its  *)
(* FLAG_CHF.                                                               *)
(***************************************************************************)
EXTENDS Channel

CONSTANTS left, right

MCNode == {left, right}

Silent == (left :> 0) @@ (right :> 0)
OneWay2 == (left :> 2) @@ (right :> 0)
OneWay3 == (left :> 3) @@ (right :> 0)
OneWay17 == (left :> 17) @@ (right :> 0)

(* State constraints that make long runs of one flight feasible. The         *)
(* threads of right keep up with the path, and every acknowledgement is      *)
(* processed before right sends the next one ...                             *)
PromptAcks ==
    /\ \A p \in Node : /\ Len(dataRecvQueue[p]) <= 1
                       /\ conn[p].pc # "idle" => ackRecvQueue[p] # <<>>
    /\ Len(link[right]) + Len(ackRecvQueue[left]) + Len(batch[left].acks)
          + Len(dataRecvQueue[right]) <= 1

(* ... and the faults come when a flight of eight packets is on its way.     *)
FaultsInBurst == PromptAcks /\ (snd[left].total <= 14 => faults = MaxFaults)
=============================================================================
