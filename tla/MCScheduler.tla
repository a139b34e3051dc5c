---------------------------- MODULE MCScheduler ----------------------------
(***************************************************************************)
(* Instances of Scheduler for TLC.                                         *)
(***************************************************************************)
EXTENDS Scheduler

CONSTANTS d1, d2, f1, c1, c2

MCControl == {c1, c2} \cap Packet
MCFinish == {f1} \cap Packet
=============================================================================
