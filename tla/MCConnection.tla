---------------------------- MODULE MCConnection ----------------------------
(* Instances of Connection. *)
EXTENDS Connection

CONSTANTS a, b        \* the clients

=============================================================================
