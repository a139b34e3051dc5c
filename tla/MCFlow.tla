------------------------------- MODULE MCFlow -------------------------------
(***************************************************************************)
(* Instances of Flow for TLC: client opens the flow, server accepts it.    *)
(***************************************************************************)
EXTENDS Flow, TLC

CONSTANTS client, server

MCNode == {client, server}
Upload == (client :> 9) @@ (server :> 0)
Exchange == (client :> 3) @@ (server :> 2)
=============================================================================
