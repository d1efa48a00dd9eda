----------------------------- MODULE MCRlcUmLink -----------------------------
(* One direction of an RLC UM bearer, on small instances.                      *)
EXTENDS RlcUmLink, TLC

ThreeSdus == 1 :> 2 @@ 2 :> 2 @@ 3 :> 2
=============================================================================
