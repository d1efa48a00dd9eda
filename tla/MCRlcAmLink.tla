----------------------------- MODULE MCRlcAmLink -----------------------------
(* One direction of a bearer, on small instances.                              *)
EXTENDS RlcAmLink, TLC

TwoShort   == 1 :> 1 @@ 2 :> 1
ThreeShort == 1 :> 1 @@ 2 :> 1 @@ 3 :> 1
OneSdu     == 1 :> 3
=============================================================================
