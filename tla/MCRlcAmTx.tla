------------------------------ MODULE MCRlcAmTx ------------------------------
(* The transmitter alone, on small instances.                                  *)
EXTENDS RlcAmTx, TLC

\* An SDU that may be sent in two PDUs, and one that follows it.
TwoSdus == 1 :> 2 @@ 2 :> 1
=============================================================================
