----------------------------- MODULE RlcAmService -----------------------------
(***************************************************************************)
(* What an RLC AM bearer promises PDCP in one direction: the SDUs that     *)
(* were accepted and not discarded come out complete, once, and in the     *)
(* order in which they were accepted.                                      *)
(***************************************************************************)
EXTENDS Integers, Sequences

CONSTANT Sdu

VARIABLES
  submitted,    \* SDUs accepted and not discarded, in order
  delivered     \* SDUs handed to the peer's PDCP, in order

serviceVars == <<submitted, delivered>>

ServiceInit == submitted = << >> /\ delivered = << >>

Submit(s) == /\ \A i \in DOMAIN submitted : submitted[i] # s
             /\ submitted' = Append(submitted, s)
             /\ UNCHANGED delivered

\* Only an SDU that has not been delivered can be withdrawn.
Withdraw(s) == /\ \E i \in DOMAIN submitted : submitted[i] = s
               /\ \A i \in DOMAIN delivered : delivered[i] # s
               /\ submitted' = SelectSeq(submitted, LAMBDA x : x # s)
               /\ UNCHANGED delivered

\* Any number of SDUs in one step, but only the next ones.
Deliver == /\ \E n \in Len(delivered) + 1 .. Len(submitted) :
                 delivered' = SubSeq(submitted, 1, n)
           /\ UNCHANGED submitted

ServiceNext == Deliver \/ \E s \in Sdu : Submit(s) \/ Withdraw(s)

ServiceSpec == ServiceInit /\ [][ServiceNext]_serviceVars
=============================================================================
