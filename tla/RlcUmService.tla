---------------------------- MODULE RlcUmService ----------------------------
(***************************************************************************)
(* What an RLC UM bearer promises PDCP in one direction: SDUs may be lost, *)
(* but those that come out are complete, come once, and in order.          *)
(***************************************************************************)
EXTENDS Integers, Sequences

CONSTANT Sdu            \* SDUs, numbers in the order in which they are written

VARIABLES
  submitted,            \* SDUs accepted, in order
  delivered             \* SDUs handed to the peer's PDCP, in order

umServiceVars == <<submitted, delivered>>

UmServiceInit == submitted = << >> /\ delivered = << >>

UmSubmit(s) == /\ \A i \in DOMAIN submitted : submitted[i] < s
               /\ submitted' = Append(submitted, s)
               /\ UNCHANGED delivered

\* One or more further SDUs come out.
UmDeliver ==
  /\ Len(delivered') > Len(delivered)
  /\ SubSeq(delivered', 1, Len(delivered)) = delivered
  /\ \A i \in DOMAIN delivered' :
       /\ \E j \in DOMAIN submitted : submitted[j] = delivered'[i]
       /\ \A j \in 1 .. i - 1 : delivered'[j] < delivered'[i]
  /\ UNCHANGED submitted

UmServiceNext == UmDeliver \/ \E s \in Sdu : UmSubmit(s)

UmServiceSpec == UmServiceInit /\ [][UmServiceNext]_umServiceVars
=============================================================================
