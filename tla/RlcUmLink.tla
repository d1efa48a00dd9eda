------------------------------ MODULE RlcUmLink ------------------------------
(***************************************************************************)
(* One direction of an RLC UM bearer: the transmitting half of one entity  *)
(* and the receiving half of its peer.  The MACs in between lose PDUs, and *)
(* their HARQ processes may overtake each other; nothing is repeated.      *)
(***************************************************************************)
EXTENDS RlcUmRx

CONSTANTS
  MaxInFlight,      \* bound: PDUs the MACs hold at a time
  MaxOvertaken,     \* a PDU is overtaken by at most this many others
  MaxLoss,          \* bound on the number of PDUs lost
  MaxReestablish    \* bound on the number of re-establishments

ASSUME UmLinkAssumption ==
  /\ MaxInFlight \in Nat /\ MaxLoss \in Nat
  /\ MaxOvertaken \in Nat /\ MaxReestablish \in Nat

VARIABLES
  data,             \* PDUs under way
  losses,           \* PDUs lost so far
  reestablished,    \* re-establishments so far
  intact            \* nothing was lost, came too late or was given up so far

umChannelVars == <<data, losses, reestablished, intact>>
umLinkVars == <<umTxVars, umRxVars, umChannelVars>>

UmLinkInit ==
  /\ \E s \in Starts : UmTxQuiet(s) /\ UmRxQuiet(s)
  /\ data = << >> /\ losses = 0 /\ reestablished = 0 /\ intact = TRUE

-----------------------------------------------------------------------------
Drop(q, i) == SubSeq(q, 1, i - 1) \o SubSeq(q, i + 1, Len(q))

UmTxStep(A) == A /\ UNCHANGED <<umRxVars, umChannelVars>>

UmLinkBuild(n) ==
  /\ Len(data) < MaxInFlight
  /\ BuildPdu(n)
  /\ data' = Append(data, [pdu |-> UmPdu(n), overtaken |-> 0])
  /\ UNCHANGED <<umRxVars, losses, reestablished, intact>>

\* The i-th PDU under way arrives before the i - 1 older ones.
UmLinkWrite(i) ==
  /\ i \in DOMAIN data
  /\ \A j \in 1 .. i - 1 : data[j].overtaken < MaxOvertaken
  /\ data' = Drop([j \in DOMAIN data |->
                     IF j < i THEN [data[j] EXCEPT !.overtaken = @ + 1] ELSE data[j]], i)
  /\ \/ WritePdu(data[i].pdu) /\ UNCHANGED intact
     \/ DiscardPdu(data[i].pdu) /\ intact' = FALSE
  /\ UNCHANGED <<umTxVars, losses, reestablished>>

UmLinkLose ==
  /\ losses < MaxLoss
  /\ losses' = losses + 1
  /\ \E i \in DOMAIN data : data' = Drop(data, i)
  /\ intact' = FALSE
  /\ UNCHANGED <<umTxVars, umRxVars, reestablished>>

UmLinkExpired ==
  /\ ReorderingExpired
  /\ intact' = FALSE
  /\ UNCHANGED <<umTxVars, data, losses, reestablished>>

\* RRC re-establishes the bearer at both ends.  The MACs are reset first, so
\* nothing is under way afterwards that was built before.
UmLinkReestablish ==
  /\ reestablished < MaxReestablish
  /\ reestablished' = reestablished + 1
  /\ TxReestablishStart /\ RxReestablish
  /\ data' = << >>
  /\ intact' = FALSE
  /\ UNCHANGED losses

UmLinkNext ==
  \/ UmTxStep(WriteSdu) \/ UmTxStep(ReadPduStart) \/ UmTxStep(BuildNothing)
  \/ \E n \in 1 .. MaxGrant : UmLinkBuild(n)
  \/ \E i \in 1 .. MaxInFlight : UmLinkWrite(i)
  \/ UmLinkLose \/ UmLinkExpired
  \/ UmLinkReestablish \/ UmTxStep(TxReestablishEnd)

UmLinkSpec == UmLinkInit /\ [][UmLinkNext]_umLinkVars

\* The MAC goes on granting PDUs and carrying them, and the timer expires.
UmLinkFairness ==
  /\ WF_umLinkVars(UmTxStep(ReadPduStart)) /\ WF_umLinkVars(UmLinkBuild(MaxGrant))
  /\ WF_umLinkVars(UmLinkWrite(1)) /\ WF_umLinkVars(UmLinkExpired)
  /\ WF_umLinkVars(UmTxStep(TxReestablishEnd))

UmLinkLiveSpec == UmLinkSpec /\ UmLinkFairness

-----------------------------------------------------------------------------
SduCells(s) == [k \in 1 .. SduLen[s] |-> [s |-> s, k |-> k]]

\* The SDU a sequence of cells is, 0 if it is none.
SduOf(cells) == IF \E s \in 1 .. NSdu : cells = SduCells(s) THEN Head(cells).s ELSE 0

UmDelivered == [i \in DOMAIN pdcp_rx |-> SduOf(pdcp_rx[i])]

UmService == INSTANCE RlcUmService
  WITH Sdu <- 1 .. NSdu, submitted <- accepted, delivered <- UmDelivered

\* The peer's PDCP gets complete SDUs only, each once and in order, whatever was
\* lost, late or overtaken: parts of different SDUs are never put together.
UmServiceImplemented == UmService!UmServiceSpec

\* Types and ranges of the state variables.
UmTypeOK ==
  /\ {vt_us, vr_ur, vr_ux, vr_uh, vr_ur_in_rx_sdu} \subseteq SN
  /\ mac \in {"idle", "reading"}
  /\ {tx_enabled, pdu_lost, reordering_timer, intact} \subseteq BOOLEAN
  /\ DOMAIN rx_window \subseteq SN
  /\ Len(tx_sdu_queue) <= QueueLen

\* The reordering timer runs whenever a PDU waits for an older one, and every PDU
\* that waits lies between the lower edge and the highest SN received.
WaitingIsTimed ==
  \A sn \in DOMAIN rx_window :
    /\ reordering_timer
    /\ RxBase(vr_ur, vr_uh) < RxBase(sn, vr_uh)
    /\ RxBase(sn, vr_uh) < RxBase(vr_uh, vr_uh)

\* As long as no PDU was lost, came too late or was given up, no SDU is missing
\* among those delivered, whatever overtook what and however SDUs were cut.
IntactInOrder == intact => UmDelivered = SubSeq(accepted, 1, Len(UmDelivered))

\* No PDU waits in the window for ever.
WindowDrains == (DOMAIN rx_window # {}) ~> (DOMAIN rx_window = {})
=============================================================================
