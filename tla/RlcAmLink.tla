------------------------------ MODULE RlcAmLink ------------------------------
(***************************************************************************)
(* One direction of an RLC AM bearer: the transmitting half of one entity  *)
(* and the receiving half of its peer.  The MACs in between carry PDUs one *)
(* way and status PDUs the other; they lose some, and the HARQ processes   *)
(* of the data channel may overtake each other.                            *)
(***************************************************************************)
EXTENDS RlcAmTx, RlcAmRx

CONSTANTS
  MaxInFlight,      \* bound: PDUs of each kind the MACs hold at a time
  MaxOvertaken,     \* a PDU is overtaken by at most this many others
  MaxLoss           \* bound on the number of PDUs lost

ASSUME LinkAssumption == /\ MaxInFlight \in Nat /\ MaxLoss \in Nat
                         /\ MaxOvertaken \in Nat

VARIABLES
  data,             \* AMD PDUs under way
  control,          \* status PDUs under way
  losses            \* number of PDUs lost so far

channelVars == <<data, control, losses>>
linkVars == <<txVars, rxVars, channelVars>>

\* Both ends have carried the same PDUs when the bearer is first looked at.
LinkInit ==
  /\ \E s \in Starts : TxQuiet(s) /\ RxQuiet(s)
  /\ data = << >> /\ control = << >> /\ losses = 0

-----------------------------------------------------------------------------
\* A step of the transmitter alone and one of the receiver alone.
TxStep(A) == A /\ UNCHANGED <<rxVars, channelVars>>
RxStep(A) == A /\ UNCHANGED <<txVars, channelVars>>

\* The MAC reads a PDU with room for n cells.
LinkRead(n) ==
  /\ Len(data) < MaxInFlight
  /\ \/ ReadRetx(n) /\ data' = Append(data, [pdu |-> RetxPdu(n), overtaken |-> 0])
     \/ ReadData(n) /\ data' = Append(data, [pdu |-> DataPdu(n), overtaken |-> 0])
     \/ ReadNothing(n) /\ UNCHANGED data
  /\ UNCHANGED <<rxVars, control, losses>>

\* The i-th PDU under way arrives before the i - 1 older ones.
Overtake(q, i) ==
  Drop([j \in DOMAIN q |-> IF j < i THEN [q[j] EXCEPT !.overtaken = @ + 1] ELSE q[j]], i)

\* The peer's MAC writes the i-th PDU under way.
LinkWrite(i) ==
  /\ Len(pdcp_rx) < MaxDelivered
  /\ i \in DOMAIN data
  /\ \A j \in 1 .. i - 1 : data[j].overtaken < MaxOvertaken
  /\ LET pdu == data[i].pdu IN
     IF pdu.rf THEN \/ WriteOldSegment(pdu.sn, pdu.p)
                    \/ WriteFirstSegment(pdu.sn, pdu)
                    \/ WriteNextSegment(pdu.sn, pdu)
               ELSE WritePdu(pdu.sn, pdu.p, pdu.cells)
  /\ data' = Overtake(data, i)
  /\ UNCHANGED <<txVars, control, losses>>

\* The peer's MAC reads a status PDU with room for k NACKs.
LinkReadStatus(k) ==
  /\ Len(control) < MaxInFlight
  /\ \E st \in StatusPdus(k) : BuildStatusPdu(k, st) /\ control' = Append(control, st)
  /\ UNCHANGED <<txVars, data, losses>>

\* The status PDU under way is handed to handle_control_pdu.
LinkControl ==
  /\ control # << >>
  /\ ControlStart(Head(control)) \/ ControlDropped(Head(control))
  /\ control' = Tail(control)
  /\ UNCHANGED <<rxVars, data, losses>>

\* A PDU is lost on the way, or a status report because the grant is too small.
LinkLose ==
  /\ losses < MaxLoss
  /\ losses' = losses + 1
  /\ \/ \E i \in DOMAIN data : data' = Drop(data, i) /\ UNCHANGED <<rxVars, control>>
     \/ \E i \in DOMAIN control : control' = Drop(control, i) /\ UNCHANGED <<rxVars, data>>
     \/ StatusDoesNotFit /\ UNCHANGED <<data, control>>
  /\ UNCHANGED txVars

LinkNext ==
  \/ TxStep(WriteSdu)
  \/ \E s \in Discardable : TxStep(DiscardSdu(s))
  \/ \E n \in 0 .. MaxGrant : LinkRead(n)
  \/ \E i \in 1 .. MaxInFlight : LinkWrite(i)
  \/ \E k \in 0 .. W : LinkReadStatus(k)
  \/ LinkControl
  \/ TxStep(ControlStep)
  \/ TxStep(PollRetxExpires) \/ TxStep(PollRetxCallback)
  \/ RxStep(ReorderingExpired) \/ RxStep(StatusProhibitExpired)
  \/ LinkLose

LinkSpec == LinkInit /\ [][LinkNext]_linkVars

\* As long as neither the window nor the retransmission queue is overrun.
LinkBoundedSpec == LinkInit /\ [][LinkNext /\ InWindow' /\ RetxQueueFits']_linkVars

\* The MAC goes on granting PDUs of full size and carrying them, status PDUs
\* included, timers expire, and the stack thread goes on serving its task queues
\* (it takes a status PDU in turn, however often a timer expires).
LinkFairness ==
  /\ WF_linkVars(LinkRead(MaxGrant)) /\ WF_linkVars(LinkWrite(1))
  /\ WF_linkVars(LinkReadStatus(W)) /\ SF_linkVars(LinkControl)
  /\ WF_linkVars(TxStep(ControlStep))
  /\ WF_linkVars(TxStep(PollRetxExpires)) /\ WF_linkVars(TxStep(PollRetxCallback))
  /\ WF_linkVars(RxStep(ReorderingExpired)) /\ WF_linkVars(RxStep(StatusProhibitExpired))

LinkLiveSpec == LinkSpec /\ LinkFairness

-----------------------------------------------------------------------------
(* The promise to PDCP.                                                        *)

SduCells(s) == [k \in 1 .. SduLen[s] |-> [s |-> s, k |-> k, e |-> k = SduLen[s]]]

\* The SDU a sequence of cells is, 0 if it is none.
SduOf(cells) == IF \E s \in 1 .. NSdu : cells = SduCells(s) THEN Head(cells).s ELSE 0

\* Delivered(out): the SDUs that make up the sequence of cell sequences out.
Delivered(out) == [i \in DOMAIN out |-> SduOf(out[i])]

Service == INSTANCE RlcAmService
  WITH Sdu <- 1 .. NSdu, submitted <- accepted, delivered <- Delivered(pdcp_rx)

\* The peer's PDCP gets the SDUs that write_sdu accepted and discard_sdu did not
\* take back: complete, once, in order, whatever was lost, repeated, resegmented
\* or overtaken on the way.
ServiceImplemented == Service!ServiceSpec

NonEmptyService == INSTANCE RlcAmService
  WITH Sdu <- 1 .. NSdu, submitted <- accepted,
       delivered <- Delivered(SelectSeq(pdcp_rx, LAMBDA cells : cells # << >>))

\* The same, except for SDUs without any byte: build_data_pdu sends a PDU without
\* payload when all that is queued has been discarded.
NonEmptyServiceImplemented == NonEmptyService!ServiceSpec

\* Cells that have reached the receiver and stay there.
Received ==
  (UNION {{pdcp_rx[i][c] : c \in DOMAIN pdcp_rx[i]} : i \in DOMAIN pdcp_rx})
    \cup {rx_sdu[c] : c \in DOMAIN rx_sdu}
    \cup (UNION {{rx_window[sn][c] : c \in DOMAIN rx_window[sn]} : sn \in DOMAIN rx_window})

\* notify_delivery is called only for SDUs every cell of which the peer has: an
\* acknowledgement is neither applied to the wrong PDU nor inferred from a report
\* that was cut short.
NotifiedReceived ==
  \A i \in DOMAIN notified :
     {SduCells(notified[i])[k] : k \in 1 .. SduLen[notified[i]]} \subseteq Received

\* The two windows overlap: VT(A) <= VR(R) <= VR(H) <= VT(S).  Beyond that a
\* sequence number means different PDUs at the two ends.
WindowsAgree ==
  /\ TxOff(vr_r) <= TxOff(vt_s)
  /\ TxOff(vr_h) <= TxOff(vt_s)
  /\ \A sn \in DOMAIN rx_window \cap DOMAIN tx_window :
        rx_window[sn] = tx_window[sn].cells

\* handle_control_pdu never finds VT(A) at an SN that is not in the window, the
\* condition it reports to RRC as a protocol failure.
NoProtocolFailure == "protocol_failure" \notin rrc_events

\* Every SDU that write_sdu accepted reaches the peer's PDCP in the end, unless
\* discard_sdu takes it back.
EventuallyDelivered ==
  \A s \in 1 .. NSdu :
     (\E i \in DOMAIN accepted : accepted[i] = s) ~>
        \/ \A i \in DOMAIN accepted : accepted[i] # s
        \/ \E i \in DOMAIN pdcp_rx : SduOf(pdcp_rx[i]) = s
=============================================================================
