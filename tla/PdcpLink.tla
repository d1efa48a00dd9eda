------------------------------ MODULE PdcpLink ------------------------------
(***************************************************************************)
(* One direction of a bearer: a transmitting PDCP entity, its peer, and in *)
(* between what RLC promises.  PDUs come once and in order (RlcAmService), *)
(* except those that are discarded before any part is sent, are lost when  *)
(* RLC starts afresh or, on RLC UM, at any time (RlcUmService).  RRC       *)
(* re-establishes an SRB or a DRB on RLC UM at both ends; of a DRB on RLC  *)
(* AM the base station replaces the entity at its end, the receiving one   *)
(* of the uplink or the transmitting one of the downlink.                  *)
(***************************************************************************)
EXTENDS PdcpRx

CONSTANTS
  Bearers,        \* kinds of bearers looked at
  PdcpStarts,     \* initial COUNTs
  NSdu,           \* bound on the number of SDUs written
  MaxInFlight,    \* bound: PDUs under way at a time
  MaxSpan,        \* bound, downlink: SNs from the first undelivered SDU to the next
  MaxDrops,       \* bound: PDUs that RLC drops and nobody sends again
  MaxMoves,       \* bound on the number of times the entity is replaced
  SplitMoves      \* so also while the undelivered SNs straddle the wrap

ASSUME PdcpLinkAssumption ==
  /\ Bearers \subseteq {"srb", "um", "am"}
  /\ PdcpStarts \subseteq Nat /\ {NSdu, MaxInFlight, MaxSpan, MaxDrops, MaxMoves} \subseteq Nat
  /\ SplitMoves \in BOOLEAN

VARIABLES
  uplink,         \* the base station receives
  pdcp_written,   \* SDUs offered so far; the n-th is SDU n
  pdcp_accepted,  \* SDUs accepted, in order
  air,            \* PDUs of which RLC has sent a part
  acks,           \* SNs of PDUs that arrived, not yet notified
  forwarded,      \* <<sn, sdu>> on the way to the target of a handover
  reports,        \* status reports under way
  report_due,     \* RRC is to ask for a status report
  drops, moves

pdcpRlcVars == <<air, acks, forwarded, reports, report_due, drops, moves>>
pdcpHistory == <<uplink, pdcp_written, pdcp_accepted>>
pdcpLinkVars == <<pdcpTxVars, pdcpRxVars, pdcpRlcVars, pdcpHistory>>

PdcpLinkInit ==
  /\ \E s \in PdcpStarts : PdcpTxQuiet(s) /\ PdcpRxQuiet(s)
  /\ bearer \in Bearers /\ uplink \in (IF bearer = "am" THEN BOOLEAN ELSE {TRUE})
  /\ pdcp_written = 0 /\ pdcp_accepted = << >>
  /\ air = << >> /\ acks = << >> /\ forwarded = << >>
  /\ reports = << >> /\ report_due = FALSE /\ drops = 0 /\ moves = 0

-----------------------------------------------------------------------------
\* SNs in use from the first undelivered SDU on, were next_pdcp_tx_sn used too.
Span == IF IsEmpty(undelivered_sdus) THEN 1
        ELSE 1 + ((next_pdcp_tx_sn - undelivered_sdus.fms) % NofSns)

\* GTP-U hands over new SDUs once those forwarded have been written.
OfferSdu ==
  /\ pdcp_written < NSdu /\ forwarded = << >> /\ (uplink \/ Span <= MaxSpan)
  /\ pdcp_written' = pdcp_written + 1
  /\ \/ /\ Accept(pdcp_written + 1, next_pdcp_tx_sn) /\ UseNextSn
        /\ pdcp_accepted' = Append(pdcp_accepted, pdcp_written + 1)
     \/ /\ Refuse(next_pdcp_tx_sn)
        /\ UNCHANGED <<next_pdcp_tx_sn, tx_hfn, pdcp_accepted>>
  /\ UNCHANGED <<pdcpRxVars, pdcpRlcVars, uplink>>

\* Nobody sends a forwarded SDU again that the target refuses.
WriteForwarded ==
  /\ forwarded # << >>
  /\ forwarded' = Tail(forwarded)
  /\ \/ Accept(Head(forwarded)[2], Head(forwarded)[1]) /\ UNCHANGED drops
     \/ Refuse(Head(forwarded)[1]) /\ drops < MaxDrops /\ drops' = drops + 1
  /\ UNCHANGED <<next_pdcp_tx_sn, tx_hfn, pdcpRxVars, air, acks, reports, report_due,
                 moves, pdcpHistory>>

RlcStart ==
  /\ rlc_queue # << >> /\ Len(air) < MaxInFlight
  /\ rlc_queue' = Tail(rlc_queue)
  /\ air' = Append(air, Head(rlc_queue))
  /\ UNCHANGED <<bearer, next_pdcp_tx_sn, tx_hfn, undelivered_sdus, pdcpRxVars, acks,
                 forwarded, reports, report_due, drops, moves, pdcpHistory>>

RlcArrive ==
  /\ air # << >>
  /\ WritePdu(Head(air))
  /\ air' = Tail(air)
  /\ acks' = IF bearer = "am" THEN Append(acks, Head(air).sn) ELSE acks
  /\ UNCHANGED <<pdcpTxVars, forwarded, reports, report_due, drops, moves, pdcpHistory>>

RlcNotifies ==
  /\ acks # << >>
  /\ Notify({Head(acks)})
  /\ acks' = Tail(acks)
  /\ UNCHANGED <<pdcpRxVars, air, forwarded, reports, report_due, drops, moves, pdcpHistory>>

\* RLC gives notice of a PDU sent too often, and still goes on sending it.
RlcFails ==
  /\ bearer = "am" /\ air # << >>
  /\ Notify({Head(air).sn})
  /\ UNCHANGED <<pdcpRxVars, pdcpRlcVars, pdcpHistory>>

RlcUmLoses ==
  /\ bearer = "um" /\ air # << >>
  /\ drops < MaxDrops /\ drops' = drops + 1
  /\ air' = Tail(air)
  /\ UNCHANGED <<pdcpTxVars, pdcpRxVars, acks, forwarded, reports, report_due, moves, pdcpHistory>>

SduDiscarded ==
  /\ DiscardTimerExpires
  /\ drops' = drops + Len(rlc_queue) - Len(rlc_queue')
  /\ drops' <= MaxDrops
  /\ UNCHANGED <<pdcpRxVars, air, acks, forwarded, reports, report_due, moves, pdcpHistory>>

-----------------------------------------------------------------------------
\* SRBs and DRBs on RLC UM: both ends start again from COUNT 0.
ReestablishBoth ==
  /\ bearer # "am"
  /\ moves < MaxMoves /\ moves' = moves + 1
  /\ TxReestablish /\ RxReestablish
  /\ air' = << >>
  /\ UNCHANGED <<acks, forwarded, reports, report_due, drops, pdcpHistory>>

\* RRC lets the peer know with a status report, and both RLCs start afresh.
Replace ==
  /\ moves < MaxMoves /\ moves' = moves + 1
  /\ forwarded = << >>
  /\ air' = << >> /\ acks' = << >> /\ reports' = << >>
  /\ report_due' = TRUE

ReplaceReceiver ==
  /\ bearer = "am" /\ uplink /\ Replace
  /\ RxSetBearerState
  /\ rlc_queue' = << >>
  /\ drops' = drops + Len(rlc_queue) + Len(air) /\ drops' <= MaxDrops
  /\ UNCHANGED <<bearer, next_pdcp_tx_sn, tx_hfn, undelivered_sdus, forwarded, pdcpHistory>>

\* Re-establishment: nobody asks the old entity for its SDUs.
ReestablishSender ==
  /\ ~uplink /\ Replace
  /\ TxSetBearerState
  /\ drops' = drops + Len(rlc_queue) + Len(air) /\ drops' <= MaxDrops
  /\ UNCHANGED <<pdcpRxVars, forwarded, pdcpHistory>>

Holds(u, sdu) == \E sn \in DOMAIN u.sdus : u.sdus[sn] = sdu

\* Handover: the SDUs of get_buffered_pdus are forwarded, in the order of their SNs.
HandOverSender ==
  /\ ~uplink /\ Replace
  /\ SplitMoves \/ \A sn \in DOMAIN undelivered_sdus.sdus : sn < next_pdcp_tx_sn
  /\ TxSetBearerState
  /\ \E sns \in Ascending(DOMAIN undelivered_sdus.sdus) :
       forwarded' = [i \in DOMAIN sns |-> <<sns[i], undelivered_sdus.sdus[sns[i]]>>]
  /\ drops' = drops + Cardinality({i \in DOMAIN (air \o rlc_queue) :
                                     ~Holds(undelivered_sdus, (air \o rlc_queue)[i].sdu)})
  /\ drops' <= MaxDrops
  /\ UNCHANGED <<pdcpRxVars, pdcpHistory>>

SendStatusReport ==
  /\ report_due /\ report_due' = FALSE
  /\ reports' = IF CanReport THEN Append(reports, StatusReport) ELSE reports
  /\ UNCHANGED <<pdcpTxVars, pdcpRxVars, air, acks, forwarded, drops, moves, pdcpHistory>>

ReceiveStatusReport ==
  /\ reports # << >>
  /\ HandleStatusReport(Head(reports))
  /\ reports' = Tail(reports)
  /\ UNCHANGED <<pdcpRxVars, air, acks, forwarded, report_due, drops, moves, pdcpHistory>>

PdcpLinkNext ==
  \/ OfferSdu \/ WriteForwarded \/ RlcStart \/ RlcArrive \/ RlcNotifies \/ RlcFails
  \/ RlcUmLoses \/ SduDiscarded \/ ReestablishBoth
  \/ ReplaceReceiver \/ ReestablishSender \/ HandOverSender
  \/ SendStatusReport \/ ReceiveStatusReport

PdcpLinkSpec == PdcpLinkInit /\ [][PdcpLinkNext]_pdcpLinkVars

\* RLC goes on sending, discard timers expire, and GTP-U goes on writing what is
\* forwarded.  Nothing is assumed of notifications and status reports.
PdcpLinkFairness ==
  /\ WF_pdcpLinkVars(RlcStart) /\ WF_pdcpLinkVars(RlcArrive)
  /\ WF_pdcpLinkVars(SduDiscarded) /\ WF_pdcpLinkVars(WriteForwarded)

PdcpLinkLiveSpec == PdcpLinkSpec /\ PdcpLinkFairness

-----------------------------------------------------------------------------
\* Types and ranges of the state variables.
PdcpTypeOK ==
  /\ {next_pdcp_tx_sn, next_pdcp_rx_sn, last_submitted_pdcp_rx_sn} \subseteq PdcpSN
  /\ {tx_hfn, rx_hfn, fmc, largest_rx_count} \subseteq Nat
  /\ DOMAIN undelivered_sdus.sdus \subseteq PdcpSN /\ undelivered_sdus.fms \in PdcpSN
  /\ Len(rlc_queue) <= QueueLen

\* HFNs stay in step: every PDU is deciphered with the COUNT it was ciphered with.
CountsAgree ==
  \A i \in DOMAIN pdcp_delivered : pdcp_delivered[i].count = pdcp_delivered[i].tx_count

DeliveredSdus == [i \in DOMAIN pdcp_delivered |-> pdcp_delivered[i].sdu]
Delivered == {DeliveredSdus[i] : i \in DOMAIN DeliveredSdus}

\* The receiver discards no PDU but one whose SDU it has delivered.
OnlyDuplicatesRefused == pdcp_refused \subseteq Delivered

\* The queue of undelivered SDUs starts at fms and spans at most half of the SNs.
FmsIsFirst ==
  \A sn \in DOMAIN undelivered_sdus.sdus :
    /\ HasSdu(undelivered_sdus, undelivered_sdus.fms)
    /\ (sn - undelivered_sdus.fms) % NofSns <= H

\* What a status report is made from: COUNTs above fmc, each once, all received.
RxCountsSound ==
  \A i \in DOMAIN rx_counts_info :
    /\ rx_counts_info[i] > fmc
    /\ i > 1 => rx_counts_info[i] > rx_counts_info[i - 1]
    /\ \E j \in DOMAIN pdcp_delivered : pdcp_delivered[j].count = rx_counts_info[i]
    /\ rx_counts_info[i] <= largest_rx_count

\* SDUs of which PDCP holds a copy.
Held == {undelivered_sdus.sdus[sn] : sn \in DOMAIN undelivered_sdus.sdus}
          \cup {forwarded[i][2] : i \in DOMAIN forwarded}

PdcpService == INSTANCE RlcUmService
  WITH Sdu <- 1 .. NSdu, submitted <- pdcp_accepted, delivered <- DeliveredSdus

\* The upper layer gets SDUs once and in order, also those that are forwarded and
\* sent again in a handover.
PdcpServiceImplemented == PdcpService!UmServiceSpec

\* No copy lingers: every SDU leaves the queue in the end.
NoneLingers == \A s \in 1 .. NSdu : s \in Held ~> s \notin Held
=============================================================================
