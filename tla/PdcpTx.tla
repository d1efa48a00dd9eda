------------------------------- MODULE PdcpTx -------------------------------
(***************************************************************************)
(* The transmitting side of pdcp_entity_lte: sequence numbers and COUNTs   *)
(* and, for a DRB on RLC AM, the queue of undelivered SDUs with its        *)
(* discard timers, RLC's notifications and the peer's status reports.  The *)
(* bearer is active and not suspended.  In the code a DRB has 4096 SNs, a  *)
(* reordering window of 2048 and a queue of 4096 SDUs; here these are 2*H, *)
(* H and 2*H.                                                              *)
(***************************************************************************)
EXTENDS Integers, Sequences, FiniteSets, SequencesExt

CONSTANTS
  H,                  \* half of the sequence number space
  BitsPerByte,        \* of the bitmap in a status report; 8 in the code
  QueueLen            \* capacity of RLC's queue of SDUs

ASSUME PdcpAssumption ==
  /\ H \in Nat \ {0} /\ BitsPerByte \in Nat \ {0} /\ QueueLen \in Nat

VARIABLES
  bearer,             \* "srb", "um" (DRB on RLC UM) or "am" (DRB on RLC AM)
  next_pdcp_tx_sn, tx_hfn,
  undelivered_sdus,   \* [sdus: SDUs by SN, fms: SN of the first missing one]
  rlc_queue           \* PDUs written to RLC of which no part has been sent

pdcpTxVars == <<bearer, next_pdcp_tx_sn, tx_hfn, undelivered_sdus, rlc_queue>>

NofSns == 2 * H
PdcpSN == 0 .. NofSns - 1
COUNT(hfn, sn) == hfn * NofSns + sn

increment_sn(sn) == (sn + 1) % NofSns

-----------------------------------------------------------------------------
(* undelivered_sdus_queue.  A timer runs for each SDU in it.                   *)

NoSdus == [sdus |-> << >>, fms |-> 0]

HasSdu(u, sn) == sn \in DOMAIN u.sdus
IsEmpty(u) == DOMAIN u.sdus = {}

\* The SN after fms, among the next H, that has an SDU; else just the next.
UpdateFms(sdus, fms) ==
  IF \E i \in 1 .. H : (fms + i) % NofSns \in DOMAIN sdus
  THEN CHOOSE sn \in DOMAIN sdus : \E i \in 1 .. H :
         /\ sn = (fms + i) % NofSns
         /\ \A j \in 1 .. i - 1 : (fms + j) % NofSns \notin DOMAIN sdus
  ELSE increment_sn(fms)

\* clear_sdu for each of sns.  Once the queue is empty nothing reads fms.
ClearSdus(u, sns) ==
  LET left == [sn \in DOMAIN u.sdus \ sns |-> u.sdus[sn]]
  IN  [sdus |-> left,
       fms  |-> IF HasSdu(u, u.fms) /\ u.fms \in sns THEN UpdateFms(left, u.fms) ELSE u.fms]

\* Mutant: the distance from fms is not tested.
CanStoreMutant(u, sn) == ~HasSdu(u, sn) /\ Cardinality(DOMAIN u.sdus) < NofSns

\* The tests of store_sdu and of add_sdu.
CanStore(u, sn) ==
  /\ ~HasSdu(u, sn)
  /\ Cardinality(DOMAIN u.sdus) < NofSns
  /\ IsEmpty(u) \/ sn - u.fms \in 1 .. H \/ sn - u.fms <= -H

AddSdu(u, sn, sdu) ==
  [sdus |-> [x \in DOMAIN u.sdus \cup {sn} |-> IF x = sn THEN sdu ELSE u.sdus[x]],
   fms  |-> IF IsEmpty(u) THEN sn ELSE u.fms]

-----------------------------------------------------------------------------
\* A bearer whose COUNTs below s are over and done with.
PdcpTxQuiet(s) ==
  /\ next_pdcp_tx_sn = s % NofSns
  /\ tx_hfn = s \div NofSns
  /\ undelivered_sdus = [sdus |-> << >>, fms |-> s % NofSns]
  /\ rlc_queue = << >>

\* write_sdu, with the next SN or with one given by the upper layers.  The copy in
\* the queue and the PDU carry the SDU; the PDU is ciphered with tx_count.
Accept(sdu, used_sn) ==
  /\ Len(rlc_queue) < QueueLen
  /\ bearer = "am" => CanStore(undelivered_sdus, used_sn)
  /\ undelivered_sdus' = IF bearer = "am" THEN AddSdu(undelivered_sdus, used_sn, sdu)
                                          ELSE undelivered_sdus
  /\ UNCHANGED bearer
  /\ rlc_queue' = Append(rlc_queue, [sn |-> used_sn, sdu |-> sdu,
                                     tx_count |-> COUNT(tx_hfn, used_sn)])

\* write_sdu drops the SDU, and no SN is used up.
Refuse(used_sn) ==
  /\ \/ Len(rlc_queue) >= QueueLen
     \/ bearer = "am" /\ ~CanStore(undelivered_sdus, used_sn)
  /\ UNCHANGED <<bearer, undelivered_sdus, rlc_queue>>

\* Mutant: SNs wrap around one too late.
UseNextSnMutant ==
  /\ next_pdcp_tx_sn' = next_pdcp_tx_sn + 1
  /\ tx_hfn' = IF next_pdcp_tx_sn = NofSns THEN tx_hfn + 1 ELSE tx_hfn

\* Only if the SN was not given by the upper layers.
UseNextSn ==
  /\ next_pdcp_tx_sn' = increment_sn(next_pdcp_tx_sn)
  /\ tx_hfn' = IF next_pdcp_tx_sn = NofSns - 1 THEN tx_hfn + 1 ELSE tx_hfn

\* The list of the numbers of a set in ascending order, the one member of this set.
Ascending(ns) == {l \in SetToSeqs(ns) : \A i, j \in DOMAIN l : i < j => l[i] < l[j]}

\* discard_sdu of RLC leaves the other PDUs in the queue in their order.
RlcDiscards(sn) ==
  \E kept \in Ascending({i \in DOMAIN rlc_queue : rlc_queue[i].sn # sn}) :
    rlc_queue' = [k \in DOMAIN kept |-> rlc_queue[kept[k]]]

\* Mutant: only the timer of an SDU that RLC still queues expires.
DiscardTimerExpiresMutant ==
  \E sn \in DOMAIN undelivered_sdus.sdus :
     /\ \E i \in DOMAIN rlc_queue : rlc_queue[i].sn = sn
     /\ RlcDiscards(sn)
     /\ undelivered_sdus' = ClearSdus(undelivered_sdus, {sn})
     /\ UNCHANGED <<bearer, next_pdcp_tx_sn, tx_hfn>>

\* discard_callback.  All timers run equally long, so that of the oldest SDU
\* expires first.  RLC discards the PDU if no part of it has been sent.
DiscardTimerExpires ==
  \E sn \in DOMAIN undelivered_sdus.sdus :
     /\ \A x \in DOMAIN undelivered_sdus.sdus :
           undelivered_sdus.sdus[sn] <= undelivered_sdus.sdus[x]
     /\ RlcDiscards(sn)
     /\ undelivered_sdus' = ClearSdus(undelivered_sdus, {sn})
     /\ UNCHANGED <<bearer, next_pdcp_tx_sn, tx_hfn>>

\* notify_delivery and notify_failure.
Notify(sns) ==
  /\ undelivered_sdus' = ClearSdus(undelivered_sdus, sns)
  /\ UNCHANGED <<bearer, next_pdcp_tx_sn, tx_hfn, rlc_queue>>

\* The SNs a status report acknowledges as handle_status_report_pdu reads it: it
\* looks at the bits 8 .. 1 of each byte, not 7 .. 0 (bit 8 of the bitset's word is
\* clear), so the last one is missed; SNs are not reduced modulo the SN space.
AckedSns(report) ==
  0 .. report.fms - 1 \cup
  {report.fms + 1 + offset :
     offset \in {o \in report.bitmap : o % BitsPerByte # BitsPerByte - 1}}

HandleStatusReport(report) == Notify(AckedSns(report))

\* A new entity takes over at the target of a handover: it gets the counters with
\* set_bearer_state, and none of the SDUs.
TxSetBearerState ==
  /\ undelivered_sdus' = NoSdus
  /\ rlc_queue' = << >>
  /\ UNCHANGED <<bearer, next_pdcp_tx_sn, tx_hfn>>

\* reestablish of an SRB or a DRB on RLC UM, together with RLC's.
TxReestablish ==
  /\ next_pdcp_tx_sn' = 0 /\ tx_hfn' = 0
  /\ rlc_queue' = << >>
  /\ UNCHANGED <<bearer, undelivered_sdus>>
=============================================================================
