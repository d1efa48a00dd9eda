------------------------------- MODULE PdcpRx -------------------------------
(***************************************************************************)
(* The receiving side of pdcp_entity_lte: the COUNT of each PDU and, for a *)
(* DRB on RLC AM, the COUNTs received since the first missing one and the  *)
(* status report made from them.  The caller of write_pdu takes the SDU    *)
(* from its slot (get_icmp_data) at once.                                  *)
(***************************************************************************)
EXTENDS PdcpTx

VARIABLES
  rx_hfn, next_pdcp_rx_sn, last_submitted_pdcp_rx_sn,
  fmc,                \* first missing COUNT
  largest_rx_count,
  rx_counts_info,     \* COUNTs received since fmc, in ascending order
  pdcp_delivered,     \* history: [sdu, count, tx_count] handed to the upper layer
  pdcp_refused        \* history: SDUs of the PDUs that were discarded

pdcpRxVars == <<rx_hfn, next_pdcp_rx_sn, last_submitted_pdcp_rx_sn, fmc,
                largest_rx_count, rx_counts_info, pdcp_delivered, pdcp_refused>>

ReorderingWindow == H

-----------------------------------------------------------------------------
\* A bearer that has received all COUNTs below s.
PdcpRxQuiet(s) ==
  /\ rx_hfn = s \div NofSns
  /\ next_pdcp_rx_sn = s % NofSns
  /\ last_submitted_pdcp_rx_sn = (s + NofSns - 1) % NofSns
  /\ fmc = s /\ largest_rx_count = IF s = 0 THEN 0 ELSE s - 1
  /\ rx_counts_info = << >>
  /\ pdcp_delivered = << >> /\ pdcp_refused = {}

-----------------------------------------------------------------------------
(* handle_am_drb_pdu.  SNs are compared as plain integers.                     *)

\* Mutant: SNs do not wrap around.
SubmittedMutant(sn) == sn <= last_submitted_pdcp_rx_sn

\* Mutant: only SNs before the wrap count as submitted.
KeptMutant(sn) == sn - last_submitted_pdcp_rx_sn > ReorderingWindow

AlreadySubmitted(sn) ==
  \/ sn - last_submitted_pdcp_rx_sn > ReorderingWindow
  \/ last_submitted_pdcp_rx_sn - sn \in 0 .. ReorderingWindow - 1

\* Mutant: the HFN does not go up after the last SN.
RxCountMutant(sn) ==
  IF next_pdcp_rx_sn - sn > ReorderingWindow
  THEN [hfn |-> rx_hfn + 1, next |-> sn + 1, count |-> COUNT(rx_hfn + 1, sn)]
  ELSE [hfn |-> rx_hfn, next |-> increment_sn(sn), count |-> COUNT(rx_hfn, sn)]

\* The state variables [hfn, next] and the COUNT after a PDU that is kept.
RxCount(sn) ==
  CASE next_pdcp_rx_sn - sn > ReorderingWindow ->
         [hfn |-> rx_hfn + 1, next |-> sn + 1, count |-> COUNT(rx_hfn + 1, sn)]
    [] sn - next_pdcp_rx_sn >= ReorderingWindow ->
         [hfn |-> rx_hfn, next |-> next_pdcp_rx_sn, count |-> COUNT(rx_hfn - 1, sn)]
    [] sn - next_pdcp_rx_sn \in 0 .. ReorderingWindow - 1 ->
         [hfn   |-> IF sn = NofSns - 1 THEN rx_hfn + 1 ELSE rx_hfn,
          next  |-> increment_sn(sn),
          count |-> COUNT(rx_hfn, sn)]
    [] OTHER ->
         [hfn |-> rx_hfn, next |-> next_pdcp_rx_sn, count |-> COUNT(rx_hfn, sn)]

\* The number of counts at the front that follow each other from first on.
RunLength(counts, first) ==
  CHOOSE n \in 0 .. Len(counts) :
    /\ \A i \in 1 .. n : counts[i] = first + i - 1
    /\ n < Len(counts) => counts[n + 1] # first + n

\* Pops the run that starts at first.
PopRun(counts, first) ==
  LET n == RunLength(counts, first)
  IN  [counts |-> SubSeq(counts, n + 1, Len(counts)), fmc |-> first + n]

\* Inserted where it belongs, after those that are not larger.
Insert(counts, c) ==
  InsertAt(counts, 1 + Cardinality({i \in DOMAIN counts : counts[i] <= c}), c)

\* Mutant: COUNTs that follow the missing one are not popped.
UpdateRxCountsMutant(count) ==
  IF count = fmc
  THEN [counts |-> rx_counts_info, fmc |-> fmc + 1]
  ELSE [counts |-> Insert(rx_counts_info, count), fmc |-> fmc]

\* update_rx_counts_queue: the first missing COUNT is given up when the queue
\* outgrows the window.
UpdateRxCounts(count) ==
  LET kept == IF count = fmc
              THEN PopRun(rx_counts_info, fmc + 1)
              ELSE [counts |-> Insert(rx_counts_info, count), fmc |-> fmc]
  IN  CASE count < fmc -> [counts |-> rx_counts_info, fmc |-> fmc]
        [] count >= fmc /\ Len(kept.counts) > ReorderingWindow ->
             PopRun(kept.counts, Head(kept.counts))
        [] OTHER -> kept

HandleAmDrbPdu(pdu) ==
  IF AlreadySubmitted(pdu.sn)
  THEN /\ pdcp_refused' = pdcp_refused \cup {pdu.sdu}
       /\ UNCHANGED <<rx_hfn, next_pdcp_rx_sn, last_submitted_pdcp_rx_sn, fmc,
                      largest_rx_count, rx_counts_info, pdcp_delivered>>
  ELSE LET rx == RxCount(pdu.sn)
           queue == UpdateRxCounts(rx.count)
       IN  /\ rx_hfn' = rx.hfn /\ next_pdcp_rx_sn' = rx.next
           /\ last_submitted_pdcp_rx_sn' = pdu.sn
           /\ fmc' = queue.fmc /\ rx_counts_info' = queue.counts
           /\ largest_rx_count' = IF rx.count >= fmc /\ rx.count > largest_rx_count
                                  THEN rx.count ELSE largest_rx_count
           /\ pdcp_delivered' = Append(pdcp_delivered,
                [sdu |-> pdu.sdu, count |-> rx.count, tx_count |-> pdu.tx_count])
           /\ UNCHANGED pdcp_refused

-----------------------------------------------------------------------------
(* handle_srb_pdu and handle_um_drb_pdu: an SN below the next one means that   *)
(* SNs have wrapped around.                                                    *)

HfnOf(sn) == IF sn < next_pdcp_rx_sn THEN rx_hfn + 1 ELSE rx_hfn

InOrderPdu(pdu) ==
  /\ rx_hfn' = IF pdu.sn = NofSns - 1 THEN HfnOf(pdu.sn) + 1 ELSE HfnOf(pdu.sn)
  /\ next_pdcp_rx_sn' = increment_sn(pdu.sn)
  /\ pdcp_delivered' = Append(pdcp_delivered,
       [sdu |-> pdu.sdu, count |-> COUNT(HfnOf(pdu.sn), pdu.sn), tx_count |-> pdu.tx_count])
  /\ UNCHANGED <<last_submitted_pdcp_rx_sn, fmc, largest_rx_count, rx_counts_info, pdcp_refused>>

\* The integrity check of an SRB fails unless the COUNT is the sender's.
HandleSrbPdu(pdu) ==
  IF COUNT(HfnOf(pdu.sn), pdu.sn) = pdu.tx_count
  THEN InOrderPdu(pdu)
  ELSE /\ pdcp_refused' = pdcp_refused \cup {pdu.sdu}
       /\ UNCHANGED <<rx_hfn, next_pdcp_rx_sn, last_submitted_pdcp_rx_sn, fmc,
                      largest_rx_count, rx_counts_info, pdcp_delivered>>

\* write_pdu for a data PDU.
WritePdu(pdu) ==
  CASE bearer = "srb" -> HandleSrbPdu(pdu)
    [] bearer = "um"  -> InOrderPdu(pdu)
    [] bearer = "am"  -> HandleAmDrbPdu(pdu)

\* reestablish of an SRB or a DRB on RLC UM.
RxReestablish ==
  /\ rx_hfn' = 0 /\ next_pdcp_rx_sn' = 0
  /\ UNCHANGED <<last_submitted_pdcp_rx_sn, fmc, largest_rx_count, rx_counts_info,
                 pdcp_delivered, pdcp_refused>>

-----------------------------------------------------------------------------
\* The report of send_status_report, if it makes one: bit `offset' of the bitmap
\* stands for the SN fms + 1 + offset.
CanReport == rx_counts_info = << >> \/ largest_rx_count >= fmc - 1

StatusReport ==
  [fms    |-> fmc % NofSns,
   bitmap |-> {rx_counts_info[i] - (fmc + 1) : i \in DOMAIN rx_counts_info}]

\* A new entity takes over with set_bearer_state, which derives fmc from the last
\* SN submitted.
RxSetBearerState ==
  /\ fmc' = COUNT(rx_hfn, last_submitted_pdcp_rx_sn)
  /\ largest_rx_count' = 0 /\ rx_counts_info' = << >>
  /\ UNCHANGED <<rx_hfn, next_pdcp_rx_sn, last_submitted_pdcp_rx_sn,
                 pdcp_delivered, pdcp_refused>>
=============================================================================
