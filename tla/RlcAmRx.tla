------------------------------- MODULE RlcAmRx -------------------------------
(***************************************************************************)
(* The receiving half of an RLC AM entity, class rlc_am_lte_rx in          *)
(* lib/src/rlc/rlc_am_lte.cc, together with the status PDUs that the       *)
(* entity's transmitting half builds from it.                              *)
(*                                                                         *)
(* Every action is one critical section of the receiver's mutex.  PDUs are *)
(* written and the reordering timer expires on the stack thread; status    *)
(* PDUs are read by the MAC from another thread.                           *)
(***************************************************************************)
EXTENDS RlcAmCommon

CONSTANTS
  StatusProhibit,   \* t_status_proh > 0 in the configuration
  Payloads,         \* payloads of the whole PDUs a peer may send
  Segments,         \* segments [so, lsf, p, cells] a peer may send
  MaxDelivered      \* bound: no PDU arrives once PDCP has this many SDUs

ASSUME RxAssumption == /\ StatusProhibit \in BOOLEAN
                       /\ \A seg \in Segments : seg.p \in BOOLEAN /\ seg.so \in Nat
                       /\ MaxDelivered \in Nat

VARIABLES
  vr_r,                 \* lower edge of the window, next SN to deliver
  vr_mr,                \* upper edge of the window
  vr_x,                 \* SN after the one that started the reordering timer
  vr_ms,                \* highest value ACK_SN may take in a status PDU
  vr_h,                 \* SN after the highest one received
  rx_window,            \* SN -> payload of a PDU not yet reassembled
  rx_segments,          \* SN -> SO -> segment of a PDU received in parts
  rx_sdu,               \* cells of the SDU under reassembly
  poll_received,        \* a poll waits for its status report
  do_status,            \* the transmitter shall send a status PDU
  reordering_timer,     \* TRUE while running
  status_prohibit_timer,\* TRUE while running (member of the transmitting half)
  pdcp_rx               \* SDUs handed to PDCP, in order

rxVars == <<vr_r, vr_mr, vr_x, vr_ms, vr_h, rx_window, rx_segments, rx_sdu,
            poll_received, do_status, reordering_timer, status_prohibit_timer,
            pdcp_rx>>

RxOff(x) == ModBase(x, vr_r)        \* RX_MOD_BASE

-----------------------------------------------------------------------------
(* The entity after a bearer has carried s PDUs and gone quiet; s = 0 is the *)
(* state of a new or re-established entity.                                  *)
RxQuiet(s) ==
  /\ vr_r = s /\ vr_x = s /\ vr_ms = s /\ vr_h = s
  /\ vr_mr = (s + W) % MOD
  /\ rx_window = NoEntries /\ rx_segments = NoEntries
  /\ rx_sdu = << >>
  /\ poll_received = FALSE /\ do_status = FALSE
  /\ reordering_timer = FALSE /\ status_prohibit_timer = FALSE
  /\ pdcp_rx = << >>

RxInit == \E s \in Starts : RxQuiet(s)

-----------------------------------------------------------------------------
\* Mutant: the upper edge belongs to the window.
InsideMutant(sn, r, mr) == ModBase(sn, r) <= ModBase(mr, r)

Inside(sn, r, mr) == /\ ModBase(sn, r) >= ModBase(r, r)
                     /\ ModBase(sn, r) < ModBase(mr, r)

InsideRxWindow(sn) == Inside(sn, vr_r, vr_mr)

\* A running reordering timer is stopped: VR(X) is no longer within the window
\* [r, mr] or nothing is missing below it.
\* Mutant: the first condition is forgotten.
ReorderingDoneMutant(r, mr) == ~Inside(vr_x, r, mr) /\ vr_x # mr

ReorderingDone(r, mr) == vr_x = r \/ (~Inside(vr_x, r, mr) /\ vr_x # mr)

\* Sequence number h is above low, seen from base.
\* Mutant: the comparison is not modular.
AboveMutant(h, low, base) == h > low

Above(h, low, base) == ModBase(h, base) > ModBase(low, base)

\* The SNs at which the loop  while (rx_window.has_sn(x)) x = (x + 1) % MOD
\* stops when it starts at x = from (there is exactly one).
StopsAt(win, from) ==
  {sn \in SN \ DOMAIN win :
     \A y \in SN : ModBase(y, from) < ModBase(sn, from) => y \in DOMAIN win}

\* reassemble_rx_sdus on one payload: the SDU under reassembly and the SDUs
\* delivered so far, after the cells of one more PDU.  A PDU without payload
\* is start and end aligned, and so completes an SDU too.
Append1(st, cells) ==
  LET all  == st.sdu \o cells
      cuts == IF cells = << >> THEN {Len(all)}
              ELSE {i \in 1 .. Len(all) : all[i].e}
      NthCut(j) == CHOOSE i \in cuts : Cardinality({c \in cuts : c <= i}) = j
      From(j) == IF j = 1 THEN 1 ELSE NthCut(j - 1) + 1
      n    == Cardinality(cuts)
  IN  [sdu |-> IF n = 0 THEN all ELSE SubSeq(all, NthCut(n) + 1, Len(all)),
       out |-> st.out \o [j \in 1 .. n |-> SubSeq(all, From(j), NthCut(j))]]

\* The same for the payloads of the n SNs from vr_r on.
Reassemble(win, n) ==
  LET after[j \in 0 .. n] ==
        IF j = 0 THEN [sdu |-> rx_sdu, out |-> pdcp_rx]
        ELSE Append1(after[j - 1], win[(vr_r + j - 1) % MOD])
  IN  after[n]

\* handle_data_pdu, without its effect on rx_segments; ds is do_status on entry.
HandleDataPdu(sn, p, cells, ds) ==
  IF ~InsideRxWindow(sn) \/ sn \in DOMAIN rx_window
  THEN /\ do_status' = (ds \/ p)
       /\ UNCHANGED <<vr_r, vr_mr, vr_x, vr_ms, vr_h, rx_window, rx_sdu,
                      poll_received, reordering_timer, pdcp_rx>>
  ELSE LET win == With(rx_window, sn, cells)
           h   == IF RxOff(sn) >= RxOff(vr_h) THEN Inc(sn) ELSE vr_h
       IN \E ms \in StopsAt(win, vr_ms), r \in StopsAt(win, vr_r) :
          LET n  == RxOff(r)         \* PDUs reassembled and removed
              mr == (vr_mr + n) % MOD
              st == Reassemble(win, n)
              stopped == ~reordering_timer \/ ReorderingDone(r, mr)
              starts  == stopped /\ Above(h, r, r)
          IN /\ vr_h' = h
             /\ vr_ms' = ms
             /\ poll_received' = (poll_received \/ p)
             /\ do_status' = (ds \/ (p /\ (\/ RxOff(sn) < RxOff(ms)
                                            \/ RxOff(sn) >= RxOff(vr_mr))))
             /\ vr_r' = r
             /\ vr_mr' = mr
             /\ rx_window' = [y \in {z \in DOMAIN win : RxOff(z) >= n} |-> win[y]]
             /\ rx_sdu' = st.sdu
             /\ pdcp_rx' = st.out
             /\ reordering_timer' = (~stopped \/ starts)
             /\ vr_x' = IF starts THEN h ELSE vr_x

\* reassemble_rx_sdus empties the segment lists of the SNs it passes, and
\* leaves the emptied lists in the map.
ClearSegments(segs) ==
  [y \in DOMAIN segs |-> IF RxOff(y) < ModBase(vr_r', vr_r) THEN NoEntries
                                                            ELSE segs[y]]

-----------------------------------------------------------------------------
(* Segments of a re-segmented PDU, [so, lsf, p, cells], kept per SN as a map   *)
(* from SO.                                                                    *)

SegEnd(list, so) == so + Len(list[so].cells)

\* add_segment_and_check, insertion: one segment per SO, the longer one wins.
AddSegment(list, seg) ==
  IF seg.so \in DOMAIN list /\ Len(seg.cells) <= Len(list[seg.so].cells)
  THEN list
  ELSE With(list, seg.so, seg)

\* No byte is missing between the start of the PDU and offset so.
GaplessUpTo(list, so) ==
  \A u \in DOMAIN list :
     u <= so => u = 0 \/ \E t \in DOMAIN list : t < u /\ SegEnd(list, t) >= u

\* add_segment_and_check, the scan: segments covered by earlier ones are erased
\* up to the first gap.
Pruned(list) ==
  [so \in {u \in DOMAIN list :
            ~ /\ GaplessUpTo(list, u)
              /\ \E t \in DOMAIN list : t < u /\ SegEnd(list, t) >= SegEnd(list, u)}
     |-> list[so]]

Back(list) == CHOOSE so \in DOMAIN list : \A t \in DOMAIN list : t <= so

\* add_segment_and_check, completeness: no gap, and the last segment is the last
\* one of its PDU.
\* Mutant: the last segment flag is not looked at.
IsCompleteMutant(list) == GaplessUpTo(list, Back(list))

IsComplete(list) == GaplessUpTo(list, Back(list)) /\ list[Back(list)].lsf

\* add_segment_and_check, the PDU: every cell is copied from the first segment
\* that holds it.
Concatenated(list) ==
  LET Holds(so, i) == so < i /\ i <= SegEnd(list, so)
      First(i) == CHOOSE so \in DOMAIN list :
                    /\ Holds(so, i)
                    /\ \A t \in DOMAIN list : Holds(t, i) => so <= t
  IN  [i \in 1 .. SegEnd(list, Back(list)) |-> list[First(i)].cells[i - First(i)]]

-----------------------------------------------------------------------------
\* write_pdu, whole AMD PDU.
WritePdu(sn, p, cells) ==
  /\ HandleDataPdu(sn, p, cells, do_status)
  /\ rx_segments' = ClearSegments(rx_segments)
  /\ UNCHANGED status_prohibit_timer

\* write_pdu, segment outside the window.
WriteOldSegment(sn, p) ==
  /\ ~InsideRxWindow(sn)
  /\ do_status' = (do_status \/ p)
  /\ UNCHANGED <<vr_r, vr_mr, vr_x, vr_ms, vr_h, rx_window, rx_segments, rx_sdu,
                 poll_received, reordering_timer, status_prohibit_timer, pdcp_rx>>

\* write_pdu, first segment of its SN: it moves vr_h, but the reordering timer
\* is left alone.
WriteFirstSegment(sn, seg) ==
  /\ InsideRxWindow(sn) /\ sn \notin DOMAIN rx_segments
  /\ rx_segments' = With(rx_segments, sn, AddSegment(NoEntries, seg))
  /\ vr_h' = IF RxOff(sn) >= RxOff(vr_h) THEN Inc(sn) ELSE vr_h
  /\ poll_received' = (poll_received \/ seg.p)
  /\ do_status' = (do_status \/ (seg.p /\ (\/ RxOff(sn) < RxOff(vr_ms)
                                            \/ RxOff(sn) >= RxOff(vr_mr))))
  /\ UNCHANGED <<vr_r, vr_mr, vr_x, vr_ms, rx_window, rx_sdu, reordering_timer,
                 status_prohibit_timer, pdcp_rx>>

\* write_pdu, further segment of its SN, which may complete the PDU.
WriteNextSegment(sn, seg) ==
  /\ InsideRxWindow(sn) /\ sn \in DOMAIN rx_segments
  /\ LET list == Pruned(AddSegment(rx_segments[sn], seg))
         ds   == do_status \/ seg.p
     IN IF IsComplete(list)
        THEN /\ HandleDataPdu(sn, \E so \in DOMAIN list : list[so].p,
                              Concatenated(list), ds)
             /\ rx_segments' = Without(ClearSegments(rx_segments), sn)
             /\ UNCHANGED status_prohibit_timer
        ELSE /\ rx_segments' = [rx_segments EXCEPT ![sn] = list]
             /\ do_status' = ds
             /\ UNCHANGED <<vr_r, vr_mr, vr_x, vr_ms, vr_h, rx_window, rx_sdu,
                            poll_received, reordering_timer,
                            status_prohibit_timer, pdcp_rx>>

\* timer_expired of the reordering timer.
ReorderingExpired ==
  /\ reordering_timer
  /\ \E ms \in StopsAt(rx_window, vr_x) :
        /\ vr_ms' = ms
        /\ reordering_timer' = Above(vr_h, ms, vr_r)
        /\ vr_x' = IF Above(vr_h, ms, vr_r) THEN vr_h ELSE vr_x
  /\ do_status' = (do_status \/ poll_received)
  /\ UNCHANGED <<vr_r, vr_mr, vr_h, rx_window, rx_segments, rx_sdu,
                 poll_received, status_prohibit_timer, pdcp_rx>>

-----------------------------------------------------------------------------
(* Status PDUs [ack_sn, nacks].  A grant is measured by k, the number of NACKs *)
(* that fit; k = -1 is a grant below the two bytes of an empty status PDU.     *)

\* Offsets from vr_r that a full report negatively acknowledges.
\* Mutants: VR(MS) itself is reported; a PDU held in part passes for received.
MissingMutantEdge ==
  {j \in 0 .. RxOff(vr_ms) : (vr_r + j) % MOD \notin DOMAIN rx_window}

MissingMutantSegments ==
  {j \in 0 .. RxOff(vr_ms) - 1 :
     (vr_r + j) % MOD \notin DOMAIN rx_window \cup DOMAIN rx_segments}

Missing == {j \in 0 .. RxOff(vr_ms) - 1 : (vr_r + j) % MOD \notin DOMAIN rx_window}

\* What get_status_pdu writes: all of Missing, or the first k of it and the last
\* SN received before the one that did not fit; a report that would be invalid
\* is replaced by one that acknowledges nothing.  The loop ends with the W-th NACK,
\* before it has set ACK_SN; if that NACK does not fit, there is no report at all.
\* (At most one element.)
\* Mutant: the NACKs are cut down to the grant, ACK_SN is not.
StatusPdusMutant(k) ==
  {[ack_sn |-> vr_ms,
    nacks  |-> {(vr_r + j) % MOD :
                  j \in {m \in Missing : Cardinality({i \in Missing : i < m}) < k}}]}

StatusPdus(k) ==
  IF Cardinality(Missing) <= k
  THEN {[ack_sn |-> IF Cardinality(Missing) < W THEN vr_ms ELSE vr_r,
         nacks  |-> {(vr_r + j) % MOD : j \in Missing}]}
  ELSE {LET cut == [ack_sn |-> (vr_r + ca[2]) % MOD,
                    nacks  |-> {(vr_r + j) % MOD : j \in {m \in Missing : m < ca[1]}}]
        IN  IF IsValidStatusPdu(cut, vr_r) THEN cut
            ELSE [ack_sn |-> vr_r, nacks |-> {}] :
          ca \in {d \in Missing \X (0 .. W) :
                    /\ Cardinality({m \in Missing : m < d[1]}) = k
                    /\ k < W - 1
                    /\ d[2] < d[1] \/ d[2] = 0
                    /\ d[2] = 0 \/ d[2] \notin Missing
                    /\ \A j \in d[2] + 1 .. d[1] - 1 : j \in Missing}}

\* read_pdu -> build_status_pdu with room for k NACKs; the PDU is st.
BuildStatusPdu(k, st) ==
  /\ do_status /\ ~status_prohibit_timer
  /\ k >= 0
  /\ st \in StatusPdus(k)
  /\ do_status' = FALSE /\ poll_received' = FALSE           \* reset_status
  /\ status_prohibit_timer' = StatusProhibit
  /\ UNCHANGED <<vr_r, vr_mr, vr_x, vr_ms, vr_h, rx_window, rx_segments, rx_sdu,
                 reordering_timer, pdcp_rx>>

\* The same with a grant of less than two bytes: nothing is sent, and the
\* request is forgotten unless the report would have had no NACK.
StatusDoesNotFit ==
  /\ do_status /\ ~status_prohibit_timer
  /\ vr_ms # vr_r
  /\ do_status' = FALSE /\ poll_received' = FALSE
  /\ UNCHANGED <<vr_r, vr_mr, vr_x, vr_ms, vr_h, rx_window, rx_segments, rx_sdu,
                 reordering_timer, status_prohibit_timer, pdcp_rx>>

StatusProhibitExpired ==
  /\ status_prohibit_timer
  /\ status_prohibit_timer' = FALSE
  /\ UNCHANGED <<vr_r, vr_mr, vr_x, vr_ms, vr_h, rx_window, rx_segments, rx_sdu,
                 poll_received, do_status, reordering_timer, pdcp_rx>>

\* reestablish and stop: what PDCP has received stays received.
RxStop ==
  /\ vr_r' = 0 /\ vr_mr' = W /\ vr_x' = 0 /\ vr_ms' = 0 /\ vr_h' = 0
  /\ rx_window' = NoEntries /\ rx_segments' = NoEntries /\ rx_sdu' = << >>
  /\ poll_received' = FALSE /\ do_status' = FALSE
  /\ reordering_timer' = FALSE /\ status_prohibit_timer' = FALSE
  /\ UNCHANGED pdcp_rx

-----------------------------------------------------------------------------
(* The receiver on its own: a peer that may send any PDU at any time.          *)
RxWrite ==
  /\ Len(pdcp_rx) < MaxDelivered
  /\ \E sn \in SN :
       \/ \E p \in BOOLEAN, cells \in Payloads : WritePdu(sn, p, cells)
       \/ \E seg \in Segments : \/ WriteOldSegment(sn, seg.p)
                                \/ WriteFirstSegment(sn, seg)
                                \/ WriteNextSegment(sn, seg)

RxSendStatus ==
  \/ \E k \in 0 .. W : \E st \in StatusPdus(k) : BuildStatusPdu(k, st)
  \/ StatusDoesNotFit

RxNext == RxWrite \/ ReorderingExpired \/ RxSendStatus
            \/ StatusProhibitExpired \/ RxStop

RxSpec == RxInit /\ [][RxNext]_rxVars

-----------------------------------------------------------------------------
\* Every state variable of the receiver keeps its type.
RxTypeOK ==
  /\ vr_r \in SN /\ vr_mr \in SN /\ vr_x \in SN /\ vr_ms \in SN /\ vr_h \in SN
  /\ DOMAIN rx_window \subseteq SN
  /\ DOMAIN rx_segments \subseteq SN
  /\ poll_received \in BOOLEAN /\ do_status \in BOOLEAN
  /\ reordering_timer \in BOOLEAN /\ status_prohibit_timer \in BOOLEAN

\* The state variables keep their order VR(R) <= VR(MS) <= VR(H) <= VR(MR), and
\* the PDUs held lie strictly between VR(R) and VR(H).  Every comparison in
\* handle_data_pdu and get_status_pdu is modulo 1024 relative to VR(R), and is
\* meaningless when a variable falls behind VR(R).
VrOrder ==
  /\ vr_mr = (vr_r + W) % MOD
  /\ RxOff(vr_ms) <= RxOff(vr_h)
  /\ RxOff(vr_h) <= W
  /\ \A sn \in DOMAIN rx_window : 0 < RxOff(sn) /\ RxOff(sn) < RxOff(vr_h)

\* While the reordering timer runs, VR(X) is the SN of a gap still of interest:
\* timer_expired copies it to VR(MS) without any check, so it must neither have
\* been overtaken by VR(R) nor lie beyond VR(H).
ReorderingSound ==
  reordering_timer => /\ 0 < RxOff(vr_x)
                      /\ RxOff(vr_x) <= RxOff(vr_h)

\* A status PDU never acknowledges what was not received, whatever the grant it
\* is cut down to: each SN from VR(R) up to ACK_SN is in the window or negatively
\* acknowledged, and no SN held is reported missing.  It is well formed, unless
\* all of a window is missing.
StatusSound ==
  \A k \in 0 .. W : \A st \in StatusPdus(k) :
     /\ Cardinality(Missing) < W => IsValidStatusPdu(st, vr_r)
     /\ \A sn \in SN : RxOff(sn) < RxOff(st.ack_sn) =>
                         (sn \in DOMAIN rx_window <=> sn \notin st.nacks)

\* A gap below VR(H) that VR(MS) has not reached yet is watched by the reordering
\* timer: otherwise no status PDU would ever report it.  The exception the code
\* makes: the first segment of an SN moves VR(H) and does not start the timer.
GapHasTimer ==
  vr_ms # vr_h =>
     reordering_timer \/ \E sn \in DOMAIN rx_segments : rx_segments[sn] # NoEntries
=============================================================================
