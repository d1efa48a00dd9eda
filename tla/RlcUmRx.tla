------------------------------- MODULE RlcUmRx -------------------------------
(***************************************************************************)
(* The receiving half of an RLC UM entity, class rlc_um_lte_rx in          *)
(* lib/src/rlc/rlc_um_lte.cc.  PDUs are written and the reordering timer   *)
(* expires on the stack thread, so an action is a whole handler.           *)
(***************************************************************************)
EXTENDS RlcUmTx

VARIABLES
  vr_ur,            \* earliest SN still considered for reordering
  vr_ux,            \* SN after the one that started the reordering timer
  vr_uh,            \* SN after the highest one received
  rx_window,        \* SN -> PDU not yet reassembled
  rx_sdu,           \* cells of the SDU under reassembly
  vr_ur_in_rx_sdu,  \* SN of the last PDU that contributed to rx_sdu
  pdu_lost,         \* the timer has given up a PDU
  reordering_timer, \* TRUE while running
  pdcp_rx           \* SDUs handed to PDCP, in order

umRxVars == <<vr_ur, vr_ux, vr_uh, rx_window, rx_sdu, vr_ur_in_rx_sdu, pdu_lost,
              reordering_timer, pdcp_rx>>

\* A bearer that has carried PDUs up to SN s - 1 and gone quiet, or a new one.
UmRxQuiet(s) ==
  /\ vr_ur = s /\ vr_ux = s /\ vr_uh = s
  /\ vr_ur_in_rx_sdu \in {(s - 1) % MOD} \cup (IF s = 0 THEN {0} ELSE {})
  /\ rx_window = [sn \in {} |-> sn] /\ rx_sdu = << >> /\ pdu_lost = FALSE
  /\ reordering_timer = FALSE /\ pdcp_rx = << >>

-----------------------------------------------------------------------------
\* RX_MOD_BASE: the distance from the lower edge of the window below uh.
RxBase(x, uh) == (x - uh - W) % MOD

\* inside_reordering_window; everything is inside of an empty window.
InsideReorderingWindow(sn, uh, win) ==
  \/ DOMAIN win = {}
  \/ /\ RxBase(uh - W, uh) <= RxBase(sn, uh)
     /\ RxBase(sn, uh) < RxBase(uh, uh)

(***************************************************************************)
(* reassemble_rx_sdus works on the state                                   *)
(*   [ur, win, sdu, last, lost, out]                                       *)
(* where last is vr_ur_in_rx_sdu and out what PDCP has got.                *)
(***************************************************************************)
Reassembly == [ur |-> vr_ur, win |-> rx_window, sdu |-> rx_sdu,
               last |-> vr_ur_in_rx_sdu, lost |-> pdu_lost, out |-> pdcp_rx]

\* F of the value of x; the singleton set has TLC evaluate x once.
Apply(F(_), x) == CHOOSE y \in {F(v) : v \in {x}} : TRUE

\* pdu_belongs_to_rx_sdu
PduBelongsToRxSdu(st) == st.ur \in {(st.last + 1) % MOD, st.last}

Deliver(st, cells) == [st EXCEPT !.out = Append(@, st.sdu \o cells), !.sdu = << >>]

\* Mutant: the SN wraps around one too late.
EraseAndAdvanceMutant(st) ==
  [st EXCEPT !.win = [sn \in DOMAIN @ \ {st.ur} |-> st.win[sn]],
             !.ur  = IF @ = MOD THEN 0 ELSE @ + 1]

\* rx_window.erase(vr_ur) and the next SN.
EraseAndAdvance(st) ==
  [st EXCEPT !.win = [sn \in DOMAIN @ \ {st.ur} |-> st.win[sn]],
             !.ur  = (@ + 1) % MOD]

\* The last part of a PDU.
LastPart(st, pdu) ==
  LET cells == pdu.parts[Len(pdu.parts)]
      used  == [st EXCEPT !.last = st.ur]
  IN  IF ~pdu.end THEN [used EXCEPT !.sdu = @ \o cells]
      ELSE IF st.lost /\ ~pdu.start THEN [used EXCEPT !.sdu = << >>, !.lost = FALSE]
      ELSE [Deliver(used, cells) EXCEPT !.lost = FALSE]

\* The state after the parts of a PDU that end inside of it, each handled by Part.
InnerParts(st, pdu, Part(_, _)) ==
  LET after[i \in 0 .. Len(pdu.parts) - 1] ==
        IF i = 0 THEN st ELSE Apply(LAMBDA s : Part(s, i), after[i - 1])
  IN  after[Len(pdu.parts) - 1]

\* The first loop catches up with the lower edge of the window.  An SDU whose
\* start is missing takes the whole PDU with it, and so does a start of an SDU
\* after the end of one.
LowerEdgePdu(st) ==
  LET pdu == st.win[st.ur]
      Part(s, i) ==
        IF (s.lost /\ ~pdu.start) \/ s.ur # (s.last + 1) % MOD
        THEN [s EXCEPT !.sdu = << >>, !.lost = FALSE]
        ELSE [Deliver(s, pdu.parts[i]) EXCEPT !.lost = FALSE]
      startLost == st.sdu = << >> /\ ~pdu.start
      inner == IF startLost THEN st ELSE InnerParts(st, pdu, Part)
  IN  IF inner.sdu # << >> \/ pdu.start THEN LastPart(inner, pdu) ELSE inner

LowerEdge(st) ==
  IF st.ur \in DOMAIN st.win THEN EraseAndAdvance(LowerEdgePdu(st))
  ELSE [st EXCEPT !.sdu = << >>, !.ur = (@ + 1) % MOD]

\* Mutant: an SDU goes on in the next SN only as long as SNs do not wrap around.
InSequenceMutant(st) ==
  LET pdu == st.win[st.ur]
      cur == IF st.ur = st.last + 1 THEN st ELSE [st EXCEPT !.sdu = << >>]
      Part(s, i) == IF s.sdu = << >> /\ i = 1 /\ ~pdu.start THEN s
                    ELSE Deliver(s, pdu.parts[i])
  IN  LastPart(InnerParts(cur, pdu, Part), pdu)

\* The second loop takes PDUs until the next missing one.
InSequencePdu(st) ==
  LET pdu == st.win[st.ur]
      cur == IF PduBelongsToRxSdu(st) THEN st ELSE [st EXCEPT !.lost = FALSE, !.sdu = << >>]
      Part(s, i) ==
        IF s.sdu = << >> /\ i = 1 /\ ~pdu.start THEN [s EXCEPT !.lost = FALSE]
        ELSE [Deliver(s, pdu.parts[i]) EXCEPT !.lost = FALSE, !.last = s.ur]
      inner == InnerParts(cur, pdu, Part)
  IN  IF inner.sdu = << >> /\ Len(pdu.parts) = 1 /\ ~pdu.start THEN inner
      ELSE LastPart(inner, pdu)

InSequence(st) == EraseAndAdvance(InSequencePdu(st))

\* Repeat Step while Cond holds; no loop of this entity goes around more than
\* once through the sequence numbers.
Repeat(st, Cond(_), Step(_)) ==
  LET after[n \in 0 .. MOD] ==
        IF n = 0 THEN st
        ELSE Apply(LAMBDA s : IF Cond(s) THEN Step(s) ELSE s, after[n - 1])
  IN  after[MOD]

\* reassemble_rx_sdus
ReassembleRxSdus(st, uh) ==
  LET Outside(s) == ~InsideReorderingWindow(s.ur, uh, s.win)
      Present(s) == s.ur \in DOMAIN s.win
  IN  Repeat(Repeat(st, Outside, LowerEdge), Present, InSequence)

\* The state variables after reassembly.
Reassembled(st) ==
  /\ vr_ur' = st.ur /\ rx_window' = st.win /\ rx_sdu' = st.sdu
  /\ vr_ur_in_rx_sdu' = st.last /\ pdu_lost' = st.lost /\ pdcp_rx' = st.out

\* Mutant: the timer is not started again by a PDU that stops it, or when it expires.
StartReorderingMutant(st, uh, running) ==
  LET starts == ~running /\ ~reordering_timer /\ RxBase(uh, uh) > RxBase(st.ur, uh)
  IN  /\ reordering_timer' = (running \/ starts)
      /\ vr_ux' = IF starts THEN uh ELSE vr_ux

\* The timer is started when something is missing below uh.
StartReordering(st, uh, running) ==
  LET starts == ~running /\ RxBase(uh, uh) > RxBase(st.ur, uh)
  IN  /\ reordering_timer' = (running \/ starts)
      /\ vr_ux' = IF starts THEN uh ELSE vr_ux

\* A running timer is stopped.
ReorderingDone(st, uh) ==
  \/ RxBase(vr_ux, uh) <= RxBase(st.ur, uh)
  \/ ~InsideReorderingWindow(vr_ux, uh, st.win) /\ vr_ux # uh

\* handle_data_pdu: older than the window, or a duplicate.
DiscardPdu(pdu) ==
  /\ \/ RxBase(pdu.sn, vr_uh) < RxBase(vr_ur, vr_uh)
     \/ pdu.sn \in DOMAIN rx_window
  /\ UNCHANGED umRxVars

\* handle_data_pdu: a PDU of the window, or beyond it.
WritePdu(pdu) ==
  /\ RxBase(pdu.sn, vr_uh) >= RxBase(vr_ur, vr_uh)
  /\ pdu.sn \notin DOMAIN rx_window
  /\ LET win == [sn \in DOMAIN rx_window \cup {pdu.sn} |->
                   IF sn = pdu.sn THEN pdu ELSE rx_window[sn]]
         uh  == IF InsideReorderingWindow(pdu.sn, vr_uh, win) THEN vr_uh
                ELSE (pdu.sn + 1) % MOD
     IN  \E st \in {ReassembleRxSdus([Reassembly EXCEPT !.win = win], uh)} :
           /\ vr_uh' = uh
           /\ Reassembled(st)
           /\ StartReordering(st, uh, reordering_timer /\ ~ReorderingDone(st, uh))

\* timer_expired: give up the PDUs below vr_ux.
GiveUp ==
  LET Below(s) == RxBase(s.ur, vr_uh) < RxBase(vr_ux, vr_uh)
      Skip(s)  == ReassembleRxSdus([s EXCEPT !.ur = (@ + 1) % MOD], vr_uh)
  IN  Repeat([Reassembly EXCEPT !.lost = TRUE, !.sdu = << >>], Below, Skip)

ReorderingExpired ==
  /\ reordering_timer
  /\ \E st \in {GiveUp} : Reassembled(st) /\ StartReordering(st, vr_uh, FALSE)
  /\ UNCHANGED vr_uh

\* rlc_um_lte_rx::reestablish: a running timer is made to expire, which may start
\* it again; reset leaves the timer and vr_ur_in_rx_sdu as they are.
RxReestablish ==
  /\ \E st \in {IF reordering_timer THEN GiveUp ELSE Reassembly} :
       /\ pdcp_rx' = st.out
       /\ vr_ur_in_rx_sdu' = st.last
       /\ reordering_timer' = (/\ reordering_timer
                               /\ RxBase(vr_uh, vr_uh) > RxBase(st.ur, vr_uh))
  /\ vr_ur' = 0 /\ vr_ux' = 0 /\ vr_uh' = 0
  /\ rx_window' = [sn \in {} |-> sn] /\ rx_sdu' = << >> /\ pdu_lost' = FALSE
=============================================================================
