---------------------------- MODULE RlcAmRxProofs ----------------------------
(***************************************************************************)
(* Proofs about the receiving half of an RLC AM entity, for every window   *)
(* size W and every set of payloads and segments a peer may send.          *)
(*                                                                         *)
(* The argument.  Sequence numbers are compared by their offset from VR(R) *)
(* modulo 2 W.  Offsets of the state variables never exceed W, so that     *)
(* comparing them is comparing integers, and when VR(R) moves up by n the  *)
(* offset of everything not overtaken goes down by n (Shift).  The loops   *)
(* that move VR(R) and VR(MS) stop at the first SN not in the window, and  *)
(* VR(H) is not in the window, hence they stop at VR(H) at the latest      *)
(* (StopsBelow).                                                           *)
(*                                                                         *)
(* reassemble_rx_sdus cuts what it has at the ends of SDUs and delivers    *)
(* the pieces: every cell is in one of them or in what is left             *)
(* (PiecesHold), for each PDU that VR(R) passes (ReassembleKeeps), so that *)
(* handle_data_pdu loses none (HandleKeeps).                               *)
(***************************************************************************)
EXTENDS RlcAmRx, RlcAmCommonProofs, SequenceTheorems, FiniteSetTheorems

-----------------------------------------------------------------------------
\* A loop over the window that starts at f, at or below h, stops at or below h if
\* h is not in the window.
LEMMA StopsBelow ==
  ASSUME NEW win, NEW b \in SN, NEW f \in SN, NEW h \in SN, NEW m \in StopsAt(win, f),
         h \notin DOMAIN win, ModBase(f, b) <= ModBase(h, b)
  PROVE  /\ m \in SN /\ m \notin DOMAIN win
         /\ ModBase(f, b) <= ModBase(m, b)
         /\ ModBase(m, b) <= ModBase(h, b)
<1>1. m \in SN /\ m \notin DOMAIN win
  BY DEF StopsAt
<1>2. ~(ModBase(h, f) < ModBase(m, f))
  BY DEF StopsAt
<1>3. /\ ModBase(m, f) \in SN /\ ModBase(h, f) \in SN
      /\ ModBase(m, b) \in SN /\ ModBase(h, b) \in SN /\ ModBase(f, b) \in SN
  BY <1>1, ModBaseValue
<1>4. ModBase(h, f) = ModBase(h, b) - ModBase(f, b)
  BY Shift
<1>5. ModBase(m, f) = IF ModBase(m, b) >= ModBase(f, b)
                      THEN ModBase(m, b) - ModBase(f, b)
                      ELSE ModBase(m, b) - ModBase(f, b) + MOD
  BY <1>1, Shift
<1>6. MOD \in Nat /\ SN = 0 .. MOD - 1
  BY WindowAssumption DEF MOD, SN
<1> QED
  BY <1>1, <1>2, <1>3, <1>4, <1>5, <1>6

-----------------------------------------------------------------------------
(* The inductive invariant.                                                    *)

\* The state that handle_data_pdu works on keeps its type.
CoreTypeOK ==
  /\ vr_r \in SN /\ vr_mr \in SN /\ vr_x \in SN /\ vr_ms \in SN /\ vr_h \in SN
  /\ DOMAIN rx_window \subseteq SN
  /\ poll_received \in BOOLEAN /\ do_status \in BOOLEAN
  /\ reordering_timer \in BOOLEAN

RxCore == CoreTypeOK /\ VrOrder /\ ReorderingSound

RxInv == RxTypeOK /\ VrOrder /\ ReorderingSound

\* handle_data_pdu, the part on the state variables: what it computes for VR(H),
\* VR(MS), VR(R), VR(MR) and the window is in order again.
LEMMA HandleOrder ==
  ASSUME RxCore, NEW sn \in SN, InsideRxWindow(sn), sn \notin DOMAIN rx_window,
         NEW win, DOMAIN win = DOMAIN rx_window \cup {sn},
         NEW h, h = IF RxOff(sn) >= RxOff(vr_h) THEN Inc(sn) ELSE vr_h,
         NEW ms \in StopsAt(win, vr_ms), NEW r \in StopsAt(win, vr_r)
  PROVE  /\ h \in SN /\ ms \in SN /\ r \in SN
         /\ ModBase(h, r) = RxOff(h) - RxOff(r)
         /\ ModBase(ms, r) <= ModBase(h, r)
         /\ ModBase(h, r) <= W
         /\ RxOff(vr_h) <= RxOff(h) /\ RxOff(h) <= W
         /\ 0 <= RxOff(r) /\ RxOff(r) <= RxOff(h)
         /\ \A y \in DOMAIN win : RxOff(y) >= RxOff(r) =>
                /\ 0 < ModBase(y, r) /\ ModBase(y, r) < ModBase(h, r)
<1>1. /\ MOD = 2 * W /\ W \in Nat /\ W > 0 /\ SN = 0 .. MOD - 1
  BY WindowAssumption DEF MOD, SN
<1>2. /\ vr_r \in SN /\ vr_mr \in SN /\ vr_ms \in SN /\ vr_h \in SN
      /\ DOMAIN rx_window \subseteq SN /\ DOMAIN win \subseteq SN
  BY DEF RxCore, CoreTypeOK
<1>3. RxOff(vr_mr) = W
  BY <1>2, UpperEdge DEF RxCore, VrOrder, RxOff
<1>4. RxOff(sn) < W
  BY <1>3 DEF InsideRxWindow, Inside, RxOff
<1>5. /\ RxOff(sn) \in SN /\ RxOff(vr_h) \in SN /\ RxOff(vr_ms) \in SN
  BY <1>2, ModBaseValue DEF RxOff
<1>6. /\ h \in SN /\ RxOff(vr_h) <= RxOff(h) /\ RxOff(sn) < RxOff(h) /\ RxOff(h) <= W
  <2>1. RxOff(vr_h) <= W
    BY DEF RxCore, VrOrder
  <2>2. Inc(sn) \in SN /\ RxOff(Inc(sn)) = RxOff(sn) + 1
    BY <1>1, <1>2, <1>4, <1>5, IncOffset DEF RxOff
  <2>3. CASE RxOff(sn) >= RxOff(vr_h)
    BY <2>2, <2>3, <1>1, <1>4, <1>5
  <2>4. CASE ~(RxOff(sn) >= RxOff(vr_h))
    BY <2>1, <2>4, <1>1, <1>2, <1>5
  <2> QED
    BY <2>3, <2>4
<1>7. \A y \in DOMAIN win : RxOff(y) \in SN /\ RxOff(y) < RxOff(h)
  <2> TAKE y \in DOMAIN win
  <2>1. RxOff(y) \in SN /\ RxOff(h) \in SN
    BY <1>2, <1>6, ModBaseValue DEF RxOff
  <2>2. y \in DOMAIN rx_window => RxOff(y) < RxOff(vr_h)
    BY DEF RxCore, VrOrder
  <2> QED
    BY <2>1, <2>2, <1>1, <1>5, <1>6
<1>8. h \notin DOMAIN win
  BY <1>1, <1>7
<1>9. /\ r \in SN /\ r \notin DOMAIN win /\ RxOff(r) <= RxOff(h)
  <2>1. ModBase(vr_r, vr_r) <= ModBase(h, vr_r)
    <3>1. ModBase(vr_r, vr_r) = 0
      BY <1>2, ZeroOffset
    <3>2. ModBase(h, vr_r) \in SN
      BY <1>2, <1>6, ModBaseValue
    <3> QED
      BY <3>1, <3>2, <1>1
  <2> QED
    BY <2>1, <1>2, <1>6, <1>8, StopsBelow DEF RxOff
<1>10. /\ ms \in SN /\ ms \notin DOMAIN win /\ RxOff(ms) <= RxOff(h)
  <2>1. ModBase(vr_ms, vr_r) <= ModBase(h, vr_r)
    <3>1. RxOff(vr_ms) <= RxOff(vr_h) /\ RxOff(vr_h) <= RxOff(h)
      BY <1>6 DEF RxCore, VrOrder
    <3>2. RxOff(h) \in SN
      BY <1>2, <1>6, ModBaseValue DEF RxOff
    <3> QED
      BY <3>1, <3>2, <1>1, <1>5 DEF RxOff
  <2> QED
    BY <2>1, <1>2, <1>6, <1>8, StopsBelow DEF RxOff
<1>11. RxOff(r) \in SN /\ RxOff(ms) \in SN /\ RxOff(h) \in SN
  BY <1>2, <1>6, <1>9, <1>10, ModBaseValue DEF RxOff
<1>12. RxOff(ms) >= RxOff(r)
  BY <1>1, <1>10, <1>11 DEF StopsAt, RxOff
<1>13. ModBase(h, r) = RxOff(h) - RxOff(r)
  BY <1>2, <1>6, <1>9, <1>11, Shift DEF RxOff
<1>14. ModBase(ms, r) = RxOff(ms) - RxOff(r)
  BY <1>2, <1>9, <1>10, <1>12, Shift DEF RxOff
<1>15. \A y \in DOMAIN win : RxOff(y) >= RxOff(r) =>
          0 < ModBase(y, r) /\ ModBase(y, r) < ModBase(h, r)
  <2> SUFFICES ASSUME NEW y \in DOMAIN win, RxOff(y) >= RxOff(r)
               PROVE  0 < ModBase(y, r) /\ ModBase(y, r) < ModBase(h, r)
    OBVIOUS
  <2>1. ModBase(y, r) = RxOff(y) - RxOff(r)
    BY <1>2, <1>9, Shift DEF RxOff
  <2>2. ModBase(y, r) \in SN /\ ModBase(y, r) # 0
    BY <1>2, <1>9, ModBaseValue, ZeroOffset
  <2> QED
    BY <2>1, <2>2, <1>1, <1>7, <1>11, <1>13
<1> QED
  BY <1>1, <1>6, <1>9, <1>10, <1>11, <1>12, <1>13, <1>14, <1>15

\* handle_data_pdu keeps the core invariant.  The delicate part is a reordering
\* timer that goes on running: VR(R) has moved to r, and the test that VR(X) is
\* within the new window, or its upper edge, must exclude that r has overtaken it.
LEMMA HandlePreserves ==
  ASSUME RxCore, NEW sn \in SN, NEW p \in BOOLEAN, NEW cells, NEW ds \in BOOLEAN,
         HandleDataPdu(sn, p, cells, ds)
  PROVE  RxCore'
<1>1. CASE ~InsideRxWindow(sn) \/ sn \in DOMAIN rx_window
  BY <1>1 DEF HandleDataPdu, RxCore, CoreTypeOK, VrOrder, ReorderingSound, RxOff
<1>2. CASE InsideRxWindow(sn) /\ sn \notin DOMAIN rx_window
  <2> DEFINE win == With(rx_window, sn, cells)
             h   == IF RxOff(sn) >= RxOff(vr_h) THEN Inc(sn) ELSE vr_h
             mr(r) == (vr_mr + RxOff(r)) % MOD
             stopped(r) == ~reordering_timer \/ ReorderingDone(r, mr(r))
             starts(r) == stopped(r) /\ Above(h, r, r)
  <2>1. PICK ms \in StopsAt(win, vr_ms), r \in StopsAt(win, vr_r) :
           /\ vr_h' = h
           /\ vr_ms' = ms
           /\ poll_received' = (poll_received \/ p)
           /\ do_status' = (ds \/ (p /\ (\/ RxOff(sn) < RxOff(ms)
                                          \/ RxOff(sn) >= RxOff(vr_mr))))
           /\ vr_r' = r
           /\ vr_mr' = mr(r)
           /\ rx_window' = [y \in {z \in DOMAIN win : RxOff(z) >= RxOff(r)} |-> win[y]]
           /\ reordering_timer' = (~stopped(r) \/ starts(r))
           /\ vr_x' = IF starts(r) THEN h ELSE vr_x
    BY <1>2 DEF HandleDataPdu
  <2>2. DOMAIN win = DOMAIN rx_window \cup {sn}
    BY DEF With
  <2>3. /\ h \in SN /\ ms \in SN /\ r \in SN
        /\ ModBase(h, r) = RxOff(h) - RxOff(r)
        /\ ModBase(ms, r) <= ModBase(h, r)
        /\ ModBase(h, r) <= W
        /\ RxOff(vr_h) <= RxOff(h) /\ RxOff(h) <= W
        /\ 0 <= RxOff(r) /\ RxOff(r) <= RxOff(h)
        /\ \A y \in DOMAIN win : RxOff(y) >= RxOff(r) =>
               /\ 0 < ModBase(y, r) /\ ModBase(y, r) < ModBase(h, r)
    <3> HIDE DEF win, h
    <3>1. h = IF RxOff(sn) >= RxOff(vr_h) THEN Inc(sn) ELSE vr_h
      BY DEF h
    <3> QED
      BY <1>2, <2>2, <3>1, HandleOrder
  <2> HIDE DEF win, h
  <2>4. /\ MOD = 2 * W /\ W \in Nat /\ W > 0 /\ SN = 0 .. MOD - 1
    BY WindowAssumption DEF MOD, SN
  <2>5. /\ vr_r \in SN /\ vr_mr \in SN /\ vr_x \in SN /\ vr_h \in SN
        /\ DOMAIN rx_window \subseteq SN
    BY DEF RxCore, CoreTypeOK
  <2>6. mr(r) = (r + W) % MOD /\ mr(r) \in SN /\ ModBase(mr(r), r) = W
    <3>1. vr_mr = (vr_r + W) % MOD
      BY DEF RxCore, VrOrder
    <3> QED
      BY <3>1, <2>3, <2>5, UpperEdge DEF RxOff
  <2>7. CoreTypeOK'
    <3>1. /\ vr_r' \in SN /\ vr_mr' \in SN /\ vr_x' \in SN /\ vr_ms' \in SN /\ vr_h' \in SN
      BY <2>1, <2>3, <2>5, <2>6
    <3>2. DOMAIN rx_window' \subseteq SN
      BY <2>1, <2>2, <2>5
    <3>3. /\ poll_received' \in BOOLEAN /\ do_status' \in BOOLEAN
          /\ reordering_timer' \in BOOLEAN
      BY <2>1 DEF RxCore, CoreTypeOK
    <3> QED
      BY <3>1, <3>2, <3>3 DEF CoreTypeOK
  <2>8. VrOrder'
    <3>1. (vr_mr = (vr_r + W) % MOD)'
      BY <2>1, <2>6
    <3>2. (RxOff(vr_ms) <= RxOff(vr_h) /\ RxOff(vr_h) <= W)'
      BY <2>1, <2>3 DEF RxOff
    <3>3. (\A y \in DOMAIN rx_window : 0 < RxOff(y) /\ RxOff(y) < RxOff(vr_h))'
      BY <2>1, <2>3 DEF RxOff
    <3> QED
      BY <3>1, <3>2, <3>3 DEF VrOrder
  <2>9. ReorderingSound'
    <3>1. CASE starts(r)
      <4>1. ModBase(r, r) = 0
        BY <2>3, ZeroOffset
      <4>2. vr_r' = r /\ vr_x' = h /\ vr_h' = h
        BY <2>1, <3>1
      <4>3. ModBase(h, r) \in SN
        BY <2>3, ModBaseValue
      <4> QED
        BY <3>1, <4>1, <4>2, <4>3, <2>4 DEF ReorderingSound, RxOff, Above
    <3>2. CASE ~stopped(r)
      <4>1. /\ reordering_timer /\ vr_x # r
            /\ Inside(vr_x, r, mr(r)) \/ vr_x = mr(r)
        BY <3>2 DEF ReorderingDone
      <4>2. ModBase(vr_x, r) <= W
        <5>1. CASE vr_x = mr(r)
          BY <5>1, <2>4, <2>6
        <5>2. CASE Inside(vr_x, r, mr(r))
          <6>1. ModBase(vr_x, r) < W
            BY <5>2, <2>6 DEF Inside
          <6>2. ModBase(vr_x, r) \in SN
            BY <2>3, <2>5, ModBaseValue
          <6> QED
            BY <6>1, <6>2, <2>4
        <5> QED
          BY <4>1, <5>1, <5>2
      <4>3. 0 < RxOff(vr_x) /\ RxOff(vr_x) <= RxOff(vr_h)
        BY <4>1 DEF RxCore, ReorderingSound
      <4>4. /\ RxOff(vr_x) \in SN /\ RxOff(r) \in SN /\ RxOff(h) \in SN
            /\ RxOff(vr_h) \in SN /\ ModBase(vr_x, r) \in SN
        BY <2>3, <2>5, ModBaseValue DEF RxOff
      <4>5. ModBase(vr_x, r) = IF RxOff(vr_x) >= RxOff(r)
                               THEN RxOff(vr_x) - RxOff(r)
                               ELSE RxOff(vr_x) - RxOff(r) + MOD
        BY <2>3, <2>5, Shift DEF RxOff
      <4>6. ModBase(vr_x, r) # 0
        BY <4>1, <2>3, <2>5, ZeroOffset
      <4>7. 0 < ModBase(vr_x, r) /\ ModBase(vr_x, r) <= ModBase(h, r)
        BY <4>2, <4>3, <4>4, <4>5, <4>6, <2>3, <2>4
      <4>8. vr_r' = r /\ vr_x' = vr_x /\ vr_h' = h
        BY <2>1, <3>2
      <4> QED
        BY <4>7, <4>8 DEF ReorderingSound, RxOff
    <3>3. CASE stopped(r) /\ ~starts(r)
      BY <2>1, <3>3 DEF ReorderingSound
    <3> QED
      BY <3>1, <3>2, <3>3
  <2> QED
    BY <2>7, <2>8, <2>9 DEF RxCore
<1> QED
  BY <1>1, <1>2

\* A first segment moves VR(H) only, and upwards.
LEMMA FirstSegmentPreserves ==
  ASSUME RxInv, NEW sn \in SN, NEW seg, seg.p \in BOOLEAN, WriteFirstSegment(sn, seg)
  PROVE  RxInv'
<1> USE DEF RxInv
<1>1. /\ MOD = 2 * W /\ W \in Nat /\ W > 0 /\ SN = 0 .. MOD - 1
  BY WindowAssumption DEF MOD, SN
<1>2. /\ vr_r \in SN /\ vr_mr \in SN /\ vr_ms \in SN /\ vr_h \in SN /\ vr_x \in SN
      /\ DOMAIN rx_window \subseteq SN /\ DOMAIN rx_segments \subseteq SN
  BY DEF RxTypeOK
<1>3. RxOff(sn) < W
  BY <1>2, UpperEdge DEF WriteFirstSegment, InsideRxWindow, Inside, RxOff, VrOrder
<1>4. /\ RxOff(sn) \in SN /\ RxOff(vr_h) \in SN /\ RxOff(vr_ms) \in SN /\ RxOff(vr_x) \in SN
  BY <1>2, ModBaseValue DEF RxOff
<1>5. /\ vr_h' \in SN /\ RxOff(vr_h) <= RxOff(vr_h') /\ RxOff(vr_h') <= W
  <2>1. RxOff(vr_h) <= W
    BY DEF VrOrder
  <2>2. Inc(sn) \in SN /\ RxOff(Inc(sn)) = RxOff(sn) + 1
    BY <1>1, <1>2, <1>3, <1>4, IncOffset DEF RxOff
  <2>3. vr_h' = IF RxOff(sn) >= RxOff(vr_h) THEN Inc(sn) ELSE vr_h
    BY DEF WriteFirstSegment
  <2>4. CASE RxOff(sn) >= RxOff(vr_h)
    BY <2>2, <2>3, <2>4, <1>1, <1>3, <1>4
  <2>5. CASE ~(RxOff(sn) >= RxOff(vr_h))
    BY <2>1, <2>3, <2>5, <1>1, <1>2, <1>4
  <2> QED
    BY <2>4, <2>5
<1>6. /\ UNCHANGED <<vr_r, vr_mr, vr_x, vr_ms, rx_window, reordering_timer,
                     status_prohibit_timer>>
  BY DEF WriteFirstSegment
<1>7. RxTypeOK'
  <2>1. DOMAIN rx_segments' \subseteq SN
    BY <1>2 DEF WriteFirstSegment, With
  <2>2. poll_received' \in BOOLEAN /\ do_status' \in BOOLEAN
    BY DEF WriteFirstSegment, RxTypeOK
  <2> QED
    BY <2>1, <2>2, <1>2, <1>5, <1>6 DEF RxTypeOK
<1>8. RxOff(vr_h') \in SN
  BY <1>2, <1>5, ModBaseValue DEF RxOff
<1>9. \A y \in DOMAIN rx_window : /\ RxOff(y) \in SN
                                  /\ 0 < RxOff(y) /\ RxOff(y) < RxOff(vr_h)
  BY <1>2, ModBaseValue DEF RxOff, VrOrder
<1>10. VrOrder'
  <2>1. RxOff(vr_ms) <= RxOff(vr_h')
    BY <1>1, <1>4, <1>5, <1>8 DEF VrOrder
  <2>2. \A y \in DOMAIN rx_window : 0 < RxOff(y) /\ RxOff(y) < RxOff(vr_h')
    BY <1>1, <1>4, <1>5, <1>8, <1>9
  <2> QED
    BY <2>1, <2>2, <1>5, <1>6 DEF VrOrder, RxOff
<1>11. ReorderingSound'
  <2>1. reordering_timer => 0 < RxOff(vr_x) /\ RxOff(vr_x) <= RxOff(vr_h')
    BY <1>1, <1>4, <1>5, <1>8 DEF ReorderingSound
  <2> QED
    BY <2>1, <1>6 DEF ReorderingSound, RxOff
<1> QED
  BY <1>7, <1>10, <1>11

\* timer_expired: VR(MS) moves from VR(X) to the next SN not received, which is
\* VR(H) at most, and VR(X) follows VR(H) if the timer is started again.
LEMMA ReorderingExpiredPreserves ==
  ASSUME RxInv, ReorderingExpired
  PROVE  RxInv'
<1> USE DEF RxInv
<1>1. /\ MOD = 2 * W /\ W \in Nat /\ W > 0 /\ SN = 0 .. MOD - 1
  BY WindowAssumption DEF MOD, SN
<1>2. /\ vr_r \in SN /\ vr_mr \in SN /\ vr_ms \in SN /\ vr_h \in SN /\ vr_x \in SN
      /\ DOMAIN rx_window \subseteq SN
  BY DEF RxTypeOK
<1>3. PICK ms \in StopsAt(rx_window, vr_x) :
         /\ vr_ms' = ms
         /\ reordering_timer' = (RxOff(vr_h) > RxOff(ms))
         /\ vr_x' = IF RxOff(vr_h) > RxOff(ms) THEN vr_h ELSE vr_x
  BY DEF ReorderingExpired, Above, RxOff
<1>4. /\ UNCHANGED <<vr_r, vr_mr, vr_h, rx_window, rx_segments, poll_received,
                     status_prohibit_timer>>
      /\ do_status' = (do_status \/ poll_received)
      /\ reordering_timer
  BY DEF ReorderingExpired
<1>5. RxOff(vr_h) \in SN
  BY <1>2, ModBaseValue DEF RxOff
<1>6. vr_h \notin DOMAIN rx_window
  BY <1>1, <1>5 DEF VrOrder
<1>7. 0 < RxOff(vr_x) /\ RxOff(vr_x) <= RxOff(vr_h)
  BY <1>4 DEF ReorderingSound
<1>8. ms \in SN /\ RxOff(ms) <= RxOff(vr_h) /\ RxOff(ms) \in SN
  <2>1. ms \in SN /\ RxOff(ms) <= RxOff(vr_h)
    BY <1>2, <1>6, <1>7, StopsBelow DEF RxOff
  <2> QED
    BY <2>1, <1>2, ModBaseValue DEF RxOff
<1>9. RxTypeOK'
  BY <1>2, <1>3, <1>4, <1>8 DEF RxTypeOK
<1>10. VrOrder'
  BY <1>3, <1>4, <1>8 DEF VrOrder, RxOff
<1>11. ReorderingSound'
  <2>1. CASE RxOff(vr_h) > RxOff(ms)
    BY <2>1, <1>1, <1>3, <1>4, <1>5, <1>8 DEF ReorderingSound, RxOff
  <2>2. CASE ~(RxOff(vr_h) > RxOff(ms))
    BY <2>2, <1>3 DEF ReorderingSound
  <2> QED
    BY <2>1, <2>2
<1> QED
  BY <1>9, <1>10, <1>11

\* A new, re-established or stopped entity satisfies the invariant.
LEMMA QuietInv ==
  ASSUME NEW s \in SN,
         vr_r = s /\ vr_x = s /\ vr_ms = s /\ vr_h = s /\ vr_mr = (s + W) % MOD,
         rx_window = NoEntries /\ rx_segments = NoEntries,
         poll_received = FALSE /\ do_status = FALSE,
         reordering_timer = FALSE /\ status_prohibit_timer = FALSE
  PROVE  RxInv
<1>1. ModBase(s, s) = 0 /\ (s + W) % MOD \in SN
  BY ZeroOffset, UpperEdge
<1>2. DOMAIN NoEntries = {}
  BY DEF NoEntries
<1>3. W \in Nat
  BY WindowAssumption
<1>4. RxTypeOK
  BY <1>1, <1>2 DEF RxTypeOK
<1>5. RxOff(vr_ms) = 0 /\ RxOff(vr_h) = 0 /\ DOMAIN rx_window = {}
  BY <1>1, <1>2 DEF RxOff
<1>6. VrOrder
  BY <1>3, <1>5 DEF VrOrder
<1> QED
  BY <1>4, <1>6 DEF RxInv, ReorderingSound

\* The receiver starts in such a state (the members' initial values).
LEMMA InitInv == RxInit => RxInv
<1> SUFFICES ASSUME NEW s \in Starts, RxQuiet(s)
             PROVE  RxInv
  BY DEF RxInit
<1>1. s \in SN
  BY StartsAssumption
<1> QED
  BY <1>1, QuietInv DEF RxQuiet

\* What is left of the invariant once handle_data_pdu has kept the core of it.
LEMMA CoreMakesInv ==
  ASSUME RxInv, RxCore', DOMAIN rx_segments' \subseteq SN, UNCHANGED status_prohibit_timer
  PROVE  RxInv'
BY DEF RxInv, RxCore, CoreTypeOK, RxTypeOK

\* handle_data_pdu on a whole PDU.
LEMMA WholePduPreserves ==
  ASSUME RxInv, NEW sn \in SN, NEW p \in BOOLEAN, NEW cells, WritePdu(sn, p, cells)
  PROVE  RxInv'
<1>1. RxCore /\ DOMAIN rx_segments \subseteq SN /\ do_status \in BOOLEAN
  BY DEF RxInv, RxCore, CoreTypeOK, RxTypeOK
<1>2. RxCore'
  BY <1>1, HandlePreserves DEF WritePdu
<1>3. DOMAIN rx_segments' \subseteq SN
  BY <1>1 DEF WritePdu, ClearSegments
<1> QED
  BY <1>2, <1>3, CoreMakesInv DEF WritePdu

\* handle_data_pdu_segment outside of the window only takes note of the poll.
LEMMA OldSegmentPreserves ==
  ASSUME RxInv, NEW sn, NEW p \in BOOLEAN, WriteOldSegment(sn, p)
  PROVE  RxInv'
BY DEF WriteOldSegment, RxInv, RxTypeOK, VrOrder, ReorderingSound, RxOff

\* handle_data_pdu_segment, further segment: it may complete its PDU.
LEMMA NextSegmentPreserves ==
  ASSUME RxInv, NEW sn \in SN, NEW seg, WriteNextSegment(sn, seg)
  PROVE  RxInv'
<1> DEFINE list == Pruned(AddSegment(rx_segments[sn], seg))
           ds   == do_status \/ seg.p
           p    == \E so \in DOMAIN list : list[so].p
<1>1. ds \in BOOLEAN /\ p \in BOOLEAN
  OBVIOUS
<1>2. RxCore /\ DOMAIN rx_segments \subseteq SN
  BY DEF RxInv, RxCore, CoreTypeOK, RxTypeOK
<1> HIDE DEF list
<1>3. CASE IsComplete(list)
  <2>1. /\ HandleDataPdu(sn, p, Concatenated(list), ds)
        /\ rx_segments' = Without(ClearSegments(rx_segments), sn)
        /\ UNCHANGED status_prohibit_timer
    BY <1>3 DEF WriteNextSegment, list
  <2>2. RxCore'
    <3> HIDE DEF ds, p
    <3> QED
      BY <2>1, <1>1, <1>2, HandlePreserves
  <2>3. DOMAIN rx_segments' \subseteq SN
    BY <2>1, <1>2 DEF Without, ClearSegments
  <2> QED
    BY <2>1, <2>2, <2>3, CoreMakesInv
<1>4. CASE ~IsComplete(list)
  <2>1. /\ rx_segments' = [rx_segments EXCEPT ![sn] = list]
        /\ do_status' = ds
        /\ UNCHANGED <<vr_r, vr_mr, vr_x, vr_ms, vr_h, rx_window, poll_received,
                       reordering_timer, status_prohibit_timer>>
    BY <1>4 DEF WriteNextSegment, list
  <2>2. do_status' \in BOOLEAN /\ DOMAIN rx_segments' \subseteq SN
    BY <2>1, <1>1, <1>2
  <2> QED
    BY <2>1, <2>2 DEF RxInv, RxTypeOK, VrOrder, ReorderingSound, RxOff
<1> QED
  BY <1>3, <1>4

\* Reading a status PDU, or failing to, and the prohibit timer leave the state
\* variables alone.
LEMMA StatusStepsPreserve ==
  ASSUME RxInv,
         \/ \E k, st : BuildStatusPdu(k, st)
         \/ StatusDoesNotFit
         \/ StatusProhibitExpired
  PROVE  RxInv'
<1>1. ASSUME NEW k, NEW st, BuildStatusPdu(k, st)
      PROVE  RxInv'
  BY <1>1, RxAssumption
     DEF BuildStatusPdu, RxInv, RxTypeOK, VrOrder, ReorderingSound, RxOff
<1>2. CASE StatusDoesNotFit
  BY <1>2 DEF StatusDoesNotFit, RxInv, RxTypeOK, VrOrder, ReorderingSound, RxOff
<1>3. CASE StatusProhibitExpired
  BY <1>3 DEF StatusProhibitExpired, RxInv, RxTypeOK, VrOrder, ReorderingSound, RxOff
<1> QED
  BY <1>1, <1>2, <1>3

\* Every step of the receiver keeps the invariant.
LEMMA StepInv == RxInv /\ [RxNext]_rxVars => RxInv'
<1> SUFFICES ASSUME RxInv, [RxNext]_rxVars
             PROVE  RxInv'
  OBVIOUS
<1>1. ASSUME NEW sn \in SN, NEW p \in BOOLEAN, NEW cells \in Payloads, WritePdu(sn, p, cells)
      PROVE  RxInv'
  BY <1>1, WholePduPreserves
<1>2. ASSUME NEW sn \in SN, NEW seg \in Segments, WriteOldSegment(sn, seg.p)
      PROVE  RxInv'
  BY <1>2, OldSegmentPreserves, RxAssumption
<1>3. ASSUME NEW sn \in SN, NEW seg \in Segments, WriteFirstSegment(sn, seg)
      PROVE  RxInv'
  BY <1>3, FirstSegmentPreserves, RxAssumption
<1>4. ASSUME NEW sn \in SN, NEW seg \in Segments, WriteNextSegment(sn, seg)
      PROVE  RxInv'
  BY <1>4, NextSegmentPreserves
<1>5. CASE ReorderingExpired
  BY <1>5, ReorderingExpiredPreserves
<1>6. ASSUME NEW k, NEW st, BuildStatusPdu(k, st)
      PROVE  RxInv'
  BY <1>6, StatusStepsPreserve
<1>7. CASE StatusDoesNotFit \/ StatusProhibitExpired
  BY <1>7, StatusStepsPreserve
<1>8. CASE RxStop
  <2>1. 0 \in SN /\ (0 + W) % MOD = W
    BY WindowAssumption DEF SN, MOD
  <2>2. /\ vr_r' = 0 /\ vr_x' = 0 /\ vr_ms' = 0 /\ vr_h' = 0 /\ vr_mr' = (0 + W) % MOD
        /\ rx_window' = NoEntries /\ rx_segments' = NoEntries
        /\ poll_received' = FALSE /\ do_status' = FALSE
        /\ reordering_timer' = FALSE /\ status_prohibit_timer' = FALSE
    BY <1>8, <2>1 DEF RxStop
  <2>3. ModBase(0, 0) = 0 /\ (0 + W) % MOD \in SN
    BY <2>1, ZeroOffset, UpperEdge
  <2>4. DOMAIN NoEntries = {} /\ W \in Nat
    BY WindowAssumption DEF NoEntries
  <2>5. RxTypeOK'
    BY <2>1, <2>2, <2>3, <2>4 DEF RxTypeOK
  <2>6. (RxOff(vr_ms) = 0 /\ RxOff(vr_h) = 0 /\ DOMAIN rx_window = {})'
    BY <2>2, <2>3, <2>4 DEF RxOff
  <2>7. VrOrder'
    BY <2>2, <2>4, <2>6 DEF VrOrder
  <2> QED
    BY <2>2, <2>5, <2>7 DEF RxInv, ReorderingSound
<1>9. CASE UNCHANGED rxVars
  BY <1>9 DEF rxVars, RxInv, RxTypeOK, VrOrder, ReorderingSound, RxOff
<1> QED
  BY <1>1, <1>2, <1>3, <1>4, <1>5, <1>6, <1>7, <1>8, <1>9
     DEF RxNext, RxWrite, RxSendStatus

-----------------------------------------------------------------------------
(* Status PDUs.                                                                *)

\* The NACKs for a set of missing offsets name exactly the missing ones of the SNs
\* whose offsets the set decides (the loop of get_status_pdu over vr_r .. vr_ms).
LEMMA NacksAreMissing ==
  ASSUME RxInv, NEW sn \in SN, NEW M \in SUBSET Missing,
         RxOff(sn) < RxOff(vr_ms), RxOff(sn) \in Missing => RxOff(sn) \in M
  PROVE  sn \in DOMAIN rx_window <=> sn \notin {(vr_r + j) % MOD : j \in M}
<1>1. /\ MOD = 2 * W /\ W \in Nat /\ W > 0 /\ SN = 0 .. MOD - 1
  BY WindowAssumption DEF MOD, SN
<1>2. vr_r \in SN /\ vr_ms \in SN
  BY DEF RxInv, RxTypeOK
<1>3. RxOff(sn) \in SN /\ RxOff(vr_ms) \in SN /\ (vr_r + RxOff(sn)) % MOD = sn
  BY <1>2, ModBaseValue, SnOf DEF RxOff
<1>4. RxOff(sn) \in Missing <=> sn \notin DOMAIN rx_window
  BY <1>1, <1>3 DEF Missing
<1>5. \A j \in M : (vr_r + j) % MOD \notin DOMAIN rx_window
  BY DEF Missing
<1> QED
  BY <1>3, <1>4, <1>5

\* In every state with the core invariant, whatever get_status_pdu reports within a
\* grant of k NACKs is true of the window.
LEMMA StatusOfInv == RxInv => StatusSound
<1> SUFFICES ASSUME RxInv, NEW k \in 0 .. W, NEW st \in StatusPdus(k)
             PROVE  /\ Cardinality(Missing) < W => IsValidStatusPdu(st, vr_r)
                    /\ \A sn \in SN : RxOff(sn) < RxOff(st.ack_sn) =>
                          (sn \in DOMAIN rx_window <=> sn \notin st.nacks)
  BY DEF StatusSound
<1>1. /\ MOD = 2 * W /\ W \in Nat /\ W > 0 /\ SN = 0 .. MOD - 1
  BY WindowAssumption DEF MOD, SN
<1>2. vr_r \in SN /\ vr_ms \in SN /\ vr_h \in SN
  BY DEF RxInv, RxTypeOK
<1>3. RxOff(vr_ms) \in SN /\ RxOff(vr_ms) <= W
  <2>1. RxOff(vr_ms) \in SN /\ RxOff(vr_h) \in SN
    BY <1>2, ModBaseValue DEF RxOff
  <2> QED
    BY <2>1, <1>1 DEF RxInv, VrOrder
<1>4. Missing \subseteq SN /\ \A j \in Missing : j < RxOff(vr_ms)
  BY <1>1, <1>3 DEF Missing
<1>5. RxOff(vr_r) = 0
  BY <1>2, ZeroOffset DEF RxOff
<1>6. CASE Cardinality(Missing) <= k /\ Cardinality(Missing) < W
  <2>1. st.ack_sn = vr_ms /\ st.nacks = {(vr_r + j) % MOD : j \in Missing}
    BY <1>6 DEF StatusPdus
  <2>2. ASSUME NEW sn \in st.nacks
        PROVE  ModBase(vr_ms, sn) <= W /\ sn # vr_ms
    <3>1. PICK j \in Missing : sn = (vr_r + j) % MOD
      BY <2>1, <2>2
    <3>2. j \in SN /\ j < RxOff(vr_ms)
      BY <1>4
    <3>3. sn \in SN /\ RxOff(sn) = j
      BY <3>1, <3>2, <1>2, SnAt DEF RxOff
    <3>4. ModBase(vr_ms, sn) = RxOff(vr_ms) - j
      BY <3>2, <3>3, <1>1, <1>2, <1>3, Shift DEF RxOff
    <3> QED
      BY <3>2, <3>3, <3>4, <1>1, <1>3
  <2>3. IsValidStatusPdu(st, vr_r)
    BY <2>1, <2>2, <1>3 DEF IsValidStatusPdu, RxOff
  <2>4. ASSUME NEW sn \in SN, RxOff(sn) < RxOff(st.ack_sn)
        PROVE  sn \in DOMAIN rx_window <=> sn \notin st.nacks
    BY <2>1, <2>4, NacksAreMissing
  <2> QED
    BY <2>3, <2>4
<1>7. CASE Cardinality(Missing) <= k /\ ~(Cardinality(Missing) < W)
  <2>1. st.ack_sn = vr_r
    BY <1>7 DEF StatusPdus
  <2>2. ASSUME NEW sn \in SN PROVE ~(RxOff(sn) < RxOff(st.ack_sn))
    <3>1. RxOff(sn) \in SN
      BY <1>2, ModBaseValue DEF RxOff
    <3> QED
      BY <2>1, <3>1, <1>1, <1>5
  <2> QED
    BY <1>7, <2>2
<1>8. CASE ~(Cardinality(Missing) <= k)
  <2> DEFINE cut(ca) == [ack_sn |-> (vr_r + ca[2]) % MOD,
                         nacks  |-> {(vr_r + j) % MOD : j \in {m \in Missing : m < ca[1]}}]
             none == [ack_sn |-> vr_r, nacks |-> {}]
  <2>1. PICK ca \in Missing \X (0 .. W) :
           /\ ca[2] < ca[1] \/ ca[2] = 0
           /\ st = IF IsValidStatusPdu(cut(ca), vr_r) THEN cut(ca) ELSE none
    BY <1>8 DEF StatusPdus
  <2>2. CASE IsValidStatusPdu(cut(ca), vr_r)
    <3>1. st.ack_sn = (vr_r + ca[2]) % MOD
          /\ st.nacks = {(vr_r + j) % MOD : j \in {m \in Missing : m < ca[1]}}
      BY <2>1, <2>2
    <3>2. ca[1] \in SN /\ ca[1] < RxOff(vr_ms) /\ ca[2] \in SN
      <4>1. ca[1] \in Missing /\ ca[2] \in 0 .. W
        BY <2>1
      <4>2. 0 .. W \subseteq SN
        BY <1>1
      <4> QED
        BY <4>1, <4>2, <1>4
    <3>3. RxOff(st.ack_sn) = ca[2]
      BY <3>1, <3>2, <1>2, SnAt DEF RxOff
    <3>4. ASSUME NEW sn \in SN, RxOff(sn) < RxOff(st.ack_sn)
          PROVE  sn \in DOMAIN rx_window <=> sn \notin st.nacks
      <4>1. RxOff(sn) \in SN
        BY <1>2, ModBaseValue DEF RxOff
      <4>2. RxOff(sn) < ca[1] /\ RxOff(sn) < RxOff(vr_ms)
        BY <2>1, <3>2, <3>3, <3>4, <4>1, <1>1, <1>3
      <4> DEFINE M == {m \in Missing : m < ca[1]}
      <4>3. M \in SUBSET Missing /\ (RxOff(sn) \in Missing => RxOff(sn) \in M)
        BY <4>2
      <4> HIDE DEF M
      <4>4. sn \in DOMAIN rx_window <=> sn \notin {(vr_r + j) % MOD : j \in M}
        BY <4>2, <4>3, NacksAreMissing
      <4> QED
        BY <3>1, <4>4 DEF M
    <3> QED
      BY <2>1, <2>2, <3>4
  <2>3. CASE ~IsValidStatusPdu(cut(ca), vr_r)
    <3>1. st.ack_sn = vr_r /\ st.nacks = {}
      BY <2>1, <2>3
    <3>2. IsValidStatusPdu(st, vr_r)
      BY <3>1, <1>1, <1>5 DEF IsValidStatusPdu, RxOff
    <3>3. ASSUME NEW sn \in SN PROVE ~(RxOff(sn) < RxOff(st.ack_sn))
      <4>1. RxOff(sn) \in SN
        BY <1>2, ModBaseValue DEF RxOff
      <4> QED
        BY <3>1, <4>1, <1>1, <1>5
    <3> QED
      BY <3>2, <3>3
  <2> QED
    BY <2>2, <2>3
<1> QED
  BY <1>6, <1>7, <1>8

-----------------------------------------------------------------------------
(* Theorems.                                                                   *)

\* RxInv holds in every state a receiver reaches.
THEOREM InvHolds == RxSpec => []RxInv
BY InitInv, StepInv, PTL DEF RxSpec

\* The state variables of the receiver keep their types (members of rlc_am_lte_rx).
THEOREM TypeCorrect == RxSpec => []RxTypeOK
BY InvHolds, PTL DEF RxInv

\* handle_data_pdu, handle_data_pdu_segment and timer_expired keep VR(R) <= VR(MS)
\* <= VR(H) <= VR(MR) modulo 1024, for any sequence of PDUs and any window size.
THEOREM OrderHolds == RxSpec => []VrOrder
BY InvHolds, PTL DEF RxInv

\* A running reordering timer watches a gap between VR(R) and VR(H).
THEOREM ReorderingHolds == RxSpec => []ReorderingSound
BY InvHolds, PTL DEF RxInv

\* get_status_pdu, for every grant: a status PDU is valid unless all of a window is
\* missing, and of the SNs from VR(R) up to ACK_SN it reports exactly those missing
\* that are not in the window.
THEOREM StatusHolds == RxSpec => []StatusSound
BY InvHolds, StatusOfInv, PTL

-----------------------------------------------------------------------------
(* The receiver watches every gap: GapHasTimer.                                *)
(*                                                                             *)
(* A whole PDU leaves the reordering timer running unless VR(R) has reached    *)
(* VR(H), and then VR(MS) has reached it too, by VrOrder.  An expiry that does *)
(* not start the timer again has moved VR(MS) to VR(H).  Only a first segment  *)
(* opens a gap without the timer.  Its list is never emptied while VR(R)       *)
(* stays, as the scan of add_segment_and_check keeps the segment with the      *)
(* lowest offset; but it might be taken out when the PDU is completed.  If     *)
(* that PDU is new, handle_data_pdu starts the timer.  If the window held it   *)
(* already, another one is still incomplete: the segments that keep the gap    *)
(* open belong to an SN that the window does not hold, which the invariant     *)
(* has to add.                                                                 *)

Waiting(sn) == /\ sn \in DOMAIN rx_segments /\ sn \notin DOMAIN rx_window
               /\ DOMAIN rx_segments[sn] # {}

SegmentsTypeOK == \A sn \in DOMAIN rx_segments : DOMAIN rx_segments[sn] \subseteq Nat

GapInv == /\ SegmentsTypeOK
          /\ vr_ms # vr_h => reordering_timer \/ \E sn \in SN : Waiting(sn)

-----------------------------------------------------------------------------
\* The scan of add_segment_and_check erases no list altogether, and adds nothing.
LEMMA PrunedNotEmpty ==
  ASSUME NEW list, DOMAIN list \in SUBSET Nat, NEW seg, seg.so \in Nat
  PROVE  /\ DOMAIN Pruned(AddSegment(list, seg)) # {}
         /\ DOMAIN Pruned(AddSegment(list, seg)) \subseteq Nat
<1> DEFINE l == AddSegment(list, seg)
<1>1. DOMAIN l \in SUBSET Nat /\ DOMAIN l # {}
  BY DEF AddSegment, With
<1> HIDE DEF l
<1>2. PICK x \in DOMAIN l : \A y \in DOMAIN l : x <= y
  BY <1>1, LowestOf
<1>3. \A y \in DOMAIN l : ~(y < x)
  BY <1>1, <1>2
<1>4. x \in DOMAIN Pruned(l) /\ DOMAIN Pruned(l) \subseteq DOMAIN l
  BY <1>3 DEF Pruned
<1> QED
  BY <1>1, <1>4 DEF l

\* Two SNs with the same offset are equal (RX_MOD_BASE).
LEMMA OffsetInjective ==
  ASSUME NEW a \in SN, NEW b \in SN, NEW c \in SN, ModBase(a, c) = ModBase(b, c)
  PROVE  a = b
<1>1. MOD \in Nat /\ SN = 0 .. MOD - 1
  BY WindowAssumption DEF MOD, SN
<1>2. /\ ModBase(a, c) = IF a >= c THEN a - c ELSE a - c + MOD
      /\ ModBase(b, c) = IF b >= c THEN b - c ELSE b - c + MOD
  BY ModBaseValue
<1>3. (IF a >= c THEN a - c ELSE a - c + MOD) = (IF b >= c THEN b - c ELSE b - c + MOD)
  BY <1>2
<1> QED
  BY <1>1, <1>3

\* handle_data_pdu on a new PDU: the timer runs afterwards, or there is no gap.
LEMMA HandleCloses ==
  ASSUME RxInv', NEW sn, NEW p, NEW cells, NEW ds, HandleDataPdu(sn, p, cells, ds),
         InsideRxWindow(sn), sn \notin DOMAIN rx_window
  PROVE  reordering_timer' \/ vr_ms' = vr_h'
<1> DEFINE win == With(rx_window, sn, cells)
           h   == IF RxOff(sn) >= RxOff(vr_h) THEN Inc(sn) ELSE vr_h
           stopped(r) == ~reordering_timer \/ ReorderingDone(r, (vr_mr + RxOff(r)) % MOD)
<1>1. PICK ms \in StopsAt(win, vr_ms), r \in StopsAt(win, vr_r) :
         /\ vr_h' = h /\ vr_ms' = ms /\ vr_r' = r
         /\ reordering_timer' = (~stopped(r) \/ (stopped(r) /\ Above(h, r, r)))
  BY DEF HandleDataPdu
<1> HIDE DEF stopped, h
<1>2. /\ vr_r' \in SN /\ vr_ms' \in SN /\ vr_h' \in SN
      /\ ModBase(vr_ms', vr_r') <= ModBase(vr_h', vr_r')
  BY DEF RxInv, RxTypeOK, VrOrder, RxOff
<1>3. SUFFICES ASSUME ~reordering_timer'
               PROVE  vr_ms' = vr_h'
  OBVIOUS
<1>4. ~(ModBase(vr_h', vr_r') > ModBase(vr_r', vr_r'))
  BY <1>1, <1>3 DEF Above
<1>5. /\ ModBase(vr_r', vr_r') = 0
      /\ ModBase(vr_ms', vr_r') \in Nat /\ ModBase(vr_h', vr_r') \in Nat
  BY <1>2, ZeroOffset, ModBaseValue DEF SN
<1>6. ModBase(vr_ms', vr_r') = ModBase(vr_h', vr_r')
  BY <1>2, <1>4, <1>5
<1> QED
  BY <1>2, <1>6, OffsetInjective

\* timer_expired: the timer runs again, or VR(MS) has reached VR(H).
LEMMA ExpiryCloses ==
  ASSUME RxInv, RxInv', ReorderingExpired
  PROVE  reordering_timer' \/ vr_ms' = vr_h'
<1>1. /\ reordering_timer' = Above(vr_h, vr_ms', vr_r)
      /\ vr_h' = vr_h /\ vr_r' = vr_r
  BY DEF ReorderingExpired
<1>2. /\ vr_r' \in SN /\ vr_ms' \in SN /\ vr_h' \in SN
      /\ ModBase(vr_ms', vr_r') <= ModBase(vr_h', vr_r')
  BY DEF RxInv, RxTypeOK, VrOrder, RxOff
<1>3. ModBase(vr_ms', vr_r') \in Nat /\ ModBase(vr_h', vr_r') \in Nat
  BY <1>2, ModBaseValue DEF SN
<1>4. CASE Above(vr_h, vr_ms', vr_r)
  BY <1>1, <1>4
<1>5. CASE ~Above(vr_h, vr_ms', vr_r)
  <2>1. ModBase(vr_ms', vr_r') = ModBase(vr_h', vr_r')
    BY <1>1, <1>2, <1>3, <1>5 DEF Above
  <2> QED
    BY <1>2, <2>1, OffsetInjective
<1> QED
  BY <1>4, <1>5

-----------------------------------------------------------------------------
\* A bearer starts without a gap and without segments.
LEMMA GapInit == RxInit => GapInv
BY DEF RxInit, RxQuiet, NoEntries, GapInv, SegmentsTypeOK

\* What a step that leaves the sequence numbers, the timer, the window and the
\* segments alone does to the invariant: nothing.
LEMMA GapUnchanged ==
  ASSUME GapInv,
         UNCHANGED <<vr_ms, vr_h, reordering_timer, rx_window, rx_segments>>
  PROVE  GapInv'
BY DEF GapInv, SegmentsTypeOK, Waiting

\* The lists that reassemble_rx_sdus empties are still lists.
LEMMA ClearTyped ==
  ASSUME SegmentsTypeOK
  PROVE  \A y \in DOMAIN ClearSegments(rx_segments) :
            DOMAIN ClearSegments(rx_segments)[y] \subseteq Nat
BY DEF ClearSegments, SegmentsTypeOK, NoEntries

\* write_pdu with a whole PDU keeps the invariant: a PDU that is dropped changes
\* nothing, and clears no list, as VR(R) stays.
LEMMA GapWritePdu ==
  ASSUME RxInv, RxInv', GapInv, NEW sn, NEW p, NEW cells, WritePdu(sn, p, cells)
  PROVE  GapInv'
<1>1. /\ HandleDataPdu(sn, p, cells, do_status)
      /\ rx_segments' = ClearSegments(rx_segments)
  BY DEF WritePdu
<1>2. SegmentsTypeOK'
  BY <1>1, ClearTyped DEF GapInv, SegmentsTypeOK
<1>3. CASE InsideRxWindow(sn) /\ sn \notin DOMAIN rx_window
  BY <1>1, <1>2, <1>3, HandleCloses DEF GapInv
<1>4. CASE ~InsideRxWindow(sn) \/ sn \in DOMAIN rx_window
  <2>1. UNCHANGED <<vr_r, vr_ms, vr_h, reordering_timer, rx_window>>
    BY <1>1, <1>4 DEF HandleDataPdu
  <2>2. \A y \in SN : ~(RxOff(y) < ModBase(vr_r', vr_r))
    <3>1. vr_r \in SN /\ ModBase(vr_r, vr_r) = 0
      BY ZeroOffset DEF RxInv, RxTypeOK
    <3> QED
      BY <2>1, <3>1, ModBaseValue DEF RxOff, SN
  <2>3. /\ DOMAIN rx_segments' = DOMAIN rx_segments
        /\ \A y \in SN \cap DOMAIN rx_segments : rx_segments'[y] = rx_segments[y]
    BY <1>1, <2>2 DEF ClearSegments
  <2> QED
    BY <1>2, <2>1, <2>3 DEF GapInv, Waiting
<1> QED
  BY <1>3, <1>4

\* handle_data_pdu_segment, first segment: it is what the gap it opens waits for.
LEMMA GapFirstSegment ==
  ASSUME RxInv, GapInv, NEW sn \in SN, NEW seg \in Segments, WriteFirstSegment(sn, seg)
  PROVE  GapInv'
<1>1. /\ sn \notin DOMAIN rx_segments
      /\ rx_segments' = With(rx_segments, sn, AddSegment(NoEntries, seg))
      /\ vr_h' = IF RxOff(sn) >= RxOff(vr_h) THEN Inc(sn) ELSE vr_h
      /\ UNCHANGED <<vr_ms, rx_window, reordering_timer>>
  BY DEF WriteFirstSegment
<1>2. /\ DOMAIN AddSegment(NoEntries, seg) = {seg.so}
      /\ seg.so \in Nat
  BY RxAssumption DEF AddSegment, NoEntries, With
<1>3. /\ DOMAIN rx_segments' = DOMAIN rx_segments \cup {sn}
      /\ \A y \in DOMAIN rx_segments : rx_segments'[y] = rx_segments[y]
      /\ DOMAIN rx_segments'[sn] = {seg.so}
  BY <1>1, <1>2 DEF With
<1>4. SegmentsTypeOK'
  BY <1>2, <1>3 DEF GapInv, SegmentsTypeOK
<1>5. CASE RxOff(sn) >= RxOff(vr_h)
  <2>1. sn \notin DOMAIN rx_window
    <3>1. RxOff(sn) \in Int /\ RxOff(vr_h) \in Int
      BY ModBaseValue DEF RxInv, RxTypeOK, RxOff, SN
    <3> QED
      BY <1>5, <3>1 DEF RxInv, VrOrder
  <2>2. Waiting(sn)'
    BY <1>1, <1>3, <2>1 DEF Waiting
  <2> QED
    BY <1>4, <2>2 DEF GapInv
<1>6. CASE ~(RxOff(sn) >= RxOff(vr_h))
  <2>1. \A y \in SN : Waiting(y) => Waiting(y)'
    BY <1>1, <1>3 DEF Waiting
  <2> QED
    BY <1>1, <1>4, <1>6, <2>1 DEF GapInv
<1> QED
  BY <1>5, <1>6

\* handle_data_pdu_segment, further segment: its list does not get empty, and if it
\* is taken out for a PDU that the window has, the gap waits for another one.
LEMMA GapNextSegment ==
  ASSUME RxInv, RxInv', GapInv, NEW sn \in SN, NEW seg \in Segments,
         WriteNextSegment(sn, seg)
  PROVE  GapInv'
<1> DEFINE list == Pruned(AddSegment(rx_segments[sn], seg))
           ds   == do_status \/ seg.p
           p    == \E so \in DOMAIN list : list[so].p
<1>1. sn \in DOMAIN rx_segments /\ seg.so \in Nat
  BY RxAssumption DEF WriteNextSegment
<1>2. DOMAIN list # {} /\ DOMAIN list \subseteq Nat
  BY <1>1, PrunedNotEmpty DEF GapInv, SegmentsTypeOK
<1> HIDE DEF list
<1>3. CASE IsComplete(list)
  <2>1. /\ InsideRxWindow(sn)
        /\ HandleDataPdu(sn, p, Concatenated(list), ds)
        /\ rx_segments' = Without(ClearSegments(rx_segments), sn)
    BY <1>3 DEF WriteNextSegment, list
  <2>2. SegmentsTypeOK'
    BY <2>1, ClearTyped DEF GapInv, SegmentsTypeOK, Without
  <2> HIDE DEF ds, p
  <2>3. CASE sn \notin DOMAIN rx_window
    BY <2>1, <2>2, <2>3, HandleCloses DEF GapInv
  <2>4. CASE sn \in DOMAIN rx_window
    <3>1. UNCHANGED <<vr_r, vr_ms, vr_h, reordering_timer, rx_window>>
      BY <2>1, <2>4 DEF HandleDataPdu
    <3>2. \A y \in SN : ~(RxOff(y) < ModBase(vr_r', vr_r))
      <4>1. vr_r \in SN /\ ModBase(vr_r, vr_r) = 0
        BY ZeroOffset DEF RxInv, RxTypeOK
      <4> QED
        BY <3>1, <4>1, ModBaseValue DEF RxOff, SN
    <3>3. /\ DOMAIN rx_segments' = DOMAIN rx_segments \ {sn}
          /\ \A y \in SN \cap (DOMAIN rx_segments \ {sn}) : rx_segments'[y] = rx_segments[y]
      BY <2>1, <3>2 DEF ClearSegments, Without
    <3>4. \A y \in SN : Waiting(y) => Waiting(y)'
      BY <2>4, <3>1, <3>3 DEF Waiting
    <3> QED
      BY <2>2, <3>1, <3>4 DEF GapInv
  <2> QED
    BY <2>3, <2>4
<1>4. CASE ~IsComplete(list)
  <2>1. /\ rx_segments' = [rx_segments EXCEPT ![sn] = list]
        /\ UNCHANGED <<vr_ms, vr_h, rx_window, reordering_timer>>
    BY <1>4 DEF WriteNextSegment, list
  <2>2. /\ DOMAIN rx_segments' = DOMAIN rx_segments
        /\ rx_segments'[sn] = list
        /\ \A y \in DOMAIN rx_segments \ {sn} : rx_segments'[y] = rx_segments[y]
    BY <1>1, <2>1
  <2>3. SegmentsTypeOK'
    BY <1>2, <2>2 DEF GapInv, SegmentsTypeOK
  <2>4. \A y \in SN : Waiting(y) => Waiting(y)'
    BY <1>2, <2>1, <2>2 DEF Waiting
  <2> QED
    BY <2>1, <2>3, <2>4 DEF GapInv
<1> QED
  BY <1>3, <1>4

-----------------------------------------------------------------------------
\* Every step of the receiver keeps the invariant.
LEMMA GapStep == RxInv /\ RxInv' /\ GapInv /\ [RxNext]_rxVars => GapInv'
<1> SUFFICES ASSUME RxInv, RxInv', GapInv, [RxNext]_rxVars
             PROVE  GapInv'
  OBVIOUS
<1>1. ASSUME NEW sn \in SN, NEW p \in BOOLEAN, NEW cells \in Payloads, WritePdu(sn, p, cells)
      PROVE  GapInv'
  BY <1>1, GapWritePdu
<1>2. ASSUME NEW sn \in SN, NEW seg \in Segments, WriteOldSegment(sn, seg.p)
      PROVE  GapInv'
  BY <1>2, GapUnchanged DEF WriteOldSegment
<1>3. ASSUME NEW sn \in SN, NEW seg \in Segments, WriteFirstSegment(sn, seg)
      PROVE  GapInv'
  BY <1>3, GapFirstSegment
<1>4. ASSUME NEW sn \in SN, NEW seg \in Segments, WriteNextSegment(sn, seg)
      PROVE  GapInv'
  BY <1>4, GapNextSegment
<1>5. CASE ReorderingExpired
  <2>1. UNCHANGED rx_segments
    BY <1>5 DEF ReorderingExpired
  <2> QED
    BY <1>5, <2>1, ExpiryCloses DEF GapInv, SegmentsTypeOK
<1>6. ASSUME NEW k, NEW st, BuildStatusPdu(k, st)
      PROVE  GapInv'
  BY <1>6, GapUnchanged DEF BuildStatusPdu
<1>7. CASE StatusDoesNotFit
  BY <1>7, GapUnchanged DEF StatusDoesNotFit
<1>8. CASE StatusProhibitExpired
  BY <1>8, GapUnchanged DEF StatusProhibitExpired
<1>9. CASE RxStop
  BY <1>9 DEF RxStop, GapInv, SegmentsTypeOK, NoEntries
<1>10. CASE UNCHANGED rxVars
  BY <1>10, GapUnchanged DEF rxVars
<1> QED
  BY <1>1, <1>2, <1>3, <1>4, <1>5, <1>6, <1>7, <1>8, <1>9, <1>10
     DEF RxNext, RxWrite, RxSendStatus

\* Every gap below VR(H) that VR(MS) has not reached is watched by the reordering
\* timer, unless segments wait for it: handle_data_pdu and timer_expired leave none
\* behind, for any window size and anything the peer sends.
THEOREM GapHolds == RxSpec => []GapHasTimer
<1>1. RxSpec => []GapInv
  BY InvHolds, GapInit, GapStep, PTL DEF RxSpec
<1>2. GapInv => GapHasTimer
  <2>1. \A sn \in SN : Waiting(sn) => rx_segments[sn] # NoEntries
    BY DEF Waiting, NoEntries
  <2> QED
    BY <2>1 DEF GapInv, GapHasTimer, Waiting
<1> QED
  BY <1>1, <1>2, PTL

-----------------------------------------------------------------------------
(* Reassembly loses nothing.                                                   *)

\* cuts is where SDUs end in a run of cells.  Place numbers them from the front, Nth is the
\* j-th of them, and the j-th SDU begins at Begin.
Place(cuts, i) == Cardinality({c \in cuts : c <= i})

Nth(cuts, j) == CHOOSE i \in cuts : Place(cuts, i) = j

Begin(cuts, j) == IF j = 1 THEN 1 ELSE Nth(cuts, j - 1) + 1

\* Every SDU that ends in a run of cells is found by its number.
LEMMA NthCut ==
  ASSUME NEW l \in Nat, NEW cuts \in SUBSET (0 .. l)
  PROVE  /\ Cardinality(cuts) \in Nat
         /\ \A j \in 1 .. Cardinality(cuts) : Nth(cuts, j) \in cuts
<1> DEFINE n == Cardinality(cuts)
           f == [i \in cuts |-> Place(cuts, i)]
<1>1. IsFiniteSet(cuts) /\ n \in Nat
  <2>1. IsFiniteSet(0 .. l)
    BY FS_Interval
  <2> QED
    BY <2>1, FS_Subset, FS_CardinalityType
<1>2. ASSUME NEW i \in cuts
      PROVE  /\ IsFiniteSet({c \in cuts : c <= i})
             /\ Place(cuts, i) \in 1 .. n
  <2> DEFINE S == {c \in cuts : c <= i}
  <2>1. S \in SUBSET cuts /\ i \in S
    OBVIOUS
  <2> HIDE DEF S
  <2>2. IsFiniteSet(S) /\ Cardinality(S) <= n /\ Cardinality(S) \in Nat
    BY <1>1, <2>1, FS_Subset, FS_CardinalityType
  <2>3. Cardinality(S) # 0
    BY <2>1, <2>2, FS_EmptySet
  <2>4. Cardinality(S) \in 1 .. n
    BY <1>1, <2>2, <2>3
  <2> QED
    BY <2>2, <2>4 DEF S, Place
<1>3. ASSUME NEW i \in cuts, NEW j \in cuts, i < j PROVE Place(cuts, i) # Place(cuts, j)
  <2> DEFINE S == {c \in cuts : c <= i}
             T == {c \in cuts : c <= j}
  <2>1. S \in SUBSET T /\ j \in T /\ j \notin S
    <3>1. \A c \in cuts : c \in Int
      OBVIOUS
    <3>2. i \in Int /\ j \in Int /\ ~(j <= i)
      BY <1>3, <3>1
    <3>3. \A c \in cuts : c <= i => c <= j
      BY <3>1, <3>2
    <3>4. j <= j
      BY <3>2
    <3> QED
      BY <3>2, <3>3, <3>4, Zenon
  <2>2. IsFiniteSet(T)
    BY <1>2
  <2> HIDE DEF S, T
  <2>3. Cardinality(T) = Cardinality(S) => T = S
    BY <2>1, <2>2, FS_Subset
  <2>4. Cardinality(T) # Cardinality(S)
    BY <2>1, <2>3
  <2>5. Place(cuts, i) = Cardinality(S) /\ Place(cuts, j) = Cardinality(T)
    BY DEF S, T, Place
  <2> QED
    BY <2>4, <2>5
<1>4. f \in Injection(cuts, 1 .. n)
  <2>1. f \in [cuts -> 1 .. n]
    BY <1>2
  <2>2. ASSUME NEW i \in cuts, NEW j \in cuts, f[i] = f[j] PROVE i = j
    <3>1. i \in Int /\ j \in Int
      OBVIOUS
    <3>2. ~(i < j) /\ ~(j < i)
      BY <1>3, <2>2
    <3> QED
      BY <3>1, <3>2
  <2> HIDE DEF f
  <2> QED
    BY <2>1, <2>2 DEF Injection, IsInjective
<1>5. f \in Surjection(cuts, 1 .. n)
  <2>1. IsFiniteSet(1 .. n) /\ Cardinality(1 .. n) = n
    <3>1. 1 \in Int /\ n \in Int
      BY <1>1
    <3>2. /\ IsFiniteSet(1 .. n)
          /\ Cardinality(1 .. n) = IF 1 > n THEN 0 ELSE n - 1 + 1
      BY <3>1, FS_Interval
    <3> QED
      BY <1>1, <3>2
  <2> HIDE DEF f, n
  <2>2. Cardinality(cuts) = Cardinality(1 .. n)
    BY <2>1 DEF n
  <2> QED
    BY <1>4, <2>1, <2>2, FS_Injection
<1>6. ASSUME NEW j \in 1 .. n PROVE Nth(cuts, j) \in cuts
  <2>1. \E i \in cuts : f[i] = j
    BY <1>5 DEF Surjection
  <2>2. \E i \in cuts : Place(cuts, i) = j
    BY <2>1
  <2> QED
    BY <2>2 DEF Nth
<1> QED
  BY <1>1, <1>6

\* The members of the run of cells q.
Cells(q) == {q[x] : x \in DOMAIN q}

\* The pieces into which the cuts divide a run of cells, and what is left of it.
Piece(all, cuts, j) == SubSeq(all, Begin(cuts, j), Nth(cuts, j))

Remainder(all, cuts) ==
  LET n == Cardinality(cuts) IN IF n = 0 THEN all ELSE SubSeq(all, Nth(cuts, n) + 1, Len(all))

\* Every cell is in one of them.
LEMMA PiecesHold ==
  ASSUME NEW T, NEW all \in Seq(T), NEW cuts \in SUBSET (0 .. Len(all))
  PROVE  /\ Cardinality(cuts) \in Nat
         /\ Remainder(all, cuts) \in Seq(T)
         /\ \A j \in 1 .. Cardinality(cuts) : Piece(all, cuts, j) \in Seq(T)
         /\ \A c \in Cells(all) : \/ c \in Cells(Remainder(all, cuts))
                                 \/ \E j \in 1 .. Cardinality(cuts) :
                                       c \in Cells(Piece(all, cuts, j))
<1> DEFINE l == Len(all)
           n == Cardinality(cuts)
<1>1. l \in Nat /\ DOMAIN all = 1 .. l /\ \A x \in 1 .. l : all[x] \in T
  OBVIOUS
<1>2. /\ n \in Nat /\ \A j \in 1 .. n : Nth(cuts, j) \in cuts
  BY <1>1, NthCut
<1>3. \A j \in 1 .. n : Nth(cuts, j) \in 0 .. l
  <2>1. \A i \in cuts : i \in 0 .. l
    OBVIOUS
  <2> QED
    BY <1>2, <2>1
<1>4. ASSUME NEW a \in 1 .. l + 1, NEW b \in 0 .. l
      PROVE  /\ SubSeq(all, a, b) \in Seq(T)
             /\ \A x \in a .. b : all[x] \in Cells(SubSeq(all, a, b))
  <2> DEFINE s == SubSeq(all, a, b)
  <2>1. a \in Int /\ b \in Int /\ \A x \in a .. b : all[x] \in T
    BY <1>1
  <2>2. /\ s \in Seq(T) /\ Len(s) = IF a <= b THEN b - a + 1 ELSE 0
        /\ \A x \in 1 .. b - a + 1 : s[x] = all[a + x - 1]
    BY <2>1, SubSeqProperties
  <2> HIDE DEF s
  <2>3. ASSUME NEW x \in a .. b PROVE all[x] \in Cells(s)
    <3>1. x - a + 1 \in 1 .. b - a + 1 /\ a + (x - a + 1) - 1 = x /\ a <= b
      BY <2>1
    <3>2. s[x - a + 1] = all[x]
      BY <2>2, <3>1
    <3>3. x - a + 1 \in DOMAIN s
      BY <2>2, <3>1
    <3> QED
      BY <3>2, <3>3 DEF Cells
  <2> QED
    BY <2>2, <2>3 DEF s
<1> HIDE DEF l, n
<1>5. ASSUME NEW j \in 1 .. n PROVE Begin(cuts, j) \in 1 .. l + 1 /\ Nth(cuts, j) \in 0 .. l
  <2>1. CASE j = 1
    BY <1>1, <1>3, <2>1 DEF Begin
  <2>2. CASE j # 1
    <3>1. j - 1 \in 1 .. n
      BY <1>2, <2>2
    <3> QED
      BY <1>1, <1>3, <2>2, <3>1 DEF Begin
  <2> QED
    BY <2>1, <2>2
<1>6. \A j \in 1 .. n : Piece(all, cuts, j) \in Seq(T)
  BY <1>4, <1>5 DEF Piece
<1>7. ASSUME n # 0 PROVE n \in 1 .. n /\ Nth(cuts, n) + 1 \in 1 .. l + 1
  BY <1>1, <1>2, <1>3, <1>7
<1>8. Remainder(all, cuts) \in Seq(T)
  <2>1. CASE n = 0
    BY <2>1 DEF Remainder, n
  <2>2. CASE n # 0
    <3>1. l \in 0 .. l
      BY <1>1
    <3>2. Remainder(all, cuts) = SubSeq(all, Nth(cuts, n) + 1, l)
      BY <2>2 DEF Remainder, n, l
    <3> QED
      BY <1>4, <1>7, <2>2, <3>1, <3>2
  <2> QED
    BY <2>1, <2>2
<1>9. ASSUME NEW x \in 1 .. l
      PROVE  \/ all[x] \in Cells(Remainder(all, cuts))
             \/ \E j \in 1 .. n : all[x] \in Cells(Piece(all, cuts, j))
  <2> DEFINE S == {j \in Nat : j \in 1 .. n /\ x <= Nth(cuts, j)}
  <2>1. CASE S # {}
    <3>1. PICK j \in S : \A k \in S : j <= k
      BY <2>1, LowestOf
    <3>2. j \in 1 .. n /\ x <= Nth(cuts, j)
      BY <3>1
    <3>3. Begin(cuts, j) <= x
      <4>1. CASE j = 1
        BY <4>1 DEF Begin
      <4>2. CASE j # 1
        <5>1. j - 1 \in 1 .. n /\ j - 1 \in Nat /\ ~(j <= j - 1)
          BY <1>2, <3>2, <4>2
        <5>2. ~(x <= Nth(cuts, j - 1))
          BY <3>1, <5>1
        <5>3. Nth(cuts, j - 1) \in 0 .. l
          BY <1>3, <5>1
        <5> QED
          BY <1>1, <4>2, <5>2, <5>3 DEF Begin
      <4> QED
        BY <4>1, <4>2
    <3>4. x \in Begin(cuts, j) .. Nth(cuts, j)
      BY <1>1, <1>5, <3>2, <3>3
    <3>5. all[x] \in Cells(Piece(all, cuts, j))
      BY <1>4, <1>5, <3>2, <3>4 DEF Piece
    <3> QED
      BY <3>2, <3>5
  <2>2. CASE S = {} /\ n = 0
    BY <1>1, <2>2 DEF Remainder, n, Cells
  <2>3. CASE S = {} /\ n # 0
    <3>1. n \in 1 .. n /\ n \in Nat /\ Nth(cuts, n) \in 0 .. l
      BY <1>2, <1>3, <2>3
    <3>2. ~(x <= Nth(cuts, n))
      BY <2>3, <3>1
    <3>3. x \in Nth(cuts, n) + 1 .. l /\ l \in 0 .. l
      BY <1>1, <3>1, <3>2
    <3>4. Remainder(all, cuts) = SubSeq(all, Nth(cuts, n) + 1, l)
      BY <2>3 DEF Remainder, n, l
    <3> QED
      BY <1>4, <1>7, <2>3, <3>3, <3>4
  <2> QED
    BY <2>1, <2>2, <2>3
<1> QED
  BY <1>1, <1>2, <1>6, <1>8, <1>9 DEF n, Cells
\* Where SDUs end in all, the SDU under way with the payload cells after it.
CutsOf(all, cells) ==
  IF cells = << >> THEN {Len(all)} ELSE {i \in 1 .. Len(all) : all[i].e}

\* reassemble_rx_sdus on one PDU cuts the run of cells into SDUs and a remainder.
LEMMA Append1Is ==
  ASSUME NEW st, NEW cells, NEW all, all = st.sdu \o cells, NEW cuts, cuts = CutsOf(all, cells)
  PROVE  Append1(st, cells) =
           [sdu |-> Remainder(all, cuts),
            out |-> st.out \o [j \in 1 .. Cardinality(cuts) |-> Piece(all, cuts, j)]]
BY DEF Append1, Remainder, Piece, Begin, Nth, Place, CutsOf

\* What reassemble_rx_sdus has in hand: SDUs delivered and the one under way.
States(T) == [sdu : Seq(T), out : Seq(Seq(T))]

\* The cells among them.
InState(st) == Cells(st.sdu) \cup UNION {Cells(st.out[i]) : i \in DOMAIN st.out}

\* reassemble_rx_sdus on one PDU: every cell is delivered or kept.
LEMMA Append1Keeps ==
  ASSUME NEW T, NEW st \in States(T), NEW cells \in Seq(T)
  PROVE  /\ Append1(st, cells) \in States(T)
         /\ InState(st) \subseteq InState(Append1(st, cells))
         /\ Cells(cells) \subseteq InState(Append1(st, cells))
<1> DEFINE all == st.sdu \o cells
           cuts == CutsOf(all, cells)
           n == Cardinality(cuts)
           more == [j \in 1 .. n |-> Piece(all, cuts, j)]
           out == st.out \o more
           rest == Remainder(all, cuts)
<1>1. st.sdu \in Seq(T) /\ st.out \in Seq(Seq(T))
  BY DEF States
<1>2. /\ all \in Seq(T)
      /\ Cells(st.sdu) \subseteq Cells(all) /\ Cells(cells) \subseteq Cells(all)
  <2>1. /\ all \in Seq(T) /\ Len(all) = Len(st.sdu) + Len(cells)
        /\ \A i \in 1 .. Len(st.sdu) + Len(cells) :
              all[i] = IF i <= Len(st.sdu) THEN st.sdu[i] ELSE cells[i - Len(st.sdu)]
    BY <1>1, ConcatProperties
  <2>2. /\ Len(st.sdu) \in Nat /\ Len(cells) \in Nat
        /\ DOMAIN st.sdu = 1 .. Len(st.sdu) /\ DOMAIN cells = 1 .. Len(cells)
        /\ DOMAIN all = 1 .. Len(all)
    BY <1>1, <2>1
  <2> HIDE DEF all
  <2>3. ASSUME NEW i \in DOMAIN st.sdu PROVE st.sdu[i] \in Cells(all)
    <3>1. i \in DOMAIN all /\ all[i] = st.sdu[i]
      BY <2>1, <2>2
    <3> QED
      BY <3>1 DEF Cells
  <2>4. ASSUME NEW i \in DOMAIN cells PROVE cells[i] \in Cells(all)
    <3>1. /\ Len(st.sdu) + i \in DOMAIN all /\ ~(Len(st.sdu) + i <= Len(st.sdu))
          /\ (Len(st.sdu) + i) - Len(st.sdu) = i
      BY <2>1, <2>2
    <3>2. all[Len(st.sdu) + i] = cells[i]
      BY <2>1, <2>2, <3>1
    <3> QED
      BY <3>1, <3>2 DEF Cells
  <2> QED
    BY <2>1, <2>3, <2>4 DEF Cells
<1> HIDE DEF all
<1>3. Len(all) \in Nat /\ cuts \in SUBSET (0 .. Len(all))
  <2>1. Len(all) \in Nat
    BY <1>2
  <2> QED
    BY <2>1 DEF CutsOf
<1> HIDE DEF cuts
<1>4. /\ n \in Nat /\ rest \in Seq(T) /\ \A j \in 1 .. n : Piece(all, cuts, j) \in Seq(T)
      /\ \A c \in Cells(all) : \/ c \in Cells(rest)
                              \/ \E j \in 1 .. n : c \in Cells(Piece(all, cuts, j))
  BY <1>2, <1>3, PiecesHold
<1>5. Append1(st, cells) = [sdu |-> rest, out |-> out]
  BY Append1Is DEF all, cuts
<1> HIDE DEF rest, n
<1>6. more \in Seq(Seq(T)) /\ Len(more) = n /\ \A j \in 1 .. n : more[j] = Piece(all, cuts, j)
  <2>1. more \in [1 .. n -> Seq(T)]
    BY <1>4
  <2> QED
    BY <1>4, <2>1
<1> HIDE DEF more
<1>7. /\ out \in Seq(Seq(T)) /\ Len(out) = Len(st.out) + n
      /\ \A i \in 1 .. Len(st.out) + n : out[i] = IF i <= Len(st.out) THEN st.out[i]
                                                 ELSE more[i - Len(st.out)]
  BY <1>1, <1>6, ConcatProperties
<1>8. /\ Len(st.out) \in Nat /\ DOMAIN st.out = 1 .. Len(st.out)
      /\ DOMAIN out = 1 .. Len(st.out) + n
  BY <1>1, <1>7
<1> HIDE DEF out
<1>9. \A i \in DOMAIN st.out : i \in DOMAIN out /\ out[i] = st.out[i]
  BY <1>4, <1>7, <1>8
<1>10. \A j \in 1 .. n : \E i \in DOMAIN out : out[i] = Piece(all, cuts, j)
  <2> TAKE j \in 1 .. n
  <2>1. /\ Len(st.out) + j \in DOMAIN out /\ ~(Len(st.out) + j <= Len(st.out))
        /\ (Len(st.out) + j) - Len(st.out) = j
    BY <1>4, <1>8
  <2>2. out[Len(st.out) + j] = more[j]
    BY <1>7, <1>8, <2>1
  <2> QED
    BY <1>6, <2>1, <2>2
<1> DEFINE r == [sdu |-> rest, out |-> out]
<1>11. r.sdu = rest /\ r.out = out /\ r \in States(T)
  BY <1>4, <1>7 DEF States
<1>12. InState(r) = Cells(rest) \cup UNION {Cells(out[i]) : i \in DOMAIN out}
  BY <1>11 DEF InState
<1>13. Cells(all) \subseteq InState(r)
  BY <1>4, <1>10, <1>12
<1>14. InState(st) \subseteq InState(r) /\ Cells(cells) \subseteq InState(r)
  <2>1. UNION {Cells(st.out[i]) : i \in DOMAIN st.out} \subseteq InState(r)
    BY <1>9, <1>12
  <2> QED
    BY <1>2, <1>13, <2>1 DEF InState
<1> QED
  BY <1>5, <1>11, <1>14

\* The states reassemble_rx_sdus goes through on the payloads p[1], p[2], ...
Chain(T, p, st, n) == {b \in [0 .. n -> States(T)] :
                         b[0] = st /\ \A i \in 1 .. n : b[i] = Append1(b[i - 1], p[i])}

\* It gets to the end, however many payloads there are.
LEMMA ChainExists ==
  ASSUME NEW T, NEW l \in Nat, NEW p \in [1 .. l -> Seq(T)], NEW st \in States(T)
  PROVE  Chain(T, p, st, l) # {}
<1> DEFINE Bad == {n \in Nat : n <= l /\ Chain(T, p, st, n) = {}}
<1>1. SUFFICES ASSUME Bad # {} PROVE FALSE
  OBVIOUS
<1>2. PICK n \in Bad : \A m \in Bad : n <= m
  BY <1>1, LowestOf
<1>3. n \in Nat /\ n <= l /\ Chain(T, p, st, n) = {}
  BY <1>2
<1>4. CASE n = 0
  <2>1. [i \in 0 .. 0 |-> st] \in Chain(T, p, st, 0)
    BY DEF Chain
  <2> QED
    BY <1>3, <1>4, <2>1
<1>5. CASE n # 0
  <2>1. n - 1 \in Nat /\ Chain(T, p, st, n - 1) # {}
    <3>1. n - 1 \in Nat /\ n - 1 <= l /\ ~(n <= n - 1)
      BY <1>3, <1>5
    <3>2. n - 1 \notin Bad
      BY <1>2, <3>1
    <3> QED
      BY <3>1, <3>2
  <2>2. PICK b \in [0 .. n - 1 -> States(T)] :
               b[0] = st /\ \A i \in 1 .. n - 1 : b[i] = Append1(b[i - 1], p[i])
    BY <2>1 DEF Chain
  <2> DEFINE next == Append1(b[n - 1], p[n])
             b2 == [i \in 0 .. n |-> IF i = n THEN next ELSE b[i]]
  <2>3. n \in 1 .. l /\ n - 1 \in 0 .. n - 1 /\ p[n] \in Seq(T) /\ b[n - 1] \in States(T)
    BY <2>1, <2>2, <1>3, <1>5
  <2>4. next \in States(T)
    BY <2>3, Append1Keeps
  <2>5. b2 \in [0 .. n -> States(T)] /\ b2[0] = st
    BY <2>2, <2>4, <1>3, <1>5
  <2>6. ASSUME NEW i \in 1 .. n PROVE b2[i] = Append1(b2[i - 1], p[i])
    <3>1. i \in 0 .. n /\ i - 1 \in 0 .. n /\ i - 1 # n
      BY <1>3
    <3>2. b2[i - 1] = b[i - 1]
      BY <3>1
    <3>3. CASE i = n
      BY <3>1, <3>2, <3>3
    <3>4. CASE i # n
      <4>1. i \in 1 .. n - 1 /\ b2[i] = b[i]
        BY <1>3, <3>1, <3>4
      <4> QED
        BY <2>2, <3>2, <4>1
    <3> QED
      BY <3>3, <3>4
  <2>7. b2 \in Chain(T, p, st, n)
    BY <2>5, <2>6 DEF Chain
  <2> QED
    BY <1>3, <2>7
<1> QED
  BY <1>4, <1>5

\* What it has taken in is there in every later state.
LEMMA ChainKeeps ==
  ASSUME NEW T, NEW l \in Nat, NEW p \in [1 .. l -> Seq(T)], NEW st,
         NEW b \in Chain(T, p, st, l), NEW i \in 0 .. l, NEW k \in 0 .. l, i <= k
  PROVE  InState(b[i]) \subseteq InState(b[k])
<1> DEFINE Bad == {n \in Nat : i <= n /\ n <= l /\ ~(InState(b[i]) \subseteq InState(b[n]))}
<1>1. /\ b \in [0 .. l -> States(T)]
      /\ \A n \in 1 .. l : b[n] = Append1(b[n - 1], p[n])
  BY DEF Chain
<1>2. SUFFICES ASSUME Bad # {} PROVE FALSE
  OBVIOUS
<1>3. PICK n \in Bad : \A m \in Bad : n <= m
  BY <1>2, LowestOf
<1>4. n \in Nat /\ i <= n /\ n <= l /\ ~(InState(b[i]) \subseteq InState(b[n]))
  BY <1>3
<1>5. n # i
  BY <1>4
<1>6. n - 1 \in 0 .. l /\ i <= n - 1 /\ n \in 1 .. l /\ ~(n <= n - 1)
  BY <1>4, <1>5
<1>7. InState(b[i]) \subseteq InState(b[n - 1])
  BY <1>3, <1>6
<1>8. InState(b[n - 1]) \subseteq InState(b[n])
  <2>1. b[n - 1] \in States(T) /\ p[n] \in Seq(T) /\ b[n] = Append1(b[n - 1], p[n])
    BY <1>1, <1>6
  <2> QED
    BY <2>1, Append1Keeps
<1> QED
  BY <1>4, <1>7, <1>8

\* reassemble_rx_sdus from VR(R) up to the next SN missing.
LEMMA ReassembleKeeps ==
  ASSUME NEW T, rx_sdu \in Seq(T), pdcp_rx \in Seq(Seq(T)), NEW win, NEW n \in Nat,
         \A j \in 1 .. n : win[(vr_r + j - 1) % MOD] \in Seq(T)
  PROVE  LET st == Reassemble(win, n) IN
         /\ st.sdu \in Seq(T) /\ st.out \in Seq(Seq(T))
         /\ InState([sdu |-> rx_sdu, out |-> pdcp_rx]) \subseteq InState(st)
         /\ \A j \in 1 .. n : Cells(win[(vr_r + j - 1) % MOD]) \subseteq InState(st)
<1> DEFINE start == [sdu |-> rx_sdu, out |-> pdcp_rx]
           p == [j \in 1 .. n |-> win[(vr_r + j - 1) % MOD]]
           Is(b) == b = [j \in 0 .. n |-> IF j = 0 THEN [sdu |-> rx_sdu, out |-> pdcp_rx]
                                   ELSE Append1(b[j - 1], win[(vr_r + j - 1) % MOD])]
           after == CHOOSE x : Is(x)
<1>1. start \in States(T) /\ p \in [1 .. n -> Seq(T)]
  BY DEF States
<1>2. PICK b \in Chain(T, p, start, n) : TRUE
  <2> HIDE DEF start, p
  <2> QED
    BY <1>1, ChainExists
<1>3. Is(b)
  BY <1>2 DEF Chain
<1>4. Is(after)
  BY <1>3
<1>5. Reassemble(win, n) = after[n]
  BY DEF Reassemble
<1> HIDE DEF after
<1>6. /\ after = [j \in 0 .. n |-> after[j]] /\ after[0] = start
      /\ \A j \in 1 .. n : after[j] = Append1(after[j - 1], p[j])
  BY <1>4
<1>7. \A j \in 0 .. n : after[j] \in States(T)
  <2> DEFINE Bad == {i \in Nat : i <= n /\ after[i] \notin States(T)}
  <2>1. SUFFICES ASSUME Bad # {} PROVE FALSE
    OBVIOUS
  <2>2. PICK m \in Bad : \A k \in Bad : m <= k
    BY <2>1, LowestOf
  <2>3. m \in 0 .. n /\ after[m] \notin States(T)
    BY <2>2
  <2>4. m # 0
    BY <1>1, <1>6, <2>3
  <2>5. m - 1 \in 0 .. n /\ m \in 1 .. n /\ ~(m <= m - 1)
    BY <2>3, <2>4
  <2>6. after[m - 1] \in States(T) /\ p[m] \in Seq(T)
    BY <1>1, <2>2, <2>5
  <2>7. after[m] = Append1(after[m - 1], p[m])
    BY <1>6, <2>5
  <2> QED
    BY <2>3, <2>6, <2>7, Append1Keeps
<1>8. after \in Chain(T, p, start, n)
  <2> HIDE DEF p, start
  <2> QED
    BY <1>6, <1>7 DEF Chain
<1>9. after[n] \in States(T) /\ n \in 0 .. n
  BY <1>7
<1>10. InState(start) \subseteq InState(after[n])
  <2>1. 0 \in 0 .. n /\ 0 <= n
    OBVIOUS
  <2> HIDE DEF p, start
  <2> QED
    BY <1>1, <1>6, <1>8, <1>9, <2>1, ChainKeeps
<1>11. ASSUME NEW j \in 1 .. n PROVE Cells(p[j]) \subseteq InState(after[n])
  <2>1. j - 1 \in 0 .. n /\ j \in 0 .. n /\ j <= n /\ p[j] \in Seq(T)
    BY <1>1
  <2> HIDE DEF p, start
  <2>2. after[j] = Append1(after[j - 1], p[j]) /\ after[j - 1] \in States(T)
    BY <1>6, <1>7, <2>1
  <2>3. Cells(p[j]) \subseteq InState(after[j])
    BY <2>1, <2>2, Append1Keeps
  <2>4. InState(after[j]) \subseteq InState(after[n])
    BY <1>1, <1>8, <1>9, <2>1, ChainKeeps
  <2> QED
    BY <2>3, <2>4
<1> QED
  BY <1>5, <1>9, <1>10, <1>11 DEF States

\* The cells the receiver has, delivered or not.
Contents(sdu, out, win) == InState([sdu |-> sdu, out |-> out])
                             \cup UNION {Cells(win[sn]) : sn \in DOMAIN win}

\* Those of the receiver as it is.
RxCells == Contents(rx_sdu, pdcp_rx, rx_window)

\* What the receiver has in hand are sequences of members of T.
RxTyped(T) == /\ rx_sdu \in Seq(T) /\ pdcp_rx \in Seq(Seq(T))
              /\ \A sn \in DOMAIN rx_window : rx_window[sn] \in Seq(T)

\* handle_data_pdu loses no cell of what was there nor of a PDU that was missing.
LEMMA HandleKeeps ==
  ASSUME NEW T, RxTyped(T), vr_r \in SN, DOMAIN rx_window \subseteq SN,
         NEW sn \in SN, InsideRxWindow(sn), sn \notin DOMAIN rx_window,
         NEW poll, NEW cells \in Seq(T), NEW ds, HandleDataPdu(sn, poll, cells, ds)
  PROVE  /\ RxTyped(T)'
         /\ RxCells \subseteq RxCells' /\ Cells(cells) \subseteq RxCells'
<1> DEFINE win == With(rx_window, sn, cells)
<1>1. PICK r \in StopsAt(win, vr_r) :
        /\ rx_window' = [y \in {z \in DOMAIN win : RxOff(z) >= RxOff(r)} |-> win[y]]
        /\ rx_sdu' = Reassemble(win, RxOff(r)).sdu
        /\ pdcp_rx' = Reassemble(win, RxOff(r)).out
  BY DEF HandleDataPdu
<1>2. /\ DOMAIN win = DOMAIN rx_window \cup {sn} /\ win[sn] = cells
      /\ \A y \in DOMAIN rx_window : win[y] = rx_window[y]
  BY DEF With
<1> HIDE DEF win
<1>3. /\ DOMAIN win \subseteq SN /\ \A y \in DOMAIN win : win[y] \in Seq(T)
  BY <1>2 DEF RxTyped
<1> DEFINE n == RxOff(r)
           At(j) == (vr_r + j - 1) % MOD
           st == Reassemble(win, n)
<1>4. SN = 0 .. MOD - 1 /\ MOD \in Nat
  BY WindowAssumption DEF SN, MOD
<1>5. /\ r \in SN /\ n \in SN /\ n \in Nat
      /\ \A y \in SN : RxOff(y) < n => y \in DOMAIN win
  <2>1. r \in SN /\ \A y \in SN : RxOff(y) < n => y \in DOMAIN win
    BY DEF StopsAt, RxOff
  <2>2. n \in SN
    BY <2>1, ModBaseValue DEF RxOff
  <2> QED
    BY <1>4, <2>1, <2>2
<1> HIDE DEF n, MOD
<1>6. ASSUME NEW j \in 1 .. n PROVE At(j) \in DOMAIN win
  <2>1. j - 1 \in SN /\ j - 1 < n /\ vr_r + (j - 1) = vr_r + j - 1
    BY <1>4, <1>5
  <2>2. At(j) = (vr_r + (j - 1)) % MOD
    BY <2>1
  <2> HIDE DEF At
  <2>3. At(j) \in SN /\ RxOff(At(j)) = j - 1
    BY <2>1, <2>2, SnAt DEF RxOff
  <2> QED
    BY <1>5, <2>1, <2>3
<1>7. ASSUME NEW y \in DOMAIN win, RxOff(y) < n
      PROVE  RxOff(y) + 1 \in 1 .. n /\ At(RxOff(y) + 1) = y
  <2>1. y \in SN
    BY <1>3
  <2>2. RxOff(y) \in SN /\ (vr_r + RxOff(y)) % MOD = y
    BY <2>1, ModBaseValue, SnOf DEF RxOff
  <2>3. RxOff(y) + 1 \in 1 .. n /\ vr_r + (RxOff(y) + 1) - 1 = vr_r + RxOff(y)
    BY <1>4, <1>5, <1>7, <2>2
  <2> QED
    BY <2>2, <2>3
<1>8. \A j \in 1 .. n : win[At(j)] \in Seq(T)
  BY <1>3, <1>6
<1>9. /\ st.sdu \in Seq(T) /\ st.out \in Seq(Seq(T))
      /\ InState([sdu |-> rx_sdu, out |-> pdcp_rx]) \subseteq InState(st)
      /\ \A j \in 1 .. n : Cells(win[At(j)]) \subseteq InState(st)
  BY <1>5, <1>8, ReassembleKeeps DEF RxTyped
<1>10. rx_sdu' = st.sdu /\ pdcp_rx' = st.out
  BY <1>1 DEF n
<1> HIDE DEF At, st
<1>11. /\ DOMAIN rx_window' = {z \in DOMAIN win : RxOff(z) >= n}
       /\ \A y \in DOMAIN rx_window' : rx_window'[y] = win[y]
  BY <1>1 DEF n
<1>12. RxTyped(T)'
  BY <1>3, <1>9, <1>10, <1>11 DEF RxTyped
<1>13. RxCells' = InState(st) \cup UNION {Cells(rx_window'[y]) : y \in DOMAIN rx_window'}
  BY <1>10 DEF RxCells, Contents, InState
<1>14. ASSUME NEW y \in DOMAIN win PROVE Cells(win[y]) \subseteq RxCells'
  <2>1. CASE RxOff(y) >= n
    BY <1>11, <1>13, <2>1
  <2>2. CASE RxOff(y) < n
    BY <1>7, <1>9, <1>13, <2>2
  <2>3. RxOff(y) \in Nat
    <3>1. RxOff(y) \in SN
      BY <1>3, ModBaseValue DEF RxOff
    <3> QED
      BY <1>4, <3>1
  <2> QED
    BY <1>5, <2>1, <2>2, <2>3
<1>15. RxCells \subseteq RxCells'
  BY <1>2, <1>9, <1>13, <1>14 DEF RxCells, Contents
<1> QED
  BY <1>2, <1>12, <1>14, <1>15
=============================================================================
