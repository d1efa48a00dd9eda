----------------------------- MODULE RlcUmProofs -----------------------------
(***************************************************************************)
(* Proofs about an RLC UM bearer, for every window size, number and length *)
(* of SDUs, grant, loss and reordering of PDUs.                            *)
(*                                                                         *)
(* Positions are measured from the lower edge of the reordering window, as *)
(* RX_MOD_BASE does: VR(UH) is at W.  The invariant says that VR(UR) is at *)
(* W or below, that PDUs wait above it and below W, and that a running     *)
(* timer was started for an SN above 0 and not above W.  Everything rests  *)
(* on what the two loops of reassemble_rx_sdus do to VR(UR) and the        *)
(* window, whatever they make of the contents of the PDUs.                 *)
(***************************************************************************)
EXTENDS RlcUmLink, TLAPS, FiniteSetTheorems, SequenceTheorems, NaturalsInduction,
        WellFoundedInduction

-----------------------------------------------------------------------------
(* Loops.                                                                      *)

\* A set of numbers has a lowest one.
LEMMA LowestOf ==
  ASSUME NEW S \in SUBSET Nat, S # {}
  PROVE  \E x \in S : \A y \in S : x <= y
<1> DEFINE LT == {ss \in Nat \X Nat : ss[1] < ss[2]}
<1>1. IsWellFoundedOn(LT, Nat)
  BY NatLessThanWellFounded DEF OpToRel
<1> HIDE DEF LT
<1>2. PICK x \in S : \A y \in S : ~(<<y, x>> \in LT)
  BY <1>1, WFMin
<1>3. \A y \in S : ~(y < x)
  BY <1>2 DEF LT
<1> QED
  BY <1>3

\* What holds before a loop and after each round of it holds after all rounds.
LEMMA Rounds ==
  ASSUME NEW N \in Nat, NEW S, 0 \in S, \A n \in 1 .. N : n - 1 \in S => n \in S
  PROVE  \A n \in 0 .. N : n \in S
<1> DEFINE Bad == {n \in Nat : n <= N /\ n \notin S}
<1>1. SUFFICES ASSUME Bad # {} PROVE FALSE
  OBVIOUS
<1>2. PICK n \in Bad : \A m \in Bad : n <= m
  BY <1>1, LowestOf
<1>3. n \in Nat /\ n <= N /\ n \notin S /\ n # 0
  BY <1>2
<1>4. n \in 1 .. N /\ n - 1 \in Nat /\ n - 1 <= N /\ ~(n <= n - 1)
  BY <1>3
<1>5. n - 1 \in S
  BY <1>2, <1>4
<1> QED
  BY <1>3, <1>4, <1>5

\* A round of the first loop of reassemble_rx_sdus, which has nothing left to do
\* once VR(UR) is inside of the window.
LowerRound(s, uh) == IF ~InsideReorderingWindow(s.ur, uh, s.win) THEN LowerEdge(s) ELSE s

\* A round of its second loop.
SequenceRound(s) == IF s.ur \in DOMAIN s.win THEN InSequence(s) ELSE s

\* A round of the loop of timer_expired.
SkipRound(s) == IF RxBase(s.ur, vr_uh) < RxBase(vr_ux, vr_uh)
                THEN ReassembleRxSdus([s EXCEPT !.ur = (@ + 1) % MOD], vr_uh) ELSE s

\* The i-th part of a PDU, in the first and in the second loop.
LowerPart(s, i, pdu) ==
  IF (s.lost /\ ~pdu.start) \/ s.ur # (s.last + 1) % MOD
  THEN [s EXCEPT !.sdu = << >>, !.lost = FALSE]
  ELSE [Deliver(s, pdu.parts[i]) EXCEPT !.lost = FALSE]

SequencePart(s, i, pdu) ==
  IF s.sdu = << >> /\ i = 1 /\ ~pdu.start THEN [s EXCEPT !.lost = FALSE]
  ELSE [Deliver(s, pdu.parts[i]) EXCEPT !.lost = FALSE, !.last = s.ur]

\* The i-th round of each of the five loops, from s; x is what it does not change.
Round(loop, s, i, x) ==
  CASE loop = "lower"         -> LowerRound(s, x)
    [] loop = "sequence"      -> SequenceRound(s)
    [] loop = "skip"          -> SkipRound(s)
    [] loop = "lower_part"    -> LowerPart(s, i, x)
    [] loop = "sequence_part" -> SequencePart(s, i, x)

\* The states before and after each of N rounds from st.
IsRun(f, loop, st, N, x) ==
  f = [n \in 0 .. N |-> IF n = 0 THEN st ELSE Round(loop, f[n - 1], n, x)]

\* Every loop can be run.
LEMMA RunExists ==
  ASSUME NEW loop, NEW st, NEW N \in Nat, NEW x
  PROVE  \E f : IsRun(f, loop, st, N, x)
<1> DEFINE S == {m \in Nat : \E f : IsRun(f, loop, st, m, x)}
<1>1. 0 \in S
  <2>1. IsRun([n \in 0 .. 0 |-> st], loop, st, 0, x)
    BY DEF IsRun
  <2> QED
    BY <2>1
<1>2. ASSUME NEW n \in 1 .. N, n - 1 \in S PROVE n \in S
  <2>1. PICK f : IsRun(f, loop, st, n - 1, x)
    BY <1>2
  <2> DEFINE G(s, i) == Round(loop, s, i, x)
             g == [i \in 0 .. n |-> IF i < n THEN f[i] ELSE G(f[n - 1], n)]
             h == [i \in 0 .. n |-> IF i = 0 THEN st ELSE G(g[i - 1], i)]
  <2>2. f = [i \in 0 .. n - 1 |-> IF i = 0 THEN st ELSE G(f[i - 1], i)]
    BY <2>1 DEF IsRun
  <2> HIDE DEF G
  <2>3. ASSUME NEW i \in 0 .. n PROVE g[i] = h[i]
    <3>1. n \in Nat /\ i \in Nat /\ n # 0 /\ (i < n => i \in 0 .. n - 1)
      OBVIOUS
    <3>2. CASE i < n
      <4>1. f[i] = IF i = 0 THEN st ELSE G(f[i - 1], i)
        BY <2>2, <3>1, <3>2
      <4>2. g[i] = f[i] /\ (i # 0 => g[i - 1] = f[i - 1])
        BY <3>1, <3>2
      <4> QED
        BY <4>1, <4>2
    <3>3. CASE i = n
      <4>1. g[n] = G(f[n - 1], n) /\ g[n - 1] = f[n - 1]
        BY <3>1
      <4>2. h[n] = G(g[n - 1], n)
        BY <3>1
      <4> QED
        BY <3>3, <4>1, <4>2
    <3> QED
      BY <3>1, <3>2, <3>3
  <2>4. g = h
    BY <2>3
  <2>5. IsRun(g, loop, st, n, x)
    BY <2>4 DEF IsRun, G
  <2> HIDE DEF g
  <2>6. n \in Nat
    OBVIOUS
  <2> QED
    BY <2>5, <2>6
<1> HIDE DEF S
<1>3. N \in S
  <2>1. N \in 0 .. N
    OBVIOUS
  <2> QED
    BY <1>1, <1>2, <2>1, Rounds
<1> QED
  BY <1>3 DEF S

CaughtUp(st, uh) ==
  Repeat(st, LAMBDA s : ~InsideReorderingWindow(s.ur, uh, s.win), LowerEdge)

TakenInSequence(st) == Repeat(st, LAMBDA s : s.ur \in DOMAIN s.win, InSequence)

\* reassemble_rx_sdus is one loop after the other.
LEMMA TwoLoops ==
  ASSUME NEW st, NEW uh
  PROVE  ReassembleRxSdus(st, uh) = TakenInSequence(CaughtUp(st, uh))
BY DEF ReassembleRxSdus, TakenInSequence, CaughtUp

\* The first loop of reassemble_rx_sdus.
LEMMA LowerRuns ==
  ASSUME NEW st, NEW uh
  PROVE  \E f : /\ CaughtUp(st, uh) = f[MOD] /\ f[0] = st
                /\ \A n \in 1 .. MOD : f[n] = LowerRound(f[n - 1], uh)
<1> DEFINE G(v) == Apply(LAMBDA s : IF ~InsideReorderingWindow(s.ur, uh, s.win) THEN LowerEdge(s) ELSE s, v)
           Is(f) == f = [n \in 0 .. MOD |-> IF n = 0 THEN st ELSE G(f[n - 1])]
           after == CHOOSE f : Is(f)
<1>1. CaughtUp(st, uh) = after[MOD]
  BY DEF CaughtUp, Repeat, Apply
<1>2. /\ \A v, n : G(v) = Round("lower", v, n, uh)
      /\ \A v : G(v) = LowerRound(v, uh)
  BY DEF Apply, Round, LowerRound
<1> HIDE DEF G
<1>3. MOD \in Nat
  BY UmTxAssumption DEF MOD
<1>4. PICK f : IsRun(f, "lower", st, MOD, uh)
  BY <1>3, RunExists
<1>5. Is(f)
  BY <1>2, <1>4 DEF IsRun
<1>6. Is(after)
  BY <1>5
<1> HIDE DEF after
<1>7. after[0] = st /\ \A n \in 1 .. MOD : after[n] = G(after[n - 1])
  BY <1>3, <1>6
<1> QED
  BY <1>1, <1>2, <1>7

\* Its second loop.
LEMMA SequenceRuns ==
  ASSUME NEW st
  PROVE  \E f : /\ TakenInSequence(st) = f[MOD] /\ f[0] = st
                /\ \A n \in 1 .. MOD : f[n] = SequenceRound(f[n - 1])
<1> DEFINE G(v) == Apply(LAMBDA s : IF s.ur \in DOMAIN s.win THEN InSequence(s) ELSE s, v)
           Is(f) == f = [n \in 0 .. MOD |-> IF n = 0 THEN st ELSE G(f[n - 1])]
           after == CHOOSE f : Is(f)
<1>1. TakenInSequence(st) = after[MOD]
  BY DEF TakenInSequence, Repeat, Apply
<1>2. /\ \A v, n : G(v) = Round("sequence", v, n, 0)
      /\ \A v : G(v) = SequenceRound(v)
  BY DEF Apply, Round, SequenceRound
<1> HIDE DEF G
<1>3. MOD \in Nat
  BY UmTxAssumption DEF MOD
<1>4. PICK f : IsRun(f, "sequence", st, MOD, 0)
  BY <1>3, RunExists
<1>5. Is(f)
  BY <1>2, <1>4 DEF IsRun
<1>6. Is(after)
  BY <1>5
<1> HIDE DEF after
<1>7. after[0] = st /\ \A n \in 1 .. MOD : after[n] = G(after[n - 1])
  BY <1>3, <1>6
<1> QED
  BY <1>1, <1>2, <1>7

\* The loop of timer_expired.
LEMMA SkipRuns ==
  ASSUME NEW st, st = [Reassembly EXCEPT !.lost = TRUE, !.sdu = << >>]
  PROVE  \E f : /\ GiveUp = f[MOD] /\ f[0] = st
                /\ \A n \in 1 .. MOD : f[n] = SkipRound(f[n - 1])
<1> DEFINE G(v) == Apply(LAMBDA s : IF RxBase(s.ur, vr_uh) < RxBase(vr_ux, vr_uh)
                                   THEN ReassembleRxSdus([s EXCEPT !.ur = (@ + 1) % MOD], vr_uh)
                                   ELSE s, v)
           Is(f) == f = [n \in 0 .. MOD |-> IF n = 0 THEN st ELSE G(f[n - 1])]
           after == CHOOSE f : Is(f)
<1>1. GiveUp = after[MOD]
  BY DEF GiveUp, Repeat, Apply
<1>2. /\ \A v, n : G(v) = Round("skip", v, n, 0)
      /\ \A v : G(v) = SkipRound(v)
  BY DEF Apply, Round, SkipRound
<1> HIDE DEF G
<1>3. MOD \in Nat
  BY UmTxAssumption DEF MOD
<1>4. PICK f : IsRun(f, "skip", st, MOD, 0)
  BY <1>3, RunExists
<1>5. Is(f)
  BY <1>2, <1>4 DEF IsRun
<1>6. Is(after)
  BY <1>5
<1> HIDE DEF after
<1>7. after[0] = st /\ \A n \in 1 .. MOD : after[n] = G(after[n - 1])
  BY <1>3, <1>6
<1> QED
  BY <1>1, <1>2, <1>7

-----------------------------------------------------------------------------
(* What is done with a PDU leaves VR(UR) and the window alone.                  *)

Fields == {"ur", "win", "sdu", "last", "lost", "out"}

\* s differs from st in what becomes of SDUs only.
SameWindow(s, st) ==
  /\ DOMAIN s = Fields /\ s.ur = st.ur /\ s.win = st.win
  /\ s.last \in {st.last, st.ur} /\ s.lost \in BOOLEAN

PduOK(pdu) == pdu.sn \in SN /\ Len(pdu.parts) \in Nat \ {0}

LowerInner(st, pdu) == InnerParts(st, pdu, LAMBDA s, i : LowerPart(s, i, pdu))

\* The parts of a PDU that end inside of it, in the first loop.
LEMMA LowerParts ==
  ASSUME NEW st, NEW pdu, PduOK(pdu), DOMAIN st = Fields, st.lost \in BOOLEAN
  PROVE  SameWindow(LowerInner(st, pdu), st)
<1> DEFINE N == Len(pdu.parts) - 1
           G(v, i) == Apply(LAMBDA s : LowerPart(s, i, pdu), v)
           Is(f) == f = [n \in 0 .. N |-> IF n = 0 THEN st ELSE G(f[n - 1], n)]
           after == CHOOSE f : Is(f)
<1>1. LowerInner(st, pdu) = after[N]
  BY DEF LowerInner, InnerParts, Apply
<1>2. \A v, n : G(v, n) = Round("lower_part", v, n, pdu)
  BY DEF Apply, Round
<1>3. N \in Nat
  BY DEF PduOK
<1> HIDE DEF G, N
<1>4. PICK f : IsRun(f, "lower_part", st, N, pdu)
  BY <1>3, RunExists
<1>5. Is(f)
  BY <1>2, <1>4 DEF IsRun
<1>6. Is(after)
  BY <1>5
<1> HIDE DEF after
<1>7. /\ after[0] = st
      /\ \A n \in 1 .. N : after[n] = G(after[n - 1], n)
  BY <1>3, <1>6
<1>8. \A n \in 1 .. N : after[n] = Round("lower_part", after[n - 1], n, pdu)
  BY <1>2, <1>7
<1> DEFINE S == {n \in 0 .. N : SameWindow(after[n], st)}
<1>9. 0 \in S
  BY <1>3, <1>7 DEF SameWindow
<1>10. ASSUME NEW n \in 1 .. N, n - 1 \in S PROVE n \in S
  <2>1. after[n] = LowerPart(after[n - 1], n, pdu)
    BY <1>8 DEF Round
  <2>2. \A v : SameWindow(v, st) => SameWindow(LowerPart(v, n, pdu), st)
    BY DEF SameWindow, LowerPart, Deliver, Fields
  <2> QED
    BY <1>3, <1>10, <2>1, <2>2
<1> HIDE DEF S
<1>11. N \in S
  BY <1>3, <1>9, <1>10, Rounds
<1> QED
  BY <1>1, <1>11 DEF S

SequenceInner(st, pdu) == InnerParts(st, pdu, LAMBDA s, i : SequencePart(s, i, pdu))

\* The parts of a PDU that end inside of it, in the second loop.
LEMMA SequenceParts ==
  ASSUME NEW st, NEW pdu, PduOK(pdu), DOMAIN st = Fields, st.lost \in BOOLEAN
  PROVE  SameWindow(SequenceInner(st, pdu), st)
<1> DEFINE N == Len(pdu.parts) - 1
           G(v, i) == Apply(LAMBDA s : SequencePart(s, i, pdu), v)
           Is(f) == f = [n \in 0 .. N |-> IF n = 0 THEN st ELSE G(f[n - 1], n)]
           after == CHOOSE f : Is(f)
<1>1. SequenceInner(st, pdu) = after[N]
  BY DEF SequenceInner, InnerParts, Apply
<1>2. \A v, n : G(v, n) = Round("sequence_part", v, n, pdu)
  BY DEF Apply, Round
<1>3. N \in Nat
  BY DEF PduOK
<1> HIDE DEF G, N
<1>4. PICK f : IsRun(f, "sequence_part", st, N, pdu)
  BY <1>3, RunExists
<1>5. Is(f)
  BY <1>2, <1>4 DEF IsRun
<1>6. Is(after)
  BY <1>5
<1> HIDE DEF after
<1>7. /\ after[0] = st
      /\ \A n \in 1 .. N : after[n] = G(after[n - 1], n)
  BY <1>3, <1>6
<1>8. \A n \in 1 .. N : after[n] = Round("sequence_part", after[n - 1], n, pdu)
  BY <1>2, <1>7
<1> DEFINE S == {n \in 0 .. N : SameWindow(after[n], st)}
<1>9. 0 \in S
  BY <1>3, <1>7 DEF SameWindow
<1>10. ASSUME NEW n \in 1 .. N, n - 1 \in S PROVE n \in S
  <2>1. after[n] = SequencePart(after[n - 1], n, pdu)
    BY <1>8 DEF Round
  <2>2. \A v : SameWindow(v, st) => SameWindow(SequencePart(v, n, pdu), st)
    BY DEF SameWindow, SequencePart, Deliver, Fields
  <2> QED
    BY <1>3, <1>10, <2>1, <2>2
<1> HIDE DEF S
<1>11. N \in S
  BY <1>3, <1>9, <1>10, Rounds
<1> QED
  BY <1>1, <1>11 DEF S

\* The last part of a PDU.
LEMMA LastPartSame ==
  ASSUME NEW s, NEW st, NEW pdu, SameWindow(s, st)
  PROVE  SameWindow(LastPart(s, pdu), st)
BY DEF SameWindow, LastPart, Deliver, Fields

\* A whole PDU at the lower edge.
LEMMA LowerEdgeSame ==
  ASSUME NEW st, DOMAIN st = Fields, st.lost \in BOOLEAN, PduOK(st.win[st.ur])
  PROVE  SameWindow(LowerEdgePdu(st), st)
<1> DEFINE pdu == st.win[st.ur]
           startLost == st.sdu = << >> /\ ~pdu.start
           parts == LowerInner(st, pdu)
           inner == IF startLost THEN st ELSE parts
<1>1. LowerEdgePdu(st) = IF inner.sdu # << >> \/ pdu.start THEN LastPart(inner, pdu) ELSE inner
  BY DEF LowerEdgePdu, LowerPart, LowerInner
<1>2. SameWindow(parts, st)
  BY LowerParts
<1>3. SameWindow(st, st)
  BY DEF SameWindow
<1> HIDE DEF parts
<1>4. SameWindow(inner, st)
  BY <1>2, <1>3
<1> HIDE DEF inner
<1>5. SameWindow(LastPart(inner, pdu), st)
  BY <1>4, LastPartSame
<1> QED
  BY <1>1, <1>4, <1>5

\* A whole PDU in sequence.
LEMMA InSequenceSame ==
  ASSUME NEW st, DOMAIN st = Fields, st.lost \in BOOLEAN, PduOK(st.win[st.ur])
  PROVE  SameWindow(InSequencePdu(st), st)
<1> DEFINE pdu == st.win[st.ur]
           cur == IF PduBelongsToRxSdu(st) THEN st ELSE [st EXCEPT !.lost = FALSE, !.sdu = << >>]
           inner == SequenceInner(cur, pdu)
<1>1. InSequencePdu(st) = IF inner.sdu = << >> /\ Len(pdu.parts) = 1 /\ ~pdu.start THEN inner
                          ELSE LastPart(inner, pdu)
  BY DEF InSequencePdu, SequencePart, SequenceInner
<1>2. SameWindow(cur, st)
  BY DEF SameWindow, Fields
<1> HIDE DEF cur
<1>3. SameWindow(inner, cur)
  BY <1>2, SequenceParts DEF SameWindow
<1> HIDE DEF inner
<1>4. SameWindow(inner, st)
  BY <1>2, <1>3 DEF SameWindow
<1>5. SameWindow(LastPart(inner, pdu), st)
  BY <1>4, LastPartSame
<1> QED
  BY <1>1, <1>4, <1>5

-----------------------------------------------------------------------------
(* Positions in the reordering window.                                         *)

\* RX_MOD_BASE, in integers.
LEMMA Position ==
  ASSUME NEW x \in SN, NEW uh \in SN
  PROVE  /\ RxBase(x, uh) \in SN
         /\ RxBase(x, uh) = IF x - uh >= W THEN x - uh - W
                            ELSE IF x - uh >= -W THEN x - uh + W ELSE x - uh + 3 * W
         /\ W \in Nat \ {0} /\ MOD = 2 * W /\ SN = 0 .. MOD - 1
BY UmTxAssumption DEF RxBase, SN, MOD

\* The window lies between 0 and the position of VR(UH), W; an SN has a position of
\* its own, and the next SN the next position.
LEMMA Positions ==
  ASSUME NEW x \in SN, NEW y \in SN, NEW uh \in SN
  PROVE  /\ RxBase(uh, uh) = W /\ RxBase(uh - W, uh) = 0
         /\ RxBase(x, uh) = RxBase(y, uh) => x = y
         /\ (x + 1) % MOD \in SN
         /\ RxBase((x + 1) % MOD, uh)
              = IF RxBase(x, uh) = MOD - 1 THEN 0 ELSE RxBase(x, uh) + 1
<1>1. RxBase(uh - W, uh) = 0
  <2>1. uh - W - uh - W = -MOD /\ MOD \in Nat /\ MOD > 0
    BY UmTxAssumption DEF SN, MOD
  <2>2. (-MOD) % MOD = 0
    BY <2>1
  <2> QED
    BY <2>1, <2>2 DEF RxBase
<1>2. (x + 1) % MOD = (IF x = MOD - 1 THEN 0 ELSE x + 1) /\ (x + 1) % MOD \in SN
  BY UmTxAssumption DEF SN, MOD
<1> DEFINE z == (x + 1) % MOD
<1>3. /\ RxBase(z, uh) = IF z - uh >= W THEN z - uh - W
                         ELSE IF z - uh >= -W THEN z - uh + W ELSE z - uh + 3 * W
      /\ z \in SN
  BY <1>2, Position
<1> HIDE DEF z
<1>0. /\ RxBase(x, uh) = IF x - uh >= W THEN x - uh - W
                         ELSE IF x - uh >= -W THEN x - uh + W ELSE x - uh + 3 * W
      /\ RxBase(y, uh) = IF y - uh >= W THEN y - uh - W
                         ELSE IF y - uh >= -W THEN y - uh + W ELSE y - uh + 3 * W
      /\ RxBase(uh, uh) = IF uh - uh >= W THEN uh - uh - W
                          ELSE IF uh - uh >= -W THEN uh - uh + W ELSE uh - uh + 3 * W
      /\ W \in Nat \ {0} /\ MOD = 2 * W /\ SN = 0 .. MOD - 1
  BY Position
<1>4. /\ RxBase(uh, uh) = W
      /\ RxBase(x, uh) = RxBase(y, uh) => x = y
  BY <1>0
<1>5. z = IF x = MOD - 1 THEN 0 ELSE x + 1
  BY <1>2 DEF z
<1>6. RxBase(z, uh) = IF RxBase(x, uh) = MOD - 1 THEN 0 ELSE RxBase(x, uh) + 1
  BY <1>0, <1>3, <1>5
<1> QED
  BY <1>1, <1>2, <1>4, <1>6 DEF z

\* When VR(UH) moves, all positions move down, and round.
LEMMA Moved ==
  ASSUME NEW x \in SN, NEW uh \in SN, NEW uh2 \in SN
  PROVE  LET d == RxBase(x, uh) - RxBase(uh2, uh) + W
         IN  RxBase(x, uh2) = IF d < 0 THEN d + MOD ELSE IF d >= MOD THEN d - MOD ELSE d
<1>1. /\ RxBase(x, uh) = IF x - uh >= W THEN x - uh - W
                         ELSE IF x - uh >= -W THEN x - uh + W ELSE x - uh + 3 * W
      /\ RxBase(x, uh2) = IF x - uh2 >= W THEN x - uh2 - W
                          ELSE IF x - uh2 >= -W THEN x - uh2 + W ELSE x - uh2 + 3 * W
      /\ RxBase(uh2, uh) = IF uh2 - uh >= W THEN uh2 - uh - W
                           ELSE IF uh2 - uh >= -W THEN uh2 - uh + W ELSE uh2 - uh + 3 * W
      /\ W \in Nat \ {0} /\ MOD = 2 * W /\ SN = 0 .. MOD - 1
  BY Position
<1> QED
  BY <1>1

\* inside_reordering_window, in positions.
LEMMA Inside ==
  ASSUME NEW x \in SN, NEW uh \in SN, NEW win
  PROVE  InsideReorderingWindow(x, uh, win) <=> DOMAIN win = {} \/ RxBase(x, uh) < W
<1>1. RxBase(uh - W, uh) = 0 /\ RxBase(uh, uh) = W
  BY Positions
<1>2. RxBase(x, uh) \in SN /\ SN = 0 .. MOD - 1
  BY Position
<1>3. RxBase(x, uh) >= 0
  BY <1>2
<1> QED
  BY <1>1, <1>3 DEF InsideReorderingWindow

-----------------------------------------------------------------------------
(* The loops of reassemble_rx_sdus.                                            *)

StateOK(s) ==
  /\ DOMAIN s = Fields /\ s.ur \in SN /\ s.last \in SN /\ s.lost \in BOOLEAN
  /\ DOMAIN s.win \subseteq SN /\ \A sn \in DOMAIN s.win : PduOK(s.win[sn])

\* PDUs wait at VR(UR) or above it, and below VR(UH).
Ready(s, uh) ==
  /\ RxBase(s.ur, uh) <= W
  /\ \A sn \in DOMAIN s.win : RxBase(s.ur, uh) <= RxBase(sn, uh) /\ RxBase(sn, uh) < W

\* PDUs wait above VR(UR).
Settled(s, uh) == Ready(s, uh) /\ s.ur \notin DOMAIN s.win

\* One SN further, with the PDU there taken out of the window.
Advanced(t, s) ==
  StateOK(t) /\ t.ur = (s.ur + 1) % MOD /\ DOMAIN t.win = DOMAIN s.win \ {s.ur}

\* rx_window.erase and the next SN, after what was done with the PDU.
LEMMA Erased ==
  ASSUME NEW s, NEW st, StateOK(st), SameWindow(s, st)
  PROVE  Advanced(EraseAndAdvance(s), st)
<1> DEFINE t == EraseAndAdvance(s)
           win == [sn \in DOMAIN s.win \ {s.ur} |-> s.win[sn]]
<1>1. /\ DOMAIN s = Fields /\ s.ur = st.ur /\ s.win = st.win /\ st.ur \in SN
      /\ s.last \in SN /\ s.lost \in BOOLEAN
  BY DEF SameWindow, StateOK
<1>2. /\ DOMAIN t = Fields /\ t.ur = (s.ur + 1) % MOD /\ t.win = win
      /\ t.last = s.last /\ t.lost = s.lost
  BY <1>1 DEF EraseAndAdvance, Fields
<1>3. (st.ur + 1) % MOD \in SN
  BY <1>1, Positions
<1>4. /\ DOMAIN win = DOMAIN st.win \ {st.ur}
      /\ \A sn \in DOMAIN win : win[sn] = st.win[sn]
  BY <1>1
<1> HIDE DEF t, win
<1>5. StateOK(t)
  BY <1>1, <1>2, <1>3, <1>4 DEF StateOK
<1>6. Advanced(t, st)
  BY <1>1, <1>2, <1>4, <1>5 DEF Advanced
<1> QED
  BY <1>6 DEF t

\* A round of the second loop.
LEMMA SequenceAdvances ==
  ASSUME NEW s, StateOK(s), s.ur \in DOMAIN s.win
  PROVE  Advanced(InSequence(s), s)
BY InSequenceSame, Erased DEF StateOK, InSequence

\* A round of the first loop.
LEMMA LowerAdvances ==
  ASSUME NEW s, StateOK(s)
  PROVE  Advanced(LowerEdge(s), s)
<1>1. CASE s.ur \in DOMAIN s.win
  BY <1>1, LowerEdgeSame, Erased DEF StateOK, LowerEdge
<1>2. CASE s.ur \notin DOMAIN s.win
  <2> DEFINE t == [s EXCEPT !.sdu = << >>, !.ur = (@ + 1) % MOD]
  <2>1. LowerEdge(s) = t
    BY <1>2 DEF LowerEdge
  <2>2. /\ DOMAIN t = Fields /\ t.ur = (s.ur + 1) % MOD /\ t.win = s.win
        /\ t.last = s.last /\ t.lost = s.lost
    BY DEF StateOK, Fields
  <2>3. (s.ur + 1) % MOD \in SN
    BY Positions DEF StateOK
  <2> HIDE DEF t
  <2>4. Advanced(t, s)
    BY <1>2, <2>2, <2>3 DEF Advanced, StateOK
  <2> QED
    BY <2>1, <2>4
<1> QED
  BY <1>1, <1>2

\* Positions are numbers below MOD.
LEMMA PositionRange ==
  ASSUME NEW uh \in SN
  PROVE  /\ \A x \in SN : RxBase(x, uh) \in Nat /\ RxBase(x, uh) < MOD
         /\ W \in Nat /\ W > 0 /\ MOD = 2 * W /\ MOD \in Nat
<1>1. W \in Nat /\ W > 0 /\ MOD = 2 * W /\ MOD \in Nat
  BY UmTxAssumption DEF MOD
<1>2. ASSUME NEW x \in SN PROVE RxBase(x, uh) \in 0 .. MOD - 1
  BY Position
<1> QED
  BY <1>1, <1>2

\* VR(UH) is at W.
LEMMA TopPosition ==
  ASSUME NEW uh \in SN
  PROVE  RxBase(uh, uh) = W /\ W \in Nat /\ W >= 1
<1>1. RxBase(uh, uh) = W
  BY Positions
<1> QED
  BY <1>1, UmTxAssumption

\* From st, the second loop has gone as far as s: everything it has passed was there.
Walked(s, st, uh) ==
  /\ StateOK(s) /\ RxBase(st.ur, uh) <= RxBase(s.ur, uh) /\ RxBase(s.ur, uh) <= W
  /\ DOMAIN s.win = {sn \in DOMAIN st.win : RxBase(s.ur, uh) <= RxBase(sn, uh)}
  /\ \A x \in SN : RxBase(st.ur, uh) <= RxBase(x, uh) /\ RxBase(x, uh) < RxBase(s.ur, uh)
                     => x \in DOMAIN st.win

\* A round of the second loop goes one further.
LEMMA WalksOn ==
  ASSUME NEW uh \in SN, NEW st, StateOK(st), Ready(st, uh), NEW s, Walked(s, st, uh),
         s.ur \in DOMAIN s.win
  PROVE  /\ Walked(InSequence(s), st, uh)
         /\ RxBase(InSequence(s).ur, uh) = RxBase(s.ur, uh) + 1
<1> DEFINE t == InSequence(s)
<1>1. Advanced(t, s)
  BY SequenceAdvances DEF Walked
<1> HIDE DEF t
<1>2. s.ur \in SN /\ s.ur \in DOMAIN st.win /\ DOMAIN st.win \subseteq SN /\ st.ur \in SN
  BY DEF Walked, StateOK
<1>3. RxBase(s.ur, uh) < W
  BY <1>2 DEF Ready
<1>4. t.ur \in SN /\ RxBase(t.ur, uh)
        = IF RxBase(s.ur, uh) = MOD - 1 THEN 0 ELSE RxBase(s.ur, uh) + 1
  BY <1>1, <1>2, Positions DEF Advanced
<1>5. /\ RxBase(s.ur, uh) \in Nat /\ W \in Nat /\ MOD = 2 * W
      /\ \A x \in SN : RxBase(x, uh) \in Nat
  BY <1>2, PositionRange
<1>6. RxBase(t.ur, uh) = RxBase(s.ur, uh) + 1
  BY <1>3, <1>4, <1>5
<1>7. ASSUME NEW x \in SN, x # s.ur PROVE RxBase(x, uh) # RxBase(s.ur, uh)
  BY <1>2, <1>7, Positions
<1>8. DOMAIN t.win = {sn \in DOMAIN st.win : RxBase(t.ur, uh) <= RxBase(sn, uh)}
  <2>1. DOMAIN t.win = DOMAIN s.win \ {s.ur}
    BY <1>1 DEF Advanced
  <2>2. DOMAIN s.win = {sn \in DOMAIN st.win : RxBase(s.ur, uh) <= RxBase(sn, uh)}
    BY DEF Walked
  <2>3. \A x \in SN : RxBase(t.ur, uh) <= RxBase(x, uh)
                       <=> RxBase(s.ur, uh) <= RxBase(x, uh) /\ x # s.ur
    BY <1>2, <1>5, <1>6, <1>7
  <2> QED
    BY <1>2, <2>1, <2>2, <2>3
<1>9. ASSUME NEW x \in SN, RxBase(st.ur, uh) <= RxBase(x, uh), RxBase(x, uh) < RxBase(t.ur, uh)
      PROVE  x \in DOMAIN st.win
  <2>1. CASE x = s.ur
    BY <1>2, <2>1
  <2>2. CASE x # s.ur
    <3>1. RxBase(x, uh) < RxBase(s.ur, uh)
      BY <1>5, <1>6, <1>7, <1>9, <2>2
    <3> QED
      BY <1>9, <3>1 DEF Walked
  <2> QED
    BY <2>1, <2>2
<1>10. RxBase(st.ur, uh) <= RxBase(t.ur, uh) /\ RxBase(t.ur, uh) <= W
  <2>1. RxBase(st.ur, uh) <= RxBase(s.ur, uh)
    BY DEF Walked
  <2> QED
    BY <1>2, <1>3, <1>5, <1>6, <2>1
<1>11. Walked(t, st, uh)
  BY <1>1, <1>8, <1>9, <1>10 DEF Walked, Advanced
<1> QED
  BY <1>6, <1>11 DEF t

\* The second loop of reassemble_rx_sdus stops at the first SN missing, at VR(UH) at
\* the latest.
LEMMA SequenceLoop ==
  ASSUME NEW uh \in SN, NEW st, StateOK(st), Ready(st, uh)
  PROVE  /\ Walked(TakenInSequence(st), st, uh)
         /\ TakenInSequence(st).ur \notin DOMAIN TakenInSequence(st).win
<1>1. PICK f : /\ TakenInSequence(st) = f[MOD] /\ f[0] = st
               /\ \A n \in 1 .. MOD : f[n] = SequenceRound(f[n - 1])
  BY SequenceRuns
<1>2. MOD \in Nat /\ W \in Nat /\ W > 0 /\ MOD = 2 * W /\ st.ur \in SN
      /\ \A x \in SN : RxBase(x, uh) \in Nat
  BY PositionRange DEF StateOK
<1>3. f[0] = st /\ \A n \in 1 .. MOD : f[n] = SequenceRound(f[n - 1])
  BY <1>1
<1> DEFINE Far(n) == \/ RxBase(f[n].ur, uh) >= n
                     \/ f[n].ur \notin DOMAIN f[n].win
           S == {n \in 0 .. MOD : Walked(f[n], st, uh) /\ Far(n)}
<1>4. 0 \in S
  <2>1. Walked(st, st, uh)
    <3>1. RxBase(st.ur, uh) \in Nat /\ \A x \in SN : RxBase(x, uh) \in Nat
      BY <1>2
    <3> QED
      BY <3>1 DEF Walked, Ready, StateOK
  <2>2. RxBase(st.ur, uh) >= 0
    BY <1>2
  <2> QED
    BY <1>2, <1>3, <2>1, <2>2
<1>5. ASSUME NEW n \in 1 .. MOD, n - 1 \in S PROVE n \in S
  <2> DEFINE s == f[n - 1]
  <2>1. f[n] = SequenceRound(s)
    BY <1>3
  <2>2. Walked(s, st, uh) /\ Far(n - 1)
    BY <1>5
  <2>3. CASE s.ur \in DOMAIN s.win
    <3>1. f[n] = InSequence(s)
      BY <2>1, <2>3 DEF SequenceRound
    <3>2. Walked(f[n], st, uh) /\ RxBase(f[n].ur, uh) = RxBase(s.ur, uh) + 1
      BY <2>2, <2>3, <3>1, WalksOn
    <3>3. RxBase(s.ur, uh) >= n - 1 /\ RxBase(s.ur, uh) \in Nat
      BY <1>2, <2>2, <2>3 DEF Walked, StateOK
    <3>4. RxBase(f[n].ur, uh) >= n
      BY <3>2, <3>3
    <3> QED
      BY <1>2, <3>2, <3>4
  <2>4. CASE s.ur \notin DOMAIN s.win
    <3>1. f[n] = s
      BY <2>1, <2>4 DEF SequenceRound
    <3> QED
      BY <1>2, <2>2, <2>4, <3>1
  <2> QED
    BY <2>3, <2>4
<1>6. MOD \in S
  <2> HIDE DEF S
  <2>1. MOD \in 0 .. MOD
    BY <1>2
  <2> QED
    BY <1>2, <1>4, <1>5, <2>1, Rounds
<1>7. Walked(f[MOD], st, uh) /\ RxBase(f[MOD].ur, uh) <= W
  BY <1>6 DEF Walked
<1>8. RxBase(f[MOD].ur, uh) \in Nat
  BY <1>2, <1>7 DEF Walked, StateOK
<1>9. f[MOD].ur \notin DOMAIN f[MOD].win
  BY <1>2, <1>6, <1>7, <1>8
<1> QED
  BY <1>1, <1>7, <1>9

\* The first loop does nothing when VR(UR) is inside of the window.
LEMMA LowerIdle ==
  ASSUME NEW uh, NEW st, InsideReorderingWindow(st.ur, uh, st.win)
  PROVE  CaughtUp(st, uh) = st
<1>1. PICK f : /\ CaughtUp(st, uh) = f[MOD] /\ f[0] = st
               /\ \A n \in 1 .. MOD : f[n] = LowerRound(f[n - 1], uh)
  BY LowerRuns
<1>2. MOD \in Nat
  BY UmTxAssumption DEF MOD
<1>3. f[0] = st /\ \A n \in 1 .. MOD : f[n] = LowerRound(f[n - 1], uh)
  BY <1>1
<1> DEFINE S == {n \in 0 .. MOD : f[n] = st}
<1>4. 0 \in S
  BY <1>2, <1>3
<1>5. ASSUME NEW n \in 1 .. MOD, n - 1 \in S PROVE n \in S
  BY <1>2, <1>3, <1>5 DEF LowerRound
<1>6. MOD \in S
  <2> HIDE DEF S
  <2>1. MOD \in 0 .. MOD
    BY <1>2
  <2> QED
    BY <1>2, <1>4, <1>5, <2>1, Rounds
<1> QED
  BY <1>1, <1>6

\* Where the first loop is: above VR(UH), in what is now the part before the window,
\* or at the lower edge.
Catching(s, st, uh) ==
  /\ StateOK(s)
  /\ \/ /\ RxBase(st.ur, uh) <= RxBase(s.ur, uh)
        /\ DOMAIN s.win = {sn \in DOMAIN st.win :
                             RxBase(sn, uh) < W \/ RxBase(s.ur, uh) <= RxBase(sn, uh)}
     \/ /\ RxBase(s.ur, uh) = 0
        /\ DOMAIN s.win = {sn \in DOMAIN st.win : RxBase(sn, uh) < W}

\* When VR(UR) is outside and the window holds a PDU inside, the first loop takes
\* VR(UR) to the lower edge and the PDUs before it out of the window.
LEMMA LowerLoop ==
  ASSUME NEW uh \in SN, NEW st, StateOK(st), RxBase(st.ur, uh) >= W,
         NEW top \in DOMAIN st.win, RxBase(top, uh) < W,
         \A sn \in DOMAIN st.win : RxBase(sn, uh) < W \/ RxBase(st.ur, uh) <= RxBase(sn, uh)
  PROVE  /\ StateOK(CaughtUp(st, uh)) /\ RxBase(CaughtUp(st, uh).ur, uh) = 0
         /\ DOMAIN CaughtUp(st, uh).win = {sn \in DOMAIN st.win : RxBase(sn, uh) < W}
<1>1. PICK f : /\ CaughtUp(st, uh) = f[MOD] /\ f[0] = st
               /\ \A n \in 1 .. MOD : f[n] = LowerRound(f[n - 1], uh)
  BY LowerRuns
<1>2. /\ MOD \in Nat /\ W \in Nat /\ W > 0 /\ MOD = 2 * W
      /\ \A x \in SN : RxBase(x, uh) \in Nat /\ RxBase(x, uh) < MOD
  BY PositionRange
<1>3. f[0] = st /\ \A n \in 1 .. MOD : f[n] = LowerRound(f[n - 1], uh)
  BY <1>1
<1>4. st.ur \in SN /\ DOMAIN st.win \subseteq SN
  BY DEF StateOK
<1> DEFINE Far(n) == RxBase(f[n].ur, uh) >= n \/ RxBase(f[n].ur, uh) = 0
           S == {n \in 0 .. MOD : Catching(f[n], st, uh) /\ Far(n)}
<1>5. 0 \in S
  <2>1. Catching(st, st, uh)
    <3>1. RxBase(st.ur, uh) <= RxBase(st.ur, uh)
      BY <1>2, <1>4
    <3> QED
      BY <3>1 DEF Catching
  <2>2. RxBase(st.ur, uh) >= 0
    BY <1>2, <1>4
  <2> QED
    BY <1>2, <1>3, <2>1, <2>2
<1>6. ASSUME NEW n \in 1 .. MOD, n - 1 \in S PROVE n \in S
  <2> DEFINE s == f[n - 1]
             t == f[n]
  <2>1. t = LowerRound(s, uh)
    BY <1>3
  <2>2. Catching(s, st, uh) /\ Far(n - 1)
    BY <1>6
  <2> HIDE DEF s, t
  <2>3. s.ur \in SN /\ top \in DOMAIN s.win
    BY <2>2 DEF Catching, StateOK
  <2>4. InsideReorderingWindow(s.ur, uh, s.win) <=> RxBase(s.ur, uh) < W
    <3>1. DOMAIN s.win # {}
      BY <2>3
    <3> QED
      BY <2>3, <3>1, Inside
  <2>5. CASE RxBase(s.ur, uh) < W
    <3>1. t = s
      BY <2>1, <2>4, <2>5 DEF LowerRound
    <3>2. RxBase(s.ur, uh) = 0
      <4>1. ~(RxBase(st.ur, uh) <= RxBase(s.ur, uh))
        BY <1>2, <1>4, <2>3, <2>5
      <4> QED
        BY <2>2, <4>1 DEF Catching
    <3> QED
      BY <1>2, <2>2, <3>1, <3>2 DEF s, t
  <2>6. CASE ~(RxBase(s.ur, uh) < W)
    <3>1. t = LowerEdge(s)
      BY <2>1, <2>4, <2>6 DEF LowerRound
    <3>2. Advanced(t, s)
      BY <2>2, <3>1, LowerAdvances DEF Catching
    <3>3. t.ur \in SN /\ RxBase(t.ur, uh)
            = IF RxBase(s.ur, uh) = MOD - 1 THEN 0 ELSE RxBase(s.ur, uh) + 1
      BY <2>3, <3>2, Positions DEF Advanced
    <3>4. RxBase(s.ur, uh) # 0 /\ RxBase(s.ur, uh) \in Nat /\ RxBase(s.ur, uh) < MOD
      BY <1>2, <2>3, <2>6
    <3>5. /\ RxBase(st.ur, uh) <= RxBase(s.ur, uh)
          /\ DOMAIN s.win = {sn \in DOMAIN st.win :
                               RxBase(sn, uh) < W \/ RxBase(s.ur, uh) <= RxBase(sn, uh)}
      BY <2>2, <3>4 DEF Catching
    <3>6. ASSUME NEW x \in SN, x # s.ur PROVE RxBase(x, uh) # RxBase(s.ur, uh)
      BY <2>3, <3>6, Positions
    <3>7. DOMAIN t.win = DOMAIN s.win \ {s.ur} /\ StateOK(t)
      BY <3>2 DEF Advanced
    <3>8. CASE RxBase(s.ur, uh) = MOD - 1
      <4>1. RxBase(t.ur, uh) = 0
        BY <3>3, <3>8
      <4>2. \A x \in SN : RxBase(x, uh) < W <=>
              (RxBase(x, uh) < W \/ RxBase(s.ur, uh) <= RxBase(x, uh)) /\ x # s.ur
        BY <1>2, <2>6, <3>6, <3>8
      <4>3. DOMAIN t.win = {sn \in DOMAIN st.win : RxBase(sn, uh) < W}
        BY <1>4, <3>5, <3>7, <4>2
      <4> QED
        BY <1>2, <3>7, <4>1, <4>3 DEF Catching, t
    <3>9. CASE RxBase(s.ur, uh) # MOD - 1
      <4>1. RxBase(t.ur, uh) = RxBase(s.ur, uh) + 1
        BY <3>3, <3>9
      <4>2. \A x \in SN : (RxBase(x, uh) < W \/ RxBase(t.ur, uh) <= RxBase(x, uh)) <=>
              (RxBase(x, uh) < W \/ RxBase(s.ur, uh) <= RxBase(x, uh)) /\ x # s.ur
        BY <1>2, <2>6, <3>4, <3>6, <4>1
      <4>3. DOMAIN t.win = {sn \in DOMAIN st.win :
                             RxBase(sn, uh) < W \/ RxBase(t.ur, uh) <= RxBase(sn, uh)}
        BY <1>4, <3>5, <3>7, <4>2
      <4>4. RxBase(st.ur, uh) <= RxBase(t.ur, uh)
        BY <1>2, <1>4, <3>4, <3>5, <4>1
      <4>5. Catching(t, st, uh)
        BY <3>7, <4>3, <4>4 DEF Catching
      <4>6. RxBase(s.ur, uh) >= n - 1
        BY <2>2, <3>4 DEF s
      <4>7. RxBase(t.ur, uh) >= n
        BY <3>4, <4>1, <4>6
      <4> QED
        BY <1>2, <4>5, <4>7 DEF t
    <3> QED
      BY <3>8, <3>9
  <2> QED
    BY <2>5, <2>6
<1>7. MOD \in S
  <2> HIDE DEF S
  <2>1. MOD \in 0 .. MOD
    BY <1>2
  <2> QED
    BY <1>2, <1>5, <1>6, <2>1, Rounds
<1>8. Catching(f[MOD], st, uh) /\ f[MOD].ur \in SN
  BY <1>7 DEF Catching, StateOK
<1>9. RxBase(f[MOD].ur, uh) = 0
  <2>1. RxBase(f[MOD].ur, uh) \in Nat /\ RxBase(f[MOD].ur, uh) < MOD
    BY <1>2, <1>8
  <2> QED
    BY <1>2, <1>7, <2>1
<1>10. ~(RxBase(st.ur, uh) <= RxBase(f[MOD].ur, uh))
  BY <1>2, <1>4, <1>9
<1> QED
  BY <1>1, <1>8, <1>9, <1>10 DEF Catching

\* reassemble_rx_sdus when VR(UR) is inside, or nothing waits.
LEMMA ReassembleInside ==
  ASSUME NEW uh \in SN, NEW st, StateOK(st), Ready(st, uh)
  PROVE  /\ Walked(ReassembleRxSdus(st, uh), st, uh)
         /\ Settled(ReassembleRxSdus(st, uh), uh)
<1> DEFINE r == ReassembleRxSdus(st, uh)
<1>1. st.ur \in SN /\ DOMAIN st.win \subseteq SN
  BY DEF StateOK
<1>2. /\ W \in Nat /\ RxBase(st.ur, uh) \in Nat
      /\ \A x \in SN : RxBase(x, uh) \in Nat
  BY <1>1, PositionRange
<1>3. InsideReorderingWindow(st.ur, uh, st.win)
  <2>1. DOMAIN st.win = {} \/ RxBase(st.ur, uh) < W
    BY <1>1, <1>2 DEF Ready
  <2> QED
    BY <1>1, <2>1, Inside
<1>4. CaughtUp(st, uh) = st
  BY <1>3, LowerIdle
<1>5. r = TakenInSequence(st)
  BY <1>4, TwoLoops
<1>6. Walked(r, st, uh) /\ r.ur \notin DOMAIN r.win
  BY <1>5, SequenceLoop
<1> HIDE DEF r
<1>7. Settled(r, uh)
  BY <1>6 DEF Settled, Ready, Walked
<1> QED
  BY <1>6, <1>7 DEF r

-----------------------------------------------------------------------------
(* The handlers of the receiver.                                               *)

\* The loop of timer_expired leaves PDUs above VR(UR) and below VR(UH), as it does not
\* take VR(UR) beyond VR(UX).
LEMMA GiveUpSettles ==
  ASSUME vr_uh \in SN, vr_ux \in SN, StateOK(Reassembly), Settled(Reassembly, vr_uh),
         RxBase(vr_ux, vr_uh) <= W
  PROVE  StateOK(GiveUp) /\ Settled(GiveUp, vr_uh)
<1> DEFINE st == [Reassembly EXCEPT !.lost = TRUE, !.sdu = << >>]
           Good(s) == StateOK(s) /\ Settled(s, vr_uh)
<1>1. PICK f : /\ GiveUp = f[MOD] /\ f[0] = st
               /\ \A n \in 1 .. MOD : f[n] = SkipRound(f[n - 1])
  BY SkipRuns
<1>2. /\ MOD \in Nat /\ W \in Nat /\ W > 0 /\ MOD = 2 * W
      /\ \A x \in SN : RxBase(x, vr_uh) \in Nat /\ RxBase(x, vr_uh) < MOD
  BY PositionRange
<1>3. Good(st)
  <2> DEFINE s == Reassembly
  <2>1. /\ DOMAIN st = DOMAIN s /\ st.ur = s.ur /\ st.win = s.win /\ st.last = s.last
        /\ st.lost = TRUE
    BY DEF Reassembly
  <2> HIDE DEF s, st
  <2>2. StateOK(s) /\ Settled(s, vr_uh)
    BY DEF s
  <2> QED
    BY <2>1, <2>2 DEF StateOK, Settled, Ready
<1> HIDE DEF st
<1>4. ASSUME NEW s, Good(s) PROVE Good(SkipRound(s))
  <2>1. CASE RxBase(s.ur, vr_uh) < RxBase(vr_ux, vr_uh)
    <3> DEFINE t == [s EXCEPT !.ur = (@ + 1) % MOD]
    <3>1. s.ur \in SN /\ DOMAIN s.win \subseteq SN /\ DOMAIN s = Fields
      BY <1>4 DEF StateOK
    <3>2. /\ DOMAIN t = Fields /\ t.ur = (s.ur + 1) % MOD /\ t.win = s.win
          /\ t.last = s.last /\ t.lost = s.lost
      BY <3>1 DEF Fields
    <3>3. SkipRound(s) = ReassembleRxSdus(t, vr_uh)
      BY <2>1 DEF SkipRound
    <3> HIDE DEF t
    <3>4. t.ur \in SN /\ RxBase(t.ur, vr_uh)
            = IF RxBase(s.ur, vr_uh) = MOD - 1 THEN 0 ELSE RxBase(s.ur, vr_uh) + 1
      BY <3>1, <3>2, Positions
    <3>5. /\ RxBase(s.ur, vr_uh) \in Nat /\ RxBase(vr_ux, vr_uh) \in Nat
      BY <1>2, <3>1
    <3>6. RxBase(t.ur, vr_uh) = RxBase(s.ur, vr_uh) + 1 /\ RxBase(t.ur, vr_uh) <= W
      BY <1>2, <2>1, <3>4, <3>5
    <3>7. StateOK(t)
      BY <1>4, <3>2, <3>4 DEF StateOK
    <3>8. ASSUME NEW sn \in DOMAIN t.win
          PROVE  RxBase(t.ur, vr_uh) <= RxBase(sn, vr_uh) /\ RxBase(sn, vr_uh) < W
      <4>1. /\ sn \in SN /\ sn # s.ur /\ RxBase(sn, vr_uh) < W
            /\ RxBase(s.ur, vr_uh) <= RxBase(sn, vr_uh)
        BY <1>4, <3>1, <3>2 DEF Settled, Ready
      <4>2. RxBase(sn, vr_uh) # RxBase(s.ur, vr_uh) /\ RxBase(sn, vr_uh) \in Nat
        BY <1>2, <3>1, <4>1, Positions
      <4> QED
        BY <3>5, <3>6, <4>1, <4>2
    <3>9. Ready(t, vr_uh)
      BY <3>6, <3>8 DEF Ready
    <3> QED
      BY <3>3, <3>7, <3>9, ReassembleInside DEF Walked
  <2>2. CASE ~(RxBase(s.ur, vr_uh) < RxBase(vr_ux, vr_uh))
    BY <1>4, <2>2 DEF SkipRound
  <2> QED
    BY <2>1, <2>2
<1> DEFINE S == {n \in 0 .. MOD : Good(f[n])}
<1> HIDE DEF Good
<1>5. 0 \in S
  BY <1>1, <1>2, <1>3
<1>6. ASSUME NEW n \in 1 .. MOD, n - 1 \in S PROVE n \in S
  BY <1>1, <1>2, <1>4, <1>6
<1>7. MOD \in S
  <2> HIDE DEF S
  <2>1. MOD \in 0 .. MOD
    BY <1>2
  <2> QED
    BY <1>2, <1>5, <1>6, <2>1, Rounds
<1> QED
  BY <1>1, <1>7 DEF Good

\* handle_data_pdu with a PDU inside of the window.
LEMMA WriteInside ==
  ASSUME NEW pdu, PduOK(pdu), vr_uh \in SN, StateOK(Reassembly), Settled(Reassembly, vr_uh),
         NEW win, DOMAIN win = DOMAIN rx_window \cup {pdu.sn},
         \A sn \in DOMAIN win : PduOK(win[sn]),
         RxBase(pdu.sn, vr_uh) >= RxBase(vr_ur, vr_uh), RxBase(pdu.sn, vr_uh) < W,
         NEW r, r = ReassembleRxSdus([Reassembly EXCEPT !.win = win], vr_uh)
  PROVE  StateOK(r) /\ Settled(r, vr_uh)
<1> DEFINE s == Reassembly
           t == [Reassembly EXCEPT !.win = win]
<1>1. /\ DOMAIN t = DOMAIN s /\ t.ur = s.ur /\ t.win = win /\ t.last = s.last
      /\ t.lost = s.lost /\ s.win = rx_window /\ s.ur = vr_ur
  BY DEF Reassembly
<1>2. StateOK(s) /\ Settled(s, vr_uh) /\ r = ReassembleRxSdus(t, vr_uh)
  OBVIOUS
<1> HIDE DEF s, t
<1>3. pdu.sn \in SN /\ s.ur \in SN
  BY <1>2 DEF PduOK, StateOK
<1>4. StateOK(t)
  BY <1>1, <1>2, <1>3 DEF StateOK
<1>5. Ready(t, vr_uh)
  BY <1>1, <1>2 DEF Settled, Ready
<1> QED
  BY <1>2, <1>4, <1>5, ReassembleInside DEF Walked

\* handle_data_pdu with a PDU beyond the window: VR(UH) goes up to it, PDUs that fall
\* out of the window are taken out first.  Nothing is left waiting only if the PDU was
\* the next one, so that the window has moved by one SN.
LEMMA WriteBeyond ==
  ASSUME NEW pdu, PduOK(pdu), vr_uh \in SN, StateOK(Reassembly), Settled(Reassembly, vr_uh),
         NEW win, DOMAIN win = DOMAIN rx_window \cup {pdu.sn},
         \A sn \in DOMAIN win : PduOK(win[sn]),
         RxBase(pdu.sn, vr_uh) >= W,
         NEW uh, uh = (pdu.sn + 1) % MOD,
         NEW r, r = ReassembleRxSdus([Reassembly EXCEPT !.win = win], uh)
  PROVE  /\ StateOK(r) /\ Settled(r, uh) /\ uh \in SN
         /\ DOMAIN r.win = {} /\ vr_ux \in SN /\ RxBase(vr_ux, vr_uh) >= 1
            => RxBase(vr_ux, uh) = RxBase(vr_ux, vr_uh) - 1
<1> DEFINE s == Reassembly
           t == [Reassembly EXCEPT !.win = win]
           b(x) == RxBase(x, vr_uh)
           c(x) == RxBase(x, uh)
           sn == pdu.sn
           d == b(sn) + 1 - W
<1>1. /\ DOMAIN t = DOMAIN s /\ t.ur = s.ur /\ t.win = win /\ t.last = s.last
      /\ t.lost = s.lost /\ s.win = rx_window
  BY DEF Reassembly
<1>2. StateOK(s) /\ Settled(s, vr_uh) /\ r = ReassembleRxSdus(t, uh)
  OBVIOUS
<1> HIDE DEF s, t
<1>3. sn \in SN /\ s.ur \in SN /\ DOMAIN s.win \subseteq SN
  BY <1>2 DEF PduOK, StateOK
<1>4. uh \in SN /\ b(uh) = IF b(sn) = MOD - 1 THEN 0 ELSE b(sn) + 1
  BY <1>3, Positions
<1>5. /\ MOD \in Nat /\ W \in Nat /\ W > 0 /\ MOD = 2 * W
      /\ \A x \in SN : b(x) \in Nat /\ b(x) < MOD
  BY PositionRange
<1>6. \A x \in SN : c(x) \in Nat /\ c(x) < MOD
  BY <1>4, PositionRange
<1>7. b(sn) \in Nat /\ b(sn) >= W /\ b(sn) < MOD /\ d \in Nat /\ d >= 1 /\ d <= W
  BY <1>3, <1>5
<1>8. ASSUME NEW x \in SN PROVE c(x) = IF b(x) >= d THEN b(x) - d ELSE b(x) - d + MOD
  <2> DEFINE e == b(x) - b(uh) + W
  <2>1. c(x) = IF e < 0 THEN e + MOD ELSE IF e >= MOD THEN e - MOD ELSE e
    BY <1>4, Moved
  <2>2. b(x) \in Nat /\ b(x) < MOD
    BY <1>5
  <2>3. MOD = 2 * W /\ W \in Nat
    BY <1>5
  <2>4. CASE b(sn) = MOD - 1
    <3>1. d = W /\ b(uh) = 0
      BY <1>4, <2>3, <2>4
    <3> HIDE DEF b, c, d
    <3> QED
      BY <2>1, <2>2, <2>3, <3>1
  <2>5. CASE b(sn) # MOD - 1
    <3>1. b(uh) = b(sn) + 1 /\ b(sn) \in Nat /\ b(sn) >= W /\ b(sn) < MOD
      BY <1>4, <1>7, <2>5
    <3> HIDE DEF b, c
    <3> QED
      BY <2>1, <2>2, <2>3, <3>1
  <2> QED
    BY <2>4, <2>5
<1>9. StateOK(t)
  BY <1>1, <1>2, <1>3 DEF StateOK
<1>10. b(s.ur) <= W /\ \A x \in DOMAIN s.win : b(s.ur) < b(x) /\ b(x) < W
  <2>1. ASSUME NEW x \in DOMAIN s.win PROVE b(s.ur) < b(x) /\ b(x) < W
    <3>1. x \in SN /\ x # s.ur /\ b(s.ur) <= b(x) /\ b(x) < W
      BY <1>2, <1>3 DEF Settled, Ready
    <3>2. b(x) # b(s.ur) /\ b(x) \in Nat /\ b(s.ur) \in Nat
      BY <1>3, <1>5, <3>1, Positions
    <3> HIDE DEF b
    <3> QED
      BY <3>1, <3>2
  <2> QED
    BY <1>2, <2>1 DEF Settled, Ready
<1> HIDE DEF b, c
<1>11. c(sn) = W - 1
  BY <1>3, <1>5, <1>7, <1>8
<1>12. b(s.ur) \in Nat
  BY <1>3, <1>5
\* From u on the second loop goes through the PDUs.
<1>13. PICK u : /\ StateOK(u) /\ Ready(u, uh) /\ r = TakenInSequence(u)
                /\ sn \in DOMAIN u.win /\ DOMAIN u.win \subseteq DOMAIN win
                /\ d >= 2 => c(u.ur) <= W - 2
  <2>1. CASE b(s.ur) >= d
    <3>1. c(s.ur) = b(s.ur) - d
      BY <1>3, <1>8, <2>1
    <3>2. c(s.ur) < W /\ (d >= 2 => c(s.ur) <= W - 2)
      BY <1>5, <1>7, <1>10, <1>12, <3>1
    <3>3. ASSUME NEW x \in DOMAIN win PROVE c(s.ur) <= c(x) /\ c(x) < W
      <4>1. CASE x = sn
        BY <1>5, <1>7, <1>10, <1>11, <1>12, <3>1, <4>1
      <4>2. CASE x # sn
        <5>1. x \in DOMAIN s.win /\ x \in SN
          BY <1>1, <1>3, <4>2
        <5>2. b(s.ur) < b(x) /\ b(x) < W /\ b(x) \in Nat
          BY <1>5, <1>10, <5>1
        <5>3. c(x) = b(x) - d
          BY <1>7, <1>8, <1>12, <2>1, <5>1, <5>2
        <5> QED
          BY <1>5, <1>7, <1>12, <3>1, <5>2, <5>3
      <4> QED
        BY <4>1, <4>2
    <3>4. Ready(t, uh)
      BY <1>1, <1>5, <3>2, <3>3, <1>6, <1>3 DEF Ready, c
    <3>5. InsideReorderingWindow(t.ur, uh, t.win)
      BY <1>1, <1>3, <1>4, <3>2, Inside DEF c
    <3>6. r = TakenInSequence(t)
      BY <1>2, <3>5, LowerIdle, TwoLoops
    <3> QED
      BY <1>1, <1>9, <3>2, <3>4, <3>6
  <2>2. CASE ~(b(s.ur) >= d)
    <3>1. c(s.ur) = b(s.ur) - d + MOD /\ c(s.ur) >= W
      BY <1>3, <1>5, <1>7, <1>8, <1>12, <2>2
    <3>2. ASSUME NEW x \in DOMAIN win PROVE c(x) < W \/ c(s.ur) <= c(x)
      <4>1. CASE x = sn
        BY <1>5, <1>11, <4>1
      <4>2. CASE x # sn
        <5>1. x \in DOMAIN s.win /\ x \in SN
          BY <1>1, <1>3, <4>2
        <5>2. b(s.ur) < b(x) /\ b(x) < W /\ b(x) \in Nat
          BY <1>5, <1>10, <5>1
        <5>3. c(x) = IF b(x) >= d THEN b(x) - d ELSE b(x) - d + MOD
          BY <1>8, <5>1
        <5> QED
          BY <1>5, <1>7, <1>12, <3>1, <5>2, <5>3
      <4> QED
        BY <4>1, <4>2
    <3> DEFINE u == CaughtUp(t, uh)
    <3>3. sn \in DOMAIN t.win /\ c(sn) < W
      BY <1>1, <1>5, <1>11
    <3>4. /\ StateOK(u) /\ c(u.ur) = 0
          /\ DOMAIN u.win = {x \in DOMAIN t.win : c(x) < W}
      BY <1>1, <1>4, <1>9, <3>1, <3>2, <3>3, LowerLoop DEF c
    <3>5. r = TakenInSequence(u)
      BY <1>2, TwoLoops
    <3> HIDE DEF u
    <3>6. \A x \in DOMAIN u.win : x \in SN /\ c(x) \in Nat /\ c(x) < W
      BY <1>6, <3>4 DEF StateOK
    <3>7. Ready(u, uh)
      BY <1>5, <3>4, <3>6 DEF Ready, c
    <3>8. d >= 2 => c(u.ur) <= W - 2
      BY <1>5, <1>7, <3>4
    <3> QED
      BY <1>1, <3>3, <3>4, <3>5, <3>7, <3>8
  <2> QED
    BY <2>1, <2>2
<1>14. Walked(r, u, uh) /\ r.ur \notin DOMAIN r.win
  BY <1>4, <1>13, SequenceLoop
<1>15. StateOK(r) /\ Settled(r, uh)
  BY <1>13, <1>14 DEF Walked, Settled, Ready
<1>16. ASSUME DOMAIN r.win = {} PROVE d = 1
  <2>1. SUFFICES ASSUME d >= 2 PROVE FALSE
    BY <1>7
  <2>2. r.ur \in SN /\ ~(c(r.ur) <= c(sn))
    BY <1>13, <1>14, <1>16 DEF Walked, StateOK, c
  <2>3. c(r.ur) \in Nat /\ c(r.ur) >= W
    BY <1>5, <1>6, <1>11, <2>2
  <2> DEFINE x == IF sn = 0 THEN MOD - 1 ELSE sn - 1
  <2>4. x \in SN /\ (x + 1) % MOD = sn /\ x # sn
    <3> HIDE DEF sn
    <3>1. /\ SN = 0 .. MOD - 1 /\ MOD \in Nat /\ MOD > 1 /\ sn \in Nat /\ sn < MOD
      BY <1>3, <1>5 DEF SN
    <3>2. MOD % MOD = 0 /\ sn % MOD = sn
      BY <3>1
    <3>3. x + 1 = IF sn = 0 THEN MOD ELSE sn
      BY <3>1
    <3> QED
      BY <3>1, <3>2, <3>3
  <2> HIDE DEF x
  <2>5. b(sn) = IF b(x) = MOD - 1 THEN 0 ELSE b(x) + 1
    BY <2>4, Positions DEF b
  <2>6. b(x) = b(sn) - 1 /\ b(x) \in Nat
    BY <1>5, <1>7, <2>4, <2>5
  <2>7. c(x) = W - 2
    BY <1>5, <1>7, <1>8, <2>1, <2>4, <2>6
  <2>8. x \notin DOMAIN win
    <3>1. ~(b(x) < W)
      BY <1>5, <1>7, <2>1, <2>6
    <3> QED
      BY <1>1, <1>10, <2>4, <3>1
  <2>9. c(u.ur) <= c(x) /\ c(x) < c(r.ur)
    BY <1>5, <1>13, <2>1, <2>3, <2>7
  <2>10. x \in DOMAIN u.win
    BY <1>14, <2>4, <2>9 DEF Walked, c
  <2> QED
    BY <1>13, <2>8, <2>10
<1>17. ASSUME DOMAIN r.win = {}, NEW x \in SN, b(x) >= 1 PROVE c(x) = b(x) - 1
  BY <1>8, <1>16, <1>17
<1> QED
  BY <1>4, <1>15, <1>17 DEF b, c

-----------------------------------------------------------------------------
(* The invariant of the receiver.                                              *)

RxOK ==
  /\ vr_uh \in SN /\ vr_ux \in SN /\ reordering_timer \in BOOLEAN
  /\ StateOK(Reassembly) /\ Settled(Reassembly, vr_uh)
  /\ DOMAIN rx_window # {} => reordering_timer
  /\ reordering_timer => RxBase(vr_ux, vr_uh) >= 1 /\ RxBase(vr_ux, vr_uh) <= W

\* What reassembly leaves is what the next handler finds.
LEMMA LeftBehind ==
  ASSUME NEW st, StateOK(st), Settled(st, vr_uh'), Reassembled(st)
  PROVE  StateOK(Reassembly)' /\ Settled(Reassembly, vr_uh)' /\ rx_window' = st.win
<1> DEFINE r == Reassembly'
<1>1. /\ DOMAIN r = Fields /\ r.ur = st.ur /\ r.win = st.win /\ r.last = st.last
      /\ r.lost = st.lost /\ rx_window' = st.win
  BY DEF Reassembled, Reassembly, Fields
<1> HIDE DEF r
<1>2. StateOK(r)
  BY <1>1 DEF StateOK
<1>3. Settled(r, vr_uh')
  BY <1>1 DEF Settled, Ready
<1> QED
  BY <1>1, <1>2, <1>3 DEF r, StateOK, Settled, Ready, RxBase

\* The end of handle_data_pdu and of timer_expired: the timer runs if a PDU waits.
LEMMA Restarted ==
  ASSUME NEW st, NEW uh \in SN, NEW running \in BOOLEAN, StateOK(st), Settled(st, uh),
         vr_ux \in SN, StartReordering(st, uh, running),
         running => RxBase(vr_ux, uh) >= 1 /\ RxBase(vr_ux, uh) <= W
  PROVE  /\ vr_ux' \in SN /\ reordering_timer' \in BOOLEAN
         /\ DOMAIN st.win # {} => reordering_timer'
         /\ reordering_timer' => RxBase(vr_ux', uh) >= 1 /\ RxBase(vr_ux', uh) <= W
<1> DEFINE starts == ~running /\ RxBase(uh, uh) > RxBase(st.ur, uh)
<1>1. reordering_timer' = (running \/ starts) /\ vr_ux' = IF starts THEN uh ELSE vr_ux
  BY DEF StartReordering
<1>2. /\ RxBase(uh, uh) = W /\ W \in Nat /\ W >= 1 /\ st.ur \in SN
      /\ RxBase(st.ur, uh) \in Nat /\ DOMAIN st.win \subseteq SN
  <2>1. RxBase(uh, uh) = W /\ W \in Nat /\ W >= 1
    BY TopPosition
  <2>2. st.ur \in SN /\ DOMAIN st.win \subseteq SN
    BY DEF StateOK
  <2> QED
    BY <2>1, <2>2, PositionRange
<1>3. ASSUME NEW sn \in DOMAIN st.win PROVE RxBase(st.ur, uh) < W
  <2>1. sn \in SN /\ RxBase(st.ur, uh) <= RxBase(sn, uh) /\ RxBase(sn, uh) < W
    BY <1>2 DEF Settled, Ready
  <2>2. RxBase(sn, uh) \in Nat
    BY <2>1, PositionRange
  <2> QED
    BY <1>2, <2>1, <2>2
<1>4. DOMAIN st.win # {} => running \/ starts
  BY <1>2, <1>3
<1>5. starts \in BOOLEAN
  OBVIOUS
<1> HIDE DEF starts
<1>6. reordering_timer' \in BOOLEAN /\ (DOMAIN st.win # {} => reordering_timer')
  BY <1>1, <1>4
<1>7. CASE starts
  BY <1>1, <1>2, <1>6, <1>7
<1>8. CASE ~starts
  BY <1>1, <1>6, <1>8
<1> QED
  BY <1>7, <1>8

\* handle_data_pdu keeps the invariant of the receiver.
LEMMA WriteKeeps ==
  ASSUME RxOK, NEW pdu, PduOK(pdu), WritePdu(pdu)
  PROVE  RxOK'
<1> DEFINE win == [sn \in DOMAIN rx_window \cup {pdu.sn} |->
                    IF sn = pdu.sn THEN pdu ELSE rx_window[sn]]
           uh  == IF InsideReorderingWindow(pdu.sn, vr_uh, win) THEN vr_uh
                  ELSE (pdu.sn + 1) % MOD
           r == ReassembleRxSdus([Reassembly EXCEPT !.win = win], uh)
           running == reordering_timer /\ ~ReorderingDone(r, uh)
<1>1. /\ vr_uh' = uh /\ Reassembled(r) /\ StartReordering(r, uh, running)
      /\ RxBase(pdu.sn, vr_uh) >= RxBase(vr_ur, vr_uh)
  BY DEF WritePdu
<1>2. /\ DOMAIN win = DOMAIN rx_window \cup {pdu.sn} /\ DOMAIN win # {}
      /\ \A sn \in DOMAIN win : win[sn] = IF sn = pdu.sn THEN pdu ELSE rx_window[sn]
  OBVIOUS
<1>3. /\ vr_uh \in SN /\ vr_ux \in SN /\ StateOK(Reassembly) /\ Settled(Reassembly, vr_uh)
      /\ reordering_timer \in BOOLEAN /\ pdu.sn \in SN
  BY DEF RxOK, PduOK
<1>4. \A sn \in DOMAIN rx_window : PduOK(rx_window[sn])
  <2>1. Reassembly.win = rx_window
    BY DEF Reassembly
  <2> QED
    BY <1>3, <2>1 DEF StateOK
<1>5. \A sn \in DOMAIN win : PduOK(win[sn])
  BY <1>2, <1>4
<1> HIDE DEF win
<1>6. InsideReorderingWindow(pdu.sn, vr_uh, win) <=> RxBase(pdu.sn, vr_uh) < W
  BY <1>2, <1>3, Inside
<1>7. /\ W \in Nat /\ RxBase(pdu.sn, vr_uh) \in Nat /\ RxBase(vr_ux, vr_uh) \in Nat
  BY <1>3, PositionRange
<1>8. /\ StateOK(r) /\ Settled(r, uh) /\ uh \in SN
      /\ reordering_timer /\ DOMAIN r.win = {} => RxBase(vr_ux, uh) <= W
  <2>1. CASE RxBase(pdu.sn, vr_uh) < W
    <3>1. uh = vr_uh
      BY <1>6, <2>1
    <3> HIDE DEF uh
    <3>2. StateOK(r) /\ Settled(r, vr_uh)
      BY <1>1, <1>2, <1>3, <1>5, <2>1, <3>1, WriteInside
    <3> HIDE DEF r
    <3> QED
      BY <1>3, <3>1, <3>2 DEF RxOK
  <2>2. CASE ~(RxBase(pdu.sn, vr_uh) < W)
    <3>1. uh = (pdu.sn + 1) % MOD /\ RxBase(pdu.sn, vr_uh) >= W
      BY <1>6, <1>7, <2>2
    <3>0. r = ReassembleRxSdus([Reassembly EXCEPT !.win = win], uh)
      OBVIOUS
    <3> HIDE DEF uh, r
    <3>2. /\ StateOK(r) /\ Settled(r, uh) /\ uh \in SN
          /\ DOMAIN r.win = {} /\ vr_ux \in SN /\ RxBase(vr_ux, vr_uh) >= 1
             => RxBase(vr_ux, uh) = RxBase(vr_ux, vr_uh) - 1
      <4>1. DOMAIN win = DOMAIN rx_window \cup {pdu.sn}
        BY <1>2
      <4>2. vr_uh \in SN /\ StateOK(Reassembly) /\ Settled(Reassembly, vr_uh)
        BY <1>3
      <4>3. PduOK(pdu)
        OBVIOUS
      <4>4. uh = (pdu.sn + 1) % MOD
        BY <3>1
      <4>5. RxBase(pdu.sn, vr_uh) >= W
        BY <3>1
      <4> QED
        BY ONLY <4>1, <4>2, <4>3, <4>4, <4>5, <1>5, <3>0, WriteBeyond
    <3>3. ASSUME reordering_timer, DOMAIN r.win = {} PROVE RxBase(vr_ux, uh) <= W
      <4>1. RxBase(vr_ux, vr_uh) >= 1 /\ RxBase(vr_ux, vr_uh) <= W
        BY <3>3 DEF RxOK
      <4>2. RxBase(vr_ux, uh) = RxBase(vr_ux, vr_uh) - 1
        BY <1>3, <3>2, <3>3, <4>1
      <4> QED
        BY <1>7, <4>1, <4>2
    <3> QED
      BY <3>2, <3>3
  <2> QED
    BY <2>1, <2>2
<1> HIDE DEF uh, r
<1>9. ASSUME running PROVE RxBase(vr_ux, uh) >= 1 /\ RxBase(vr_ux, uh) <= W
  <2>1. r.ur \in SN
    BY <1>8 DEF StateOK
  <2>2. RxBase(vr_ux, uh) \in Nat /\ RxBase(r.ur, uh) \in Nat /\ RxBase(uh, uh) = W
    BY <1>3, <1>8, <2>1, PositionRange, Positions
  <2>3. ~(RxBase(vr_ux, uh) <= RxBase(r.ur, uh))
    BY <1>9 DEF ReorderingDone
  <2>4. InsideReorderingWindow(vr_ux, uh, r.win) \/ vr_ux = uh
    BY <1>9 DEF ReorderingDone
  <2>5. RxBase(vr_ux, uh) <= W
    <3>1. CASE vr_ux = uh
      BY <1>7, <2>2, <3>1
    <3>2. CASE DOMAIN r.win = {}
      BY <1>8, <1>9, <3>2
    <3>3. CASE RxBase(vr_ux, uh) < W
      BY <1>7, <2>2, <3>3
    <3> QED
      BY <1>3, <1>8, <2>4, <3>1, <3>2, <3>3, Inside
  <2> QED
    BY <2>2, <2>3, <2>5
<1>10. running \in BOOLEAN
  BY <1>3
<1> HIDE DEF running
<1>11. /\ vr_ux' \in SN /\ reordering_timer' \in BOOLEAN
       /\ DOMAIN r.win # {} => reordering_timer'
       /\ reordering_timer' => RxBase(vr_ux', uh) >= 1 /\ RxBase(vr_ux', uh) <= W
  BY <1>1, <1>3, <1>8, <1>9, <1>10, Restarted
<1>12. StateOK(Reassembly)' /\ Settled(Reassembly, vr_uh)' /\ rx_window' = r.win
  BY <1>1, <1>8, LeftBehind
<1>13. vr_uh' = uh
  BY <1>1
<1> QED
  BY <1>8, <1>11, <1>12, <1>13 DEF RxOK, RxBase

\* timer_expired keeps it.
LEMMA ExpiredKeeps ==
  ASSUME RxOK, ReorderingExpired
  PROVE  RxOK'
<1> DEFINE r == GiveUp
<1>1. /\ reordering_timer /\ vr_uh' = vr_uh /\ Reassembled(r)
      /\ StartReordering(r, vr_uh, FALSE)
  BY DEF ReorderingExpired
<1>2. StateOK(r) /\ Settled(r, vr_uh) /\ vr_uh \in SN /\ vr_ux \in SN
  BY <1>1, GiveUpSettles DEF RxOK
<1> HIDE DEF r
<1>3. /\ vr_ux' \in SN /\ reordering_timer' \in BOOLEAN
      /\ DOMAIN r.win # {} => reordering_timer'
      /\ reordering_timer' => RxBase(vr_ux', vr_uh) >= 1 /\ RxBase(vr_ux', vr_uh) <= W
  BY <1>1, <1>2, Restarted
<1>4. StateOK(Reassembly)' /\ Settled(Reassembly, vr_uh)' /\ rx_window' = r.win
  BY <1>1, <1>2, LeftBehind
<1> QED
  BY <1>1, <1>2, <1>3, <1>4 DEF RxOK, RxBase

\* A receiver with all its SNs at s, and nothing in its window.
LEMMA EmptyWindow ==
  ASSUME NEW s \in SN, vr_ur = s, vr_ux = s, vr_uh = s, vr_ur_in_rx_sdu \in SN,
         pdu_lost \in BOOLEAN, reordering_timer \in BOOLEAN, DOMAIN rx_window = {}
  PROVE  RxOK
<1> DEFINE r == Reassembly
<1>1. /\ DOMAIN r = Fields /\ r.ur = s /\ r.win = rx_window /\ r.last = vr_ur_in_rx_sdu
      /\ r.lost = pdu_lost
  BY DEF Reassembly, Fields
<1> HIDE DEF r
<1>2. RxBase(s, s) = W /\ W \in Nat /\ W >= 1
  BY TopPosition
<1>3. StateOK(r) /\ Settled(r, s)
  BY <1>1, <1>2 DEF StateOK, Settled, Ready
<1> QED
  BY <1>2, <1>3 DEF RxOK, r

\* reestablish keeps it: the timer may go on running, for VR(UX) = VR(UR) = 0.
LEMMA RxReestablishKeeps ==
  ASSUME RxOK, RxReestablish
  PROVE  RxOK'
<1>1. PICK st \in {IF reordering_timer THEN GiveUp ELSE Reassembly} :
            /\ vr_ur_in_rx_sdu' = st.last
            /\ reordering_timer' = (/\ reordering_timer
                                    /\ RxBase(vr_uh, vr_uh) > RxBase(st.ur, vr_uh))
  BY DEF RxReestablish
<1>2. StateOK(st)
  BY <1>1, GiveUpSettles DEF RxOK
<1>3. /\ vr_ur' = 0 /\ vr_ux' = 0 /\ vr_uh' = 0 /\ DOMAIN rx_window' = {}
      /\ pdu_lost' = FALSE
  BY DEF RxReestablish
<1>4. st.last \in SN /\ reordering_timer' \in BOOLEAN
  BY <1>1, <1>2 DEF StateOK, RxOK
<1>5. 0 \in SN
  BY UmTxAssumption DEF SN, MOD
<1> DEFINE r == Reassembly'
<1>6. /\ DOMAIN r = Fields /\ r.ur = 0 /\ r.win = rx_window' /\ r.last = st.last
      /\ r.lost = FALSE
  BY <1>1, <1>3 DEF Reassembly, Fields
<1> HIDE DEF r
<1>7. RxBase(0, 0) = W /\ W \in Nat /\ W >= 1
  BY <1>5, TopPosition
<1>8. StateOK(r) /\ Settled(r, 0)
  <2>1. DOMAIN r.win = {}
    BY <1>3, <1>6
  <2>2. StateOK(r)
    BY <1>4, <1>5, <1>6, <2>1 DEF StateOK
  <2>3. RxBase(r.ur, 0) <= W
    BY <1>6, <1>7
  <2> QED
    BY <2>1, <2>2, <2>3 DEF Settled, Ready
<1>9. StateOK(Reassembly)' /\ Settled(Reassembly, vr_uh)'
  BY <1>3, <1>8 DEF r, StateOK, Settled, Ready, RxBase
<1> QED
  BY <1>3, <1>4, <1>5, <1>7, <1>9 DEF RxOK, RxBase

-----------------------------------------------------------------------------
(* The transmitter.                                                            *)

TxOK ==
  /\ vt_us \in SN /\ mac \in {"idle", "reading"} /\ tx_enabled \in BOOLEAN
  /\ tx_sdu_queue \in Seq(Nat) /\ Len(tx_sdu_queue) <= QueueLen /\ written \in Nat

\* What build_data_pdu sends next is the SDU begun, then the ones in the queue.
LEMMA PendingIsSeq ==
  ASSUME tx_sdu_queue \in Seq(Nat)
  PROVE  /\ Len(Pending) \in Nat /\ DOMAIN Pending = 1 .. Len(Pending)
         /\ Len(Pending) = Len(tx_sdu_queue) + (IF tx_sdu = NoSdu THEN 0 ELSE 1)
         /\ Pending # << >> => Len(Pending) # 0
<1> DEFINE n == Len(tx_sdu_queue)
           e(i) == [s |-> tx_sdu_queue[i], k |-> 0]
           a == IF tx_sdu = NoSdu THEN << >> ELSE <<tx_sdu>>
           b == [i \in DOMAIN tx_sdu_queue |-> e(i)]
           S == {tx_sdu} \cup {e(i) : i \in 1 .. n}
<1>1. n \in Nat /\ DOMAIN tx_sdu_queue = 1 .. n
  BY LenProperties
<1>2. b \in [1 .. n -> S]
  BY <1>1
<1>3. DOMAIN b = 1 .. n
  BY <1>1
<1>4. Pending = a \o b
  BY DEF Pending
<1>5. tx_sdu \in S
  OBVIOUS
<1> HIDE DEF b, S
<1>6. b \in Seq(S) /\ Len(b) = n
  <2>1. b \in Seq(S)
    BY <1>1, <1>2, SeqDef
  <2>2. Len(b) \in Nat /\ DOMAIN b = 1 .. Len(b)
    BY <2>1, LenProperties
  <2> QED
    BY <1>1, <1>3, <2>1, <2>2
<1>7. a \in Seq(S) /\ Len(a) = IF tx_sdu = NoSdu THEN 0 ELSE 1
  <2>1. << >> \in Seq(S) /\ Len(<< >>) = 0
    BY EmptySeq
  <2>2. Append(<< >>, tx_sdu) \in Seq(S) /\ Len(Append(<< >>, tx_sdu)) = Len(<< >>) + 1
    BY <1>5, <2>1, AppendProperties
  <2>3. Append(<< >>, tx_sdu) = <<tx_sdu>>
    OBVIOUS
  <2> QED
    BY <2>1, <2>2, <2>3
<1> HIDE DEF a
<1>8. a \o b \in Seq(S) /\ Len(a \o b) = Len(a) + Len(b)
  BY <1>6, <1>7, ConcatProperties
<1>9. Pending \in Seq(S) /\ Len(Pending) = Len(a) + n
  BY <1>4, <1>6, <1>8
<1>10. Len(Pending) \in Nat /\ DOMAIN Pending = 1 .. Len(Pending)
  BY <1>9, LenProperties
<1>11. Pending # << >> => Len(Pending) # 0
  BY <1>9, EmptySeq
<1> QED
  BY <1>1, <1>7, <1>9, <1>10, <1>11

\* A PDU has a part of an SDU when there is one, and of no more than there are.
LEMMA PartsRange ==
  ASSUME tx_sdu_queue \in Seq(Nat), Pending # << >>, NEW n
  PROVE  Parts(n) \in Nat \ {0} /\ Parts(n) <= Len(Pending)
<1> DEFINE l == Len(Pending)
           P == {i \in DOMAIN Pending :
                   \A j \in 1 .. i - 1 : Upto(j) < n /\ Remaining(Pending[j]) <= LiMax}
<1>1. l \in Nat /\ DOMAIN Pending = 1 .. l /\ l # 0
  BY PendingIsSeq, Zenon
<1>2. P \in SUBSET (1 .. l) /\ 1 \in P
  BY <1>1
<1>3. Parts(n) = Cardinality(P)
  BY DEF Parts
<1> HIDE DEF P, l
<1>4. IsFiniteSet(1 .. l) /\ Cardinality(1 .. l) = l
  BY <1>1, FS_Interval
<1>5. IsFiniteSet(P) /\ Cardinality(P) <= l
  BY <1>2, <1>4, FS_Subset
<1>6. Cardinality(P) \in Nat
  BY <1>5, FS_CardinalityType
<1>7. Cardinality(P) # 0
  <2>1. Cardinality(P) = 0 <=> P = {}
    BY <1>5, FS_EmptySet, Zenon
  <2> QED
    BY <1>2, <2>1
<1> QED
  BY <1>3, <1>5, <1>6, <1>7 DEF l

\* The PDU that build_data_pdu makes has an SN and at least one part.
LEMMA BuiltPduOK ==
  ASSUME TxOK, NEW n
  PROVE  PduOK(UmPdu(n))
<1> DEFINE pdu == UmPdu(n)
           part(i) == [c \in 1 .. CellsOf(i, n) |->
                         [s |-> Pending[i].s, k |-> Pending[i].k + c]]
           p == [i \in 1 .. Parts(n) |-> part(i)]
           S == {part(i) : i \in 1 .. Parts(n)}
<1>1. pdu.sn = vt_us /\ pdu.parts = IF Pending = << >> THEN << << >> >> ELSE p
  BY DEF UmPdu
<1>2. Pending # << >> => Len(p) \in Nat \ {0}
  <2>1. SUFFICES ASSUME Pending # << >> PROVE Len(p) \in Nat \ {0}
    OBVIOUS
  <2>2. Parts(n) \in Nat \ {0}
    BY <2>1, PartsRange DEF TxOK
  <2>3. p \in [1 .. Parts(n) -> S] /\ DOMAIN p = 1 .. Parts(n)
    OBVIOUS
  <2> HIDE DEF p, S
  <2>4. p \in Seq(S)
    BY <2>2, <2>3, SeqDef
  <2>5. Len(p) \in Nat /\ DOMAIN p = 1 .. Len(p)
    BY <2>4, LenProperties
  <2> QED
    BY <2>2, <2>3, <2>5
<1>3. Len(<< << >> >>) = 1
  <2>1. << >> \in Seq({<< >>}) /\ << >> \in {<< >>} /\ Len(<< >>) = 0
    BY EmptySeq
  <2>2. Len(Append(<< >>, << >>)) = Len(<< >>) + 1
    BY <2>1, AppendProperties
  <2>3. Append(<< >>, << >>) = << << >> >>
    OBVIOUS
  <2> QED
    BY <2>1, <2>2, <2>3
<1> HIDE DEF pdu, p
<1>4. Len(pdu.parts) \in Nat \ {0}
  BY <1>1, <1>2, <1>3
<1> QED
  BY <1>1, <1>4 DEF TxOK, PduOK, pdu

\* read_pdu leaves the transmitter with a queue not longer than before.
LEMMA BuildKeeps ==
  ASSUME TxOK, NEW n, BuildPdu(n)
  PROVE  TxOK'
<1> DEFINE q == tx_sdu_queue
           l == Len(q)
           m == Parts(n) - (IF tx_sdu = NoSdu THEN 0 ELSE 1)
<1>1. /\ q \in Seq(Nat) /\ l \in Nat /\ DOMAIN q = 1 .. l /\ l <= QueueLen
      /\ QueueLen \in Nat
  BY LenProperties, UmTxAssumption DEF TxOK
<1>2. vt_us' \in SN
  BY Positions DEF TxOK, BuildPdu
<1>3. tx_sdu_queue' \in Seq(Nat) /\ Len(tx_sdu_queue') <= QueueLen
  <2>1. CASE Pending = << >>
    BY <1>1, <2>1 DEF BuildPdu
  <2>2. CASE Pending # << >>
    <3>1. tx_sdu_queue' = SubSeq(q, m + 1, l)
      BY <2>2 DEF BuildPdu
    <3>2. Parts(n) \in Nat \ {0} /\ Parts(n) <= Len(Pending)
      BY <1>1, <2>2, PartsRange
    <3>3. m \in Nat
      BY <3>2
    <3> HIDE DEF m
    <3>4. \A i \in m + 1 .. l : q[i] \in Nat
      <4>1. ASSUME NEW i \in m + 1 .. l PROVE i \in 1 .. l
        BY <1>1, <3>3
      <4> QED
        BY <1>1, <4>1, ElementOfSeq
    <3> HIDE DEF q, l
    <3>5. /\ SubSeq(q, m + 1, l) \in Seq(Nat) /\ m + 1 \in Int /\ l \in Int
          /\ Len(SubSeq(q, m + 1, l)) = IF m + 1 <= l THEN l - (m + 1) + 1 ELSE 0
      BY <1>1, <3>3, <3>4, SubSeqProperties
    <3> QED
      BY <1>1, <3>1, <3>3, <3>5
  <2> QED
    BY <2>1, <2>2
<1>4. mac' = "idle" /\ tx_enabled' = tx_enabled /\ written' = written
  BY DEF BuildPdu
<1> QED
  BY <1>2, <1>3, <1>4 DEF TxOK

\* write_sdu on a full queue leaves it as it is.
LEMMA WriteSduKeeps ==
  ASSUME TxOK, WriteSdu
  PROVE  TxOK'
<1> DEFINE q == tx_sdu_queue
<1>1. /\ q \in Seq(Nat) /\ Len(q) \in Nat /\ Len(q) <= QueueLen /\ QueueLen \in Nat
      /\ written \in Nat /\ written + 1 \in Nat
  BY LenProperties, UmTxAssumption DEF TxOK
<1>2. tx_sdu_queue' \in Seq(Nat) /\ Len(tx_sdu_queue') <= QueueLen
  <2>1. CASE Len(q) < QueueLen
    <3>1. tx_sdu_queue' = Append(q, written + 1)
      BY <2>1 DEF WriteSdu
    <3> HIDE DEF q
    <3>2. /\ Append(q, written + 1) \in Seq(Nat)
          /\ Len(Append(q, written + 1)) = Len(q) + 1
      BY <1>1, AppendProperties
    <3> QED
      BY <1>1, <2>1, <3>1, <3>2
  <2>2. CASE ~(Len(q) < QueueLen)
    BY <1>1, <2>2 DEF WriteSdu
  <2> QED
    BY <2>1, <2>2
<1> QED
  BY <1>1, <1>2 DEF TxOK, WriteSdu

-----------------------------------------------------------------------------
(* The PDUs under way.                                                         *)

Carried(e) == DOMAIN e = {"pdu", "overtaken"} /\ PduOK(e.pdu)

DataOK(q) == \E S : q \in Seq(S) /\ \A e \in S : Carried(e)

\* Nothing is under way at first, and after a reset of the MACs.
LEMMA NothingCarried ==
  DataOK(<< >>)
<1> DEFINE S == {}
<1>1. \A e \in S : Carried(e)
  OBVIOUS
<1> HIDE DEF S
<1>2. << >> \in Seq(S)
  BY EmptySeq
<1> QED
  BY <1>1, <1>2, Zenon DEF DataOK

\* A PDU is added behind those under way.
LEMMA SentCarried ==
  ASSUME NEW q, DataOK(q), NEW pdu, PduOK(pdu)
  PROVE  DataOK(Append(q, [pdu |-> pdu, overtaken |-> 0]))
<1> DEFINE e == [pdu |-> pdu, overtaken |-> 0]
<1>1. Carried(e)
  BY DEF Carried
<1> HIDE DEF e
<1>2. PICK S : q \in Seq(S) /\ \A x \in S : Carried(x)
  BY DEF DataOK
<1> DEFINE T == S \cup {e}
<1>3. q \in Seq(T)
  <2>1. Len(q) \in Nat /\ q \in [1 .. Len(q) -> S]
    BY <1>2, LenProperties
  <2>2. q \in [1 .. Len(q) -> T]
    BY <2>1
  <2> QED
    BY <2>1, <2>2, SeqDef
<1>4. e \in T /\ \A x \in T : Carried(x)
  BY <1>1, <1>2
<1> HIDE DEF T
<1>5. Append(q, e) \in Seq(T)
  BY <1>3, <1>4, AppendProperties
<1> QED
  BY <1>4, <1>5 DEF DataOK, e

\* A PDU lost or arrived is taken out from among them.
LEMMA DroppedCarried ==
  ASSUME NEW q, DataOK(q), NEW i \in DOMAIN q
  PROVE  DataOK(Drop(q, i))
<1>1. PICK S : q \in Seq(S) /\ \A x \in S : Carried(x)
  BY DEF DataOK
<1> DEFINE l == Len(q)
           a == SubSeq(q, 1, i - 1)
           b == SubSeq(q, i + 1, l)
<1>2. l \in Nat /\ DOMAIN q = 1 .. l /\ i \in 1 .. l /\ \A j \in 1 .. l : q[j] \in S
  BY <1>1, LenProperties, ElementOfSeq
<1> HIDE DEF l
<1>3. /\ 1 \in Int /\ i - 1 \in Int /\ i + 1 \in Int /\ l \in Int
      /\ \A j \in 1 .. i - 1 : j \in 1 .. l
      /\ \A j \in i + 1 .. l : j \in 1 .. l
  BY <1>2
<1>4. a \in Seq(S)
  BY <1>2, <1>3, SubSeqProperties
<1>5. b \in Seq(S)
  BY <1>2, <1>3, SubSeqProperties
<1>6. Drop(q, i) = a \o b
  BY DEF Drop, l
<1> HIDE DEF a, b
<1>7. a \o b \in Seq(S)
  BY <1>4, <1>5, ConcatProperties
<1> QED
  BY <1>1, <1>6, <1>7 DEF DataOK

\* The PDUs that are overtaken are counted, and stay what they are.
LEMMA OvertakenCarried ==
  ASSUME NEW q, DataOK(q), NEW i
  PROVE  /\ DataOK([j \in DOMAIN q |->
                      IF j < i THEN [q[j] EXCEPT !.overtaken = @ + 1] ELSE q[j]])
         /\ \A j \in DOMAIN q : Carried(q[j])
<1> DEFINE e(j) == IF j < i THEN [q[j] EXCEPT !.overtaken = @ + 1] ELSE q[j]
           p == [j \in DOMAIN q |-> e(j)]
           T == {e(j) : j \in DOMAIN q}
<1>1. PICK S : q \in Seq(S) /\ \A x \in S : Carried(x)
  BY DEF DataOK
<1>2. Len(q) \in Nat /\ DOMAIN q = 1 .. Len(q)
  BY <1>1, LenProperties
<1>3. ASSUME NEW j \in DOMAIN q PROVE Carried(q[j])
  BY <1>1, <1>2, ElementOfSeq
<1>4. ASSUME NEW x, Carried(x) PROVE Carried([x EXCEPT !.overtaken = @ + 1])
  BY <1>4 DEF Carried
<1>5. ASSUME NEW j \in DOMAIN q PROVE Carried(e(j))
  BY <1>3, <1>4
<1>6. \A x \in T : Carried(x)
  BY <1>5
<1>7. p \in [1 .. Len(q) -> T]
  BY <1>2
<1> HIDE DEF p, T
<1>8. p \in Seq(T)
  BY <1>2, <1>7, SeqDef
<1>9. DataOK(p)
  BY <1>6, <1>8 DEF DataOK
<1> QED
  BY <1>3, <1>9 DEF p

-----------------------------------------------------------------------------
(* The bearer.                                                                 *)

\* The inductive invariant of the bearer.
UmInv == RxOK /\ TxOK /\ DataOK(data) /\ intact \in BOOLEAN

\* A bearer that has gone quiet, or a new one: all SNs agree and nothing waits.
LEMMA UmInvInit ==
  ASSUME UmLinkInit
  PROVE  UmInv
<1>1. PICK s \in Starts : UmTxQuiet(s) /\ UmRxQuiet(s)
  BY DEF UmLinkInit
<1>2. s \in SN /\ QueueLen \in Nat /\ MOD \in Nat /\ MOD > 0
  BY UmTxAssumption DEF MOD
<1>3. << >> \in Seq(Nat) /\ Len(<< >>) = 0
  BY EmptySeq
<1>4. RxOK
  <2>1. vr_ur = s /\ vr_ux = s /\ vr_uh = s /\ pdu_lost = FALSE /\ reordering_timer = FALSE
    BY <1>1 DEF UmRxQuiet
  <2>2. rx_window = [sn \in {} |-> sn]
    BY <1>1 DEF UmRxQuiet
  <2>3. DOMAIN rx_window = {}
    BY <2>2
  <2>4. (s - 1) % MOD \in SN
    BY <1>2 DEF SN
  <2>5. vr_ur_in_rx_sdu \in SN
    BY <1>1, <1>2, <2>4 DEF UmRxQuiet
  <2>6. pdu_lost \in BOOLEAN /\ reordering_timer \in BOOLEAN
    BY <2>1
  <2> QED
    BY <1>2, <2>1, <2>3, <2>5, <2>6, EmptyWindow
<1>5. TxOK
  BY <1>1, <1>2, <1>3 DEF UmTxQuiet, TxOK
<1>6. DataOK(data) /\ intact \in BOOLEAN
  BY NothingCarried DEF UmLinkInit
<1> QED
  BY <1>4, <1>5, <1>6 DEF UmInv

\* What a step leaves alone stays as it was.
LEMMA Untouched ==
  /\ RxOK /\ UNCHANGED umRxVars => RxOK'
  /\ TxOK /\ UNCHANGED umTxVars => TxOK'
<1>1. RxOK /\ UNCHANGED umRxVars => RxOK'
  BY DEF umRxVars, RxOK, Reassembly, StateOK, Settled, Ready, RxBase
<1>2. TxOK /\ UNCHANGED umTxVars => TxOK'
  BY DEF umTxVars, TxOK
<1> QED
  BY <1>1, <1>2

\* Every handler of either end, and everything the MACs do in between, keeps it.
LEMMA UmInvNext ==
  ASSUME UmInv, [UmLinkNext]_umLinkVars
  PROVE  UmInv'
<1>0. RxOK /\ TxOK /\ DataOK(data) /\ intact \in BOOLEAN
  BY DEF UmInv
<1>1. ASSUME TxOK', UNCHANGED <<umRxVars, umChannelVars>> PROVE UmInv'
  <2>1. RxOK'
    BY <1>0, <1>1, Untouched
  <2>2. DataOK(data') /\ intact' \in BOOLEAN
    BY <1>0, <1>1 DEF umChannelVars
  <2> QED
    BY <1>1, <2>1, <2>2 DEF UmInv, DataOK
<1>2. CASE UmTxStep(WriteSdu)
  BY <1>0, <1>1, <1>2, WriteSduKeeps DEF UmTxStep
<1>3. CASE UmTxStep(ReadPduStart)
  <2>1. TxOK'
    BY <1>0, <1>3 DEF UmTxStep, ReadPduStart, TxOK
  <2> QED
    BY <1>1, <1>3, <2>1 DEF UmTxStep
<1>4. CASE UmTxStep(BuildNothing)
  <2>1. TxOK'
    BY <1>0, <1>4 DEF UmTxStep, BuildNothing, TxOK
  <2> QED
    BY <1>1, <1>4, <2>1 DEF UmTxStep
<1>5. ASSUME NEW n \in 1 .. MaxGrant, UmLinkBuild(n) PROVE UmInv'
  <2>1. TxOK'
    BY <1>0, <1>5, BuildKeeps DEF UmLinkBuild
  <2>2. RxOK'
    BY <1>0, <1>5, Untouched DEF UmLinkBuild
  <2>3. DataOK(data')
    <3>1. data' = Append(data, [pdu |-> UmPdu(n), overtaken |-> 0])
      BY <1>5 DEF UmLinkBuild
    <3>2. PduOK(UmPdu(n))
      BY <1>0, BuiltPduOK
    <3> QED
      BY <1>0, <3>1, <3>2, SentCarried
  <2>4. intact' = intact
    BY <1>5 DEF UmLinkBuild
  <2> QED
    BY <1>0, <2>1, <2>2, <2>3, <2>4 DEF UmInv, DataOK
<1>6. ASSUME NEW i \in 1 .. MaxInFlight, UmLinkWrite(i) PROVE UmInv'
  <2> DEFINE q == [j \in DOMAIN data |->
                     IF j < i THEN [data[j] EXCEPT !.overtaken = @ + 1] ELSE data[j]]
             pdu == data[i].pdu
  <2>1. i \in DOMAIN data /\ data' = Drop(q, i) /\ UNCHANGED umTxVars
    BY <1>6 DEF UmLinkWrite
  <2>2. \/ WritePdu(pdu) /\ intact' = intact
        \/ DiscardPdu(pdu) /\ intact' = FALSE
    BY <1>6 DEF UmLinkWrite
  <2>3. DataOK(q) /\ Carried(data[i]) /\ DOMAIN q = DOMAIN data
    BY <1>0, <2>1, OvertakenCarried
  <2> HIDE DEF q
  <2>4. DataOK(data')
    BY <2>1, <2>3, DroppedCarried
  <2>5. PduOK(pdu)
    BY <2>3 DEF Carried
  <2> HIDE DEF pdu
  <2>6. RxOK'
    <3>1. CASE WritePdu(pdu)
      BY <1>0, <2>5, <3>1, WriteKeeps
    <3>2. CASE DiscardPdu(pdu)
      BY <1>0, <3>2, Untouched DEF DiscardPdu
    <3> QED
      BY <2>2, <3>1, <3>2
  <2>7. TxOK' /\ intact' \in BOOLEAN
    BY <1>0, <2>1, <2>2, Untouched
  <2> QED
    BY <2>4, <2>6, <2>7 DEF UmInv, DataOK
<1>7. CASE UmLinkLose
  <2>1. PICK i \in DOMAIN data : data' = Drop(data, i)
    BY <1>7 DEF UmLinkLose
  <2>2. DataOK(data')
    BY <1>0, <2>1, DroppedCarried
  <2>3. RxOK' /\ TxOK' /\ intact' \in BOOLEAN
    BY <1>0, <1>7, Untouched DEF UmLinkLose
  <2> QED
    BY <2>2, <2>3 DEF UmInv, DataOK
<1>8. CASE UmLinkExpired
  <2>1. RxOK' /\ TxOK'
    BY <1>0, <1>8, ExpiredKeeps, Untouched DEF UmLinkExpired
  <2>2. DataOK(data') /\ intact' \in BOOLEAN
    BY <1>0, <1>8 DEF UmLinkExpired
  <2> QED
    BY <2>1, <2>2 DEF UmInv, DataOK
<1>9. CASE UmLinkReestablish
  <2>1. RxOK'
    BY <1>0, <1>9, RxReestablishKeeps DEF UmLinkReestablish
  <2>2. << >> \in Seq(Nat) /\ Len(<< >>) = 0
    BY EmptySeq
  <2>3. TxOK'
    <3>1. QueueLen \in Nat
      BY UmTxAssumption
    <3>2. /\ tx_enabled' = FALSE /\ tx_sdu_queue' = << >> /\ vt_us' = vt_us /\ mac' = mac
          /\ written' = written
      BY <1>9 DEF UmLinkReestablish, TxReestablishStart
    <3>3. tx_sdu_queue' \in Seq(Nat) /\ Len(tx_sdu_queue') <= QueueLen
      BY <2>2, <3>1, <3>2
    <3> QED
      BY <1>0, <3>2, <3>3 DEF TxOK
  <2>4. DataOK(data') /\ intact' \in BOOLEAN
    BY <1>9, NothingCarried DEF UmLinkReestablish
  <2> QED
    BY <2>1, <2>3, <2>4 DEF UmInv, DataOK
<1>10. CASE UmTxStep(TxReestablishEnd)
  <2>1. 0 \in SN
    BY UmTxAssumption DEF SN, MOD
  <2>2. TxOK'
    BY <1>0, <1>10, <2>1 DEF UmTxStep, TxReestablishEnd, TxOK
  <2> QED
    BY <1>1, <1>10, <2>2 DEF UmTxStep
<1>11. CASE UNCHANGED umLinkVars
  <2>1. TxOK'
    BY <1>0, <1>11, Untouched DEF umLinkVars
  <2> QED
    BY <1>1, <1>11, <2>1 DEF umLinkVars
<1> QED
  BY <1>2, <1>3, <1>4, <1>5, <1>6, <1>7, <1>8, <1>9, <1>10, <1>11 DEF UmLinkNext

\* The SNs of both ends stay below 32 or 1024, or whatever twice the window size is,
\* as the loops of reassembly take VR(UR) around, and the queue of SDUs is bounded.
THEOREM UmTypeCorrect == UmLinkSpec => []UmTypeOK
<1>1. UmLinkInit => UmInv
  BY UmInvInit
<1>2. UmInv /\ [UmLinkNext]_umLinkVars => UmInv'
  BY UmInvNext
<1>3. UmInv => UmTypeOK
  <2>1. SUFFICES ASSUME UmInv PROVE UmTypeOK
    OBVIOUS
  <2>2. /\ Reassembly.ur = vr_ur /\ Reassembly.win = rx_window
        /\ Reassembly.last = vr_ur_in_rx_sdu /\ Reassembly.lost = pdu_lost
    BY DEF Reassembly
  <2>3. vr_ur \in SN /\ vr_ur_in_rx_sdu \in SN /\ DOMAIN rx_window \subseteq SN
    BY <2>1, <2>2 DEF UmInv, RxOK, StateOK
  <2>4. pdu_lost \in BOOLEAN
    BY <2>1, <2>2 DEF UmInv, RxOK, StateOK
  <2>5. {vt_us, vr_ur, vr_ux, vr_uh, vr_ur_in_rx_sdu} \subseteq SN
    BY <2>1, <2>3 DEF UmInv, RxOK, TxOK
  <2>6. {tx_enabled, pdu_lost, reordering_timer, intact} \subseteq BOOLEAN
    BY <2>1, <2>4 DEF UmInv, RxOK, TxOK
  <2> QED
    BY <2>1, <2>3, <2>5, <2>6 DEF UmTypeOK, UmInv, TxOK
<1> QED
  BY <1>1, <1>2, <1>3, PTL DEF UmLinkSpec

\* A PDU that waits for an older one is never forgotten: t-Reordering runs, and the
\* PDU lies above VR(UR), where timer_expired will find it, and below VR(UH).
THEOREM WaitingAlwaysTimed == UmLinkSpec => []WaitingIsTimed
<1>1. UmLinkInit => UmInv
  BY UmInvInit
<1>2. UmInv /\ [UmLinkNext]_umLinkVars => UmInv'
  BY UmInvNext
<1>3. UmInv => WaitingIsTimed
  <2>1. SUFFICES ASSUME UmInv, NEW sn \in DOMAIN rx_window
                 PROVE  /\ reordering_timer
                        /\ RxBase(vr_ur, vr_uh) < RxBase(sn, vr_uh)
                        /\ RxBase(sn, vr_uh) < RxBase(vr_uh, vr_uh)
    BY DEF WaitingIsTimed
  <2>2. Reassembly.ur = vr_ur /\ Reassembly.win = rx_window
    BY DEF Reassembly
  <2>3. /\ vr_ur \in SN /\ sn \in SN /\ vr_uh \in SN /\ sn # vr_ur /\ reordering_timer
        /\ RxBase(vr_ur, vr_uh) <= RxBase(sn, vr_uh) /\ RxBase(sn, vr_uh) < W
    BY <2>1, <2>2 DEF UmInv, RxOK, StateOK, Settled, Ready
  <2>4. RxBase(vr_uh, vr_uh) = W
    BY <2>3, TopPosition
  <2>5. RxBase(vr_ur, vr_uh) # RxBase(sn, vr_uh)
    BY <2>3, Positions
  <2>6. RxBase(vr_ur, vr_uh) \in Nat /\ RxBase(sn, vr_uh) \in Nat
    BY <2>3, PositionRange
  <2> QED
    BY <2>3, <2>4, <2>5, <2>6
<1> QED
  BY <1>1, <1>2, <1>3, PTL DEF UmLinkSpec
=============================================================================
