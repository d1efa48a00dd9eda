---------------------------- MODULE RlcAmLinkProofs ----------------------------
EXTENDS RlcAmLink, RlcAmTxProofs, RlcAmRxProofs, FiniteSetTheorems

(***************************************************************************)
(* The two ends of an AM bearer agree on the window, no status PDU makes   *)
(* handle_control_pdu report a protocol failure, and PDCP is notified of   *)
(* an SDU only when the peer has all of it.                                *)
(*                                                                         *)
(* The argument counts PDUs as if sequence numbers did not wrap: PDU v has *)
(* number v % MOD, and lo, mid and hi stand for VT(A), VR(R) and VT(S).    *)
(* got is the set of PDUs received and cont[v] the payload of PDU v.       *)
(* LinkInv says that lo <= mid <= hi, that the windows hold PDUs of cont   *)
(* (Sent, Held), and what is true of whatever is still under way:          *)
(*   - a PDU was sent within a window, and no more PDUs sent after it have *)
(*     been received than have overtaken it (Carries): this is what keeps  *)
(*     a late copy from being taken for the PDU one window further;        *)
(*   - a status report was built when VR(R) was at some r <= mid, has no   *)
(*     NACK below r, and acknowledges only what has been received          *)
(*     (Report); a later report misses nothing an earlier one did not      *)
(*     (Reports), and the loop of handle_control_pdu stays between the     *)
(*     report and the windows as they were when it started (Applying).     *)
(* No cell of the PDUs received is lost (Kept).  So a PDU that is found    *)
(* acknowledged has reached the peer (AckedReceived), and every cell of an *)
(* SDU is either there, in a PDU that waits for its acknowledgement, or    *)
(* not sent yet (NotifyInv): when nothing is left to wait for, the peer    *)
(* has the SDU.                                                            *)
(* With MaxOvertaken PDUs overtaking one, there must be as much room above *)
(* VT(S) (Slack); when none is overtaken, the window itself is enough.     *)
(***************************************************************************)

-----------------------------------------------------------------------------
(* Segments.                                                                   *)

\* seg is a part of the payload c, from offset so on.
PartAt(seg, so, c) ==
  /\ so \in Nat /\ seg.so = so /\ seg.cells \in Seq(Cell)
  /\ so + Len(seg.cells) <= Len(c)
  /\ \A x \in 1 .. Len(seg.cells) : seg.cells[x] = c[so + x]
  /\ seg.lsf <=> so + Len(seg.cells) = Len(c)

PartsOf(list, c) == \A so \in DOMAIN list : PartAt(list[so], so, c)

\* add_segment_and_check adds nothing to the list but the segment.
LEMMA AddedPart ==
  ASSUME NEW c, NEW list, PartsOf(list, c), NEW seg, PartAt(seg, seg.so, c)
  PROVE  LET l == Pruned(AddSegment(list, seg)) IN
         PartsOf(l, c) /\ DOMAIN l # {} /\ DOMAIN l \subseteq Nat
<1> DEFINE l == AddSegment(list, seg)
<1>1. /\ DOMAIN l \subseteq DOMAIN list \cup {seg.so}
      /\ \A so \in DOMAIN l : (so = seg.so /\ l[so] = seg)
                              \/ (so \in DOMAIN list /\ l[so] = list[so])
  <2>1. CASE l = list
    BY <2>1
  <2>2. CASE l = With(list, seg.so, seg)
    <3>1. /\ DOMAIN l = DOMAIN list \cup {seg.so}
          /\ \A so \in DOMAIN l : l[so] = IF so = seg.so THEN seg ELSE list[so]
      BY <2>2 DEF With
    <3> QED
      BY <3>1
  <2> QED
    BY <2>1, <2>2 DEF AddSegment
<1> HIDE DEF l
<1>2. PartsOf(l, c)
  BY <1>1 DEF PartsOf
<1>3. DOMAIN Pruned(l) \subseteq DOMAIN l /\ \A so \in DOMAIN Pruned(l) : Pruned(l)[so] = l[so]
  BY DEF Pruned
<1>4. PartsOf(Pruned(l), c)
  BY <1>2, <1>3 DEF PartsOf
<1>5. DOMAIN list \in SUBSET Nat /\ seg.so \in Nat
  BY DEF PartsOf, PartAt
<1>6. DOMAIN Pruned(l) # {} /\ DOMAIN Pruned(l) \subseteq Nat
  BY <1>5, PrunedNotEmpty DEF l
<1> QED
  BY <1>4, <1>6 DEF l

\* The list of add_segment_and_check has a last element.
LEMMA BackIsLast ==
  ASSUME NEW c \in Seq(Cell), NEW list, PartsOf(list, c), DOMAIN list # {}
  PROVE  Back(list) \in DOMAIN list /\ \A so \in DOMAIN list : so <= Back(list)
<1> DEFINE L == Len(c)
           D == {d \in Nat : d <= L /\ L - d \in DOMAIN list}
<1>1. L \in Nat
  OBVIOUS
<1>2. \A so \in DOMAIN list : so \in Nat /\ so <= L
  <2> TAKE so \in DOMAIN list
  <2>1. so \in Nat /\ list[so].cells \in Seq(Cell) /\ so + Len(list[so].cells) <= L
    BY DEF PartsOf, PartAt
  <2>2. Len(list[so].cells) \in Nat
    BY <2>1
  <2> QED
    BY <2>1, <2>2, <1>1
<1> HIDE DEF L
<1>3. \A so \in DOMAIN list : L - so \in D
  BY <1>1, <1>2
<1>4. D \in SUBSET Nat /\ D # {}
  BY <1>3
<1>5. PICK d \in D : \A e \in D : d <= e
  BY <1>4, LowestOf
<1>6. L - d \in DOMAIN list /\ \A so \in DOMAIN list : so <= L - d
  BY <1>1, <1>2, <1>3, <1>5
<1> QED
  BY <1>6 DEF Back

\* Without a gap, every cell is in the list: add_segment_and_check's test that no
\* segment starts beyond the end of those before it.
LEMMA NoCellMissing ==
  ASSUME NEW c \in Seq(Cell), NEW list, PartsOf(list, c), DOMAIN list # {},
         IsComplete(list), NEW i \in 1 .. SegEnd(list, Back(list))
  PROVE  \E so \in DOMAIN list : so < i /\ i <= SegEnd(list, so)
<1> DEFINE b == Back(list)
           E(so) == SegEnd(list, so)
           Later == {u \in DOMAIN list : i <= u}
<1>1. b \in DOMAIN list /\ \A so \in DOMAIN list : so <= b
  BY BackIsLast
<1>2. \A so \in DOMAIN list : so \in Nat /\ E(so) \in Nat
  <2> TAKE so \in DOMAIN list
  <2>1. so \in Nat /\ list[so].cells \in Seq(Cell)
    BY DEF PartsOf, PartAt
  <2> QED
    BY <2>1 DEF SegEnd
<1>3. \A u \in DOMAIN list : u = 0 \/ \E t \in DOMAIN list : t < u /\ E(t) >= u
  BY <1>1 DEF IsComplete, GaplessUpTo
<1> HIDE DEF b, E
<1>4. i \in Nat /\ 1 <= i /\ i <= E(b)
  BY <1>1, <1>2 DEF b, E
<1>5. CASE Later = {}
  BY <1>1, <1>2, <1>4, <1>5 DEF E
<1>6. CASE Later # {}
  <2>1. Later \in SUBSET Nat
    BY <1>2
  <2>2. PICK u \in Later : \A v \in Later : u <= v
    BY <1>6, <2>1, LowestOf
  <2>3. u \in DOMAIN list /\ u \in Nat /\ i <= u /\ u # 0
    BY <1>2, <1>4, <2>2
  <2>4. PICK t \in DOMAIN list : t < u /\ E(t) >= u
    BY <1>3, <2>3
  <2>5. t \notin Later /\ t \in Nat /\ E(t) \in Nat
    BY <1>2, <2>2, <2>3, <2>4
  <2>6. t < i /\ i <= E(t)
    BY <1>4, <2>3, <2>4, <2>5
  <2> QED
    BY <2>6 DEF E
<1> QED
  BY <1>5, <1>6

\* A PDU put together from parts of c is c, whichever of overlapping segments each
\* cell is taken from.
LEMMA PutTogether ==
  ASSUME NEW c \in Seq(Cell), NEW list, PartsOf(list, c), DOMAIN list # {}, IsComplete(list)
  PROVE  Concatenated(list) = c
<1> DEFINE Holds(so, i) == so < i /\ i <= SegEnd(list, so)
           IsFirst(so, i) == Holds(so, i) /\ \A t \in DOMAIN list : Holds(t, i) => so <= t
           First(i) == CHOOSE so \in DOMAIN list : IsFirst(so, i)
           n == SegEnd(list, Back(list))
<1>1. Concatenated(list) = [i \in 1 .. n |-> list[First(i)].cells[i - First(i)]]
  BY DEF Concatenated
<1>2. n = Len(c)
  <2>1. Back(list) \in DOMAIN list
    BY BackIsLast
  <2>2. PartAt(list[Back(list)], Back(list), c) /\ list[Back(list)].lsf
    BY <2>1 DEF PartsOf, IsComplete
  <2> QED
    BY <2>2 DEF PartAt, SegEnd
<1>3. Len(c) \in Nat /\ c = [i \in 1 .. Len(c) |-> c[i]]
  OBVIOUS
<1>4. ASSUME NEW i \in 1 .. n PROVE list[First(i)].cells[i - First(i)] = c[i]
  <2> DEFINE H == {so \in DOMAIN list : Holds(so, i)}
  <2>1. H # {}
    BY NoCellMissing
  <2>2. H \in SUBSET Nat
    BY DEF PartsOf, PartAt
  <2>3. \E so \in H : \A t \in H : so <= t
    BY <2>1, <2>2, LowestOf
  <2>4. \E so \in DOMAIN list : IsFirst(so, i)
    BY <2>3
  <2> DEFINE so == First(i)
  <2>5. so \in DOMAIN list /\ IsFirst(so, i)
    BY <2>4
  <2> HIDE DEF so
  <2>6. PartAt(list[so], so, c) /\ so < i /\ i <= so + Len(list[so].cells)
    BY <2>5 DEF PartsOf, SegEnd
  <2>7. i \in Nat /\ so \in Nat /\ Len(list[so].cells) \in Nat
    BY <1>2, <1>3, <2>6 DEF PartAt
  <2>8. i - so \in 1 .. Len(list[so].cells) /\ so + (i - so) = i
    BY <2>6, <2>7
  <2>9. list[so].cells[i - so] = c[so + (i - so)]
    BY <2>6, <2>8 DEF PartAt
  <2>10. list[so].cells[i - so] = c[i]
    BY <2>8, <2>9
  <2> QED
    BY <2>10 DEF so
<1> HIDE DEF First, n
<1> QED
  BY <1>1, <1>2, <1>3, <1>4

-----------------------------------------------------------------------------
(* PDUs under way.  x = [v, k] belongs to a PDU: it is the v-th of the bearer,  *)
(* and k PDUs had been given a number when it was sent.                         *)

Pdu == [rf : {FALSE}, sn : SN, p : BOOLEAN, cells : Seq(Cell)] \cup
       [rf : {TRUE}, sn : SN, p : BOOLEAN, so : Nat, lsf : BOOLEAN, cells : Seq(Cell)]

\* The payload of a PDU is c or a part of it.
PduOf(pdu, c) == IF pdu.rf THEN PartAt(pdu, pdu.so, c) ELSE pdu.cells = c

\* d is the v-th PDU.  It was sent within a window, and of the PDUs sent after it no
\* more have been received than have overtaken it.
Carries(d, x, s, got, cont) ==
  /\ x.v < x.k /\ x.k <= s /\ x.k + MaxOvertaken <= x.v + W
  /\ d.pdu.sn = x.v % MOD /\ PduOf(d.pdu, cont[x.v])
  /\ d.overtaken <= MaxOvertaken
  /\ Cardinality(got \ (0 .. x.k - 1)) <= d.overtaken

\* The PDUs under way are in the order in which they were sent.
Channel(q, vd, s, got, cont) ==
  /\ q \in Seq([pdu : Pdu, overtaken : Nat]) /\ vd \in Seq([v : Nat, k : Nat])
  /\ Len(q) = Len(vd)
  /\ \A i \in 1 .. Len(q) : Carries(q[i], vd[i], s, got, cont)
  /\ \A i \in 1 .. Len(q) : \A j \in 1 .. i - 1 : vd[j].v < vd[i].k

\* A sequence is a function on its indices (the containers of PDUs).
LEMMA Elements ==
  ASSUME NEW T, NEW q \in Seq(T), NEW n, n = Len(q)
  PROVE  n \in Nat /\ DOMAIN q = 1 .. n /\ \A j \in 1 .. n : q[j] \in T
OBVIOUS

\* ... and a function on 1 .. n is a sequence.
LEMMA SequenceOf ==
  ASSUME NEW T, NEW n \in Nat, NEW f \in [1 .. n -> T]
  PROVE  f \in Seq(T) /\ Len(f) = n
OBVIOUS

\* What Drop leaves (an SDU in the queue of PDCP, a PDU under way).
LEMMA DropAt ==
  ASSUME NEW T, NEW q \in Seq(T), NEW i \in 1 .. Len(q)
  PROVE  /\ Drop(q, i) \in Seq(T) /\ Len(Drop(q, i)) = Len(q) - 1
         /\ \A j \in 1 .. Len(q) - 1 : Drop(q, i)[j] = IF j < i THEN q[j] ELSE q[j + 1]
<1> DEFINE l == Len(q)
           a == SubSeq(q, 1, i - 1)
           b == SubSeq(q, i + 1, l)
<1>1. l \in Nat /\ i \in 1 .. l /\ \A j \in 1 .. l : q[j] \in T
  OBVIOUS
<1>2. Drop(q, i) = a \o b
  BY DEF Drop
<1> HIDE DEF l
<1>3. /\ \A j \in 1 .. i - 1 : q[j] \in T
      /\ \A j \in i + 1 .. l : q[j] \in T
      /\ i - 1 \in Int /\ i + 1 \in Int /\ l \in Int
  BY <1>1
<1>4. /\ a \in Seq(T) /\ Len(a) = IF 1 <= i - 1 THEN (i - 1) - 1 + 1 ELSE 0
      /\ \A j \in 1 .. (i - 1) - 1 + 1 : a[j] = q[1 + j - 1]
  BY <1>3, SubSeqProperties
<1>5. /\ b \in Seq(T) /\ Len(b) = IF i + 1 <= l THEN l - (i + 1) + 1 ELSE 0
      /\ \A j \in 1 .. l - (i + 1) + 1 : b[j] = q[(i + 1) + j - 1]
  BY <1>3, SubSeqProperties
<1> HIDE DEF a, b
<1>6. Len(a) = i - 1 /\ \A j \in 1 .. i - 1 : a[j] = q[j]
  <2>1. \A j \in 1 .. i - 1 : j \in 1 .. (i - 1) - 1 + 1 /\ 1 + j - 1 = j
    BY <1>1
  <2> QED
    BY <1>1, <1>4, <2>1
<1>7. Len(b) = l - i /\ \A j \in 1 .. l - i : b[j] = q[i + j]
  <2>1. \A j \in 1 .. l - i : j \in 1 .. l - (i + 1) + 1 /\ (i + 1) + j - 1 = i + j
    BY <1>1
  <2> QED
    BY <1>1, <1>5, <2>1
<1>8. /\ a \o b \in Seq(T) /\ Len(a \o b) = Len(a) + Len(b)
      /\ \A j \in 1 .. Len(a) + Len(b) :
           (a \o b)[j] = IF j <= Len(a) THEN a[j] ELSE b[j - Len(a)]
  BY <1>4, <1>5, ConcatProperties
<1>9. ASSUME NEW j \in 1 .. l - 1 PROVE (a \o b)[j] = IF j < i THEN q[j] ELSE q[j + 1]
  <2>1. j \in 1 .. Len(a) + Len(b) /\ j \in Nat
    BY <1>1, <1>6, <1>7
  <2>2. CASE j < i
    <3>1. j <= Len(a) /\ j \in 1 .. i - 1
      BY <1>1, <1>6, <2>1, <2>2
    <3> QED
      BY <1>6, <1>8, <2>1, <2>2, <3>1
  <2>3. CASE ~(j < i)
    <3>1. ~(j <= Len(a)) /\ j - Len(a) \in 1 .. l - i /\ i + (j - Len(a)) = j + 1
      BY <1>1, <1>6, <2>1, <2>3
    <3>2. (a \o b)[j] = b[j - Len(a)]
      BY <1>8, <2>1, <3>1
    <3> QED
      BY <1>7, <2>3, <3>1, <3>2
  <2> QED
    BY <2>2, <2>3
<1> QED
  BY <1>1, <1>2, <1>6, <1>7, <1>8, <1>9 DEF l

\* Of the PDUs sent after x, one more may have been received.
LEMMA OneMore ==
  ASSUME NEW s \in Nat, NEW got, got \subseteq 0 .. s - 1, NEW v, NEW k \in Nat, NEW o \in Nat,
         NEW got2, got \subseteq got2, got2 \subseteq got \cup {v},
         Cardinality(got \ (0 .. k - 1)) <= o
  PROVE  /\ Cardinality(got2 \ (0 .. k - 1)) <= o + 1
         /\ v \in 0 .. k - 1 => Cardinality(got2 \ (0 .. k - 1)) <= o
         /\ Cardinality(got \ (0 .. k - 1)) \in Nat
<1> DEFINE a == got \ (0 .. k - 1)
           b == got2 \ (0 .. k - 1)
<1>1. IsFiniteSet(0 .. s - 1)
  BY FS_Interval
<1>2. IsFiniteSet(a) /\ Cardinality(a) \in Nat
  <2>1. a \in SUBSET (0 .. s - 1)
    OBVIOUS
  <2> QED
    BY <1>1, <2>1, FS_Subset, FS_CardinalityType
<1>3. /\ IsFiniteSet(a \cup {v})
      /\ Cardinality(a \cup {v}) = IF v \in a THEN Cardinality(a) ELSE Cardinality(a) + 1
  BY <1>2, FS_AddElement
<1>4. b \in SUBSET (a \cup {v})
  OBVIOUS
<1>5. Cardinality(b) <= Cardinality(a \cup {v}) /\ Cardinality(b) \in Nat
  <2> DEFINE c == a \cup {v}
  <2> HIDE DEF b, c
  <2>1. IsFiniteSet(b) /\ Cardinality(b) <= Cardinality(c)
    BY <1>3, <1>4, FS_Subset DEF c
  <2>2. Cardinality(b) \in Nat
    BY <2>1, FS_CardinalityType
  <2> QED
    BY <2>1, <2>2 DEF c
<1>6. Cardinality(b) <= Cardinality(a) + 1
  BY <1>2, <1>3, <1>5
<1>7. v \in 0 .. k - 1 => b = a
  OBVIOUS
<1> HIDE DEF a, b
<1>8. Cardinality(a) <= o /\ (v \in 0 .. k - 1 => Cardinality(b) <= o)
  BY <1>7 DEF a
<1>9. Cardinality(b) <= o + 1
  BY <1>2, <1>5, <1>6, <1>8
<1> QED
  BY <1>2, <1>8, <1>9 DEF a, b

\* A new PDU, or a retransmission, joins those under way: read_pdu.
LEMMA ChannelSend ==
  ASSUME NEW s \in Nat, NEW got, got \subseteq 0 .. s - 1, NEW cont,
         NEW s2 \in Nat, s <= s2, NEW cont2, \A v \in 0 .. s - 1 : cont2[v] = cont[v],
         NEW q, NEW vd, Channel(q, vd, s, got, cont),
         NEW pdu \in Pdu, NEW v \in Nat, v < s2, s2 + MaxOvertaken <= v + W,
         pdu.sn = v % MOD, PduOf(pdu, cont2[v])
  PROVE  Channel(Append(q, [pdu |-> pdu, overtaken |-> 0]), Append(vd, [v |-> v, k |-> s2]),
                 s2, got, cont2)
<1> DEFINE T == [pdu : Pdu, overtaken : Nat]
           d == [pdu |-> pdu, overtaken |-> 0]
           x == [v |-> v, k |-> s2]
           q2 == Append(q, d)
           vd2 == Append(vd, x)
           n == Len(q)
<1>1. q \in Seq(T) /\ vd \in Seq([v : Nat, k : Nat]) /\ n = Len(vd) /\ n \in Nat
  BY DEF Channel
<1>2. d \in T /\ x \in [v : Nat, k : Nat]
  OBVIOUS
<1>3. /\ q2 \in Seq(T) /\ Len(q2) = n + 1 /\ q2[n + 1] = d
      /\ \A i \in 1 .. n : q2[i] = q[i]
  BY <1>1, <1>2, AppendProperties
<1>4. /\ vd2 \in Seq([v : Nat, k : Nat]) /\ Len(vd2) = n + 1 /\ vd2[n + 1] = x
      /\ \A i \in 1 .. n : vd2[i] = vd[i]
  BY <1>1, <1>2, AppendProperties
<1>5. \A i \in 1 .. n : vd[i] \in [v : Nat, k : Nat]
  BY <1>1, Elements
<1>0. n \in Nat
  BY <1>1
<1> HIDE DEF n
<1>6. ASSUME NEW i \in 1 .. n PROVE Carries(q[i], vd[i], s2, got, cont2)
  <2>1. Carries(q[i], vd[i], s, got, cont)
    BY DEF Channel, n
  <2>2. vd[i].v \in 0 .. s - 1 /\ vd[i].k <= s2
    BY <1>5, <2>1 DEF Carries
  <2> QED
    BY <2>1, <2>2 DEF Carries
<1>7. Carries(d, x, s2, got, cont2)
  <2>1. got \ (0 .. s2 - 1) = {}
    <3>1. \A g \in got : g \in 0 .. s - 1
      OBVIOUS
    <3>2. 0 .. s - 1 \subseteq 0 .. s2 - 1
      OBVIOUS
    <3> QED
      BY <3>1, <3>2
  <2>2. Cardinality(got \ (0 .. s2 - 1)) = 0
    BY <2>1, FS_EmptySet
  <2> QED
    BY <2>2, LinkAssumption DEF Carries
<1>8. ASSUME NEW i \in 1 .. n + 1 PROVE Carries(q2[i], vd2[i], s2, got, cont2)
  BY <1>1, <1>3, <1>4, <1>6, <1>7
<1> HIDE DEF q2, vd2, T
<1>9. ASSUME NEW i \in 1 .. n + 1, NEW j \in 1 .. i - 1 PROVE vd2[j].v < vd2[i].k
  <2>1. CASE i \in 1 .. n
    <3>1. j \in 1 .. n
      BY <1>1, <2>1
    <3>2. vd[j].v < vd[i].k
      BY <2>1 DEF Channel, n
    <3> QED
      BY <1>4, <2>1, <3>1, <3>2
  <2>2. CASE i = n + 1
    <3>1. j \in 1 .. n /\ vd2[j] = vd[j] /\ vd2[i].k = s2
      BY <1>1, <1>4, <2>2
    <3>2. vd[j].v < s
      <4>1. Carries(q[j], vd[j], s, got, cont)
        BY <3>1 DEF Channel, n
      <4>2. vd[j].v \in Nat /\ vd[j].k \in Nat /\ vd[j].v < vd[j].k /\ vd[j].k <= s
        BY <1>5, <3>1, <4>1 DEF Carries
      <4> QED
        BY <4>2
    <3>3. vd[j].v \in Nat
      BY <1>5, <3>1
    <3> QED
      BY <3>1, <3>2, <3>3
  <2>3. i \in 1 .. n \/ i = n + 1
    BY <1>0
  <2> QED
    BY <2>1, <2>2, <2>3
<1>10. Channel(q2, vd2, s2, got, cont2)
  BY <1>1, <1>3, <1>4, <1>8, <1>9 DEF Channel, T
<1> QED
  BY <1>10 DEF q2, vd2

\* Losing a PDU leaves the others in order.
LEMMA ChannelDrop ==
  ASSUME NEW s, NEW got, NEW cont, NEW q, NEW vd, Channel(q, vd, s, got, cont),
         NEW i \in DOMAIN q
  PROVE  Channel(Drop(q, i), Drop(vd, i), s, got, cont)
<1> DEFINE T == [pdu : Pdu, overtaken : Nat]
           U == [v : Nat, k : Nat]
           n == Len(q)
           At(j) == IF j < i THEN j ELSE j + 1
           q2 == Drop(q, i)
           vd2 == Drop(vd, i)
<1>1. q \in Seq(T) /\ vd \in Seq(U) /\ Len(vd) = n /\ n \in Nat
  BY DEF Channel
<1>2. i \in 1 .. n
  BY <1>1
<1> HIDE DEF T, U
<1>3. q2 \in Seq(T) /\ Len(q2) = n - 1 /\ \A j \in 1 .. n - 1 : q2[j] = q[At(j)]
  BY <1>1, <1>2, DropAt
<1>4. vd2 \in Seq(U) /\ Len(vd2) = n - 1 /\ \A j \in 1 .. n - 1 : vd2[j] = vd[At(j)]
  <2>1. vd \in Seq(U) /\ Len(vd) = n /\ i \in 1 .. Len(vd)
    BY <1>1, <1>2
  <2> HIDE DEF n
  <2>2. /\ Drop(vd, i) \in Seq(U) /\ Len(Drop(vd, i)) = Len(vd) - 1
        /\ \A j \in 1 .. Len(vd) - 1 : Drop(vd, i)[j] = IF j < i THEN vd[j] ELSE vd[j + 1]
    BY <2>1, DropAt
  <2> QED
    BY <2>1, <2>2
<1>5. \A j \in 1 .. n - 1 : At(j) \in 1 .. n /\ \A m \in 1 .. j - 1 : At(m) \in 1 .. At(j) - 1
  <2>1. n \in Nat /\ i \in 1 .. n
    BY <1>1, <1>2
  <2> QED
    BY <2>1
<1> HIDE DEF n, q2, vd2, At
<1>6. \A j \in 1 .. n : Carries(q[j], vd[j], s, got, cont)
  BY DEF Channel, n
<1>7. \A j \in 1 .. n : \A m \in 1 .. j - 1 : vd[m].v < vd[j].k
  BY DEF Channel, n
<1>8. \A j \in 1 .. n - 1 : \A m \in 1 .. j - 1 : m \in 1 .. n - 1
  BY <1>1
<1>9. \A j \in 1 .. n - 1 : Carries(q2[j], vd2[j], s, got, cont)
  BY <1>3, <1>4, <1>5, <1>6
<1>10. \A j \in 1 .. n - 1 : \A m \in 1 .. j - 1 : vd2[m].v < vd2[j].k
  BY <1>4, <1>5, <1>7, <1>8
<1>11. Channel(q2, vd2, s, got, cont)
  BY <1>3, <1>4, <1>9, <1>10 DEF Channel, T, U
<1> QED
  BY <1>11 DEF q2, vd2

\* One arrives: the older ones still under way have been overtaken once more, and those
\* sent after it do not care.
LEMMA ChannelArrive ==
  ASSUME NEW s \in Nat, NEW got, got \subseteq 0 .. s - 1, NEW cont,
         NEW q, NEW vd, Channel(q, vd, s, got, cont), NEW i \in DOMAIN q,
         \A j \in 1 .. i - 1 : q[j].overtaken < MaxOvertaken,
         NEW got2, got \subseteq got2, got2 \subseteq got \cup {vd[i].v}
  PROVE  Channel(Overtake(q, i), Drop(vd, i), s, got2, cont)
<1> DEFINE T == [pdu : Pdu, overtaken : Nat]
           U == [v : Nat, k : Nat]
           n == Len(q)
           f == [j \in DOMAIN q |-> IF j < i THEN [q[j] EXCEPT !.overtaken = @ + 1] ELSE q[j]]
           At(j) == IF j < i THEN j ELSE j + 1
           q2 == Drop(f, i)
           vd2 == Drop(vd, i)
           C(d, x) == Carries(d, x, s, got2, cont)
<1>1. q \in Seq(T) /\ vd \in Seq(U) /\ Len(vd) = n /\ n \in Nat
  BY DEF Channel
<1>2. i \in 1 .. n /\ DOMAIN q = 1 .. n
  BY <1>1
<1>3. \A j \in 1 .. n : q[j] \in T /\ vd[j] \in U /\ vd[j].v \in Nat /\ vd[j].k \in Nat
                        /\ q[j].overtaken \in Nat
  <2>1. \A j \in 1 .. n : q[j] \in T /\ vd[j] \in U
    BY <1>1, Elements
  <2> QED
    BY <2>1
<1>4. f \in Seq(T) /\ Len(f) = n
  <2>1. \A j \in 1 .. n : f[j] \in T
    BY <1>2, <1>3
  <2>2. f \in [1 .. n -> T]
    BY <1>2, <2>1
  <2> HIDE DEF f, T, n
  <2> QED
    BY <1>1, <2>2, SequenceOf
<1>5. \A j \in 1 .. n : Carries(q[j], vd[j], s, got, cont)
  BY DEF Channel
<1>6. \A j \in 1 .. n : \A m \in 1 .. j - 1 : vd[m].v < vd[j].k
  BY DEF Channel
<1>7. ASSUME NEW j \in 1 .. n, j # i PROVE C(f[j], vd[j])
  <2>1. Carries(q[j], vd[j], s, got, cont)
    BY <1>5
  <2>2. Cardinality(got \ (0 .. vd[j].k - 1)) <= q[j].overtaken
    BY <2>1 DEF Carries
  <2> DEFINE more == Cardinality(got2 \ (0 .. vd[j].k - 1))
  <2>3. /\ more <= q[j].overtaken + 1
        /\ vd[i].v \in 0 .. vd[j].k - 1 => more <= q[j].overtaken
    <3>1. vd[j].k \in Nat /\ q[j].overtaken \in Nat
      BY <1>3
    <3> QED
      BY <2>2, <3>1, OneMore
  <2>4. CASE j < i
    <3>1. f[j] = [q[j] EXCEPT !.overtaken = @ + 1] /\ q[j].overtaken < MaxOvertaken
      BY <1>2, <2>4
    <3>2. f[j].pdu = q[j].pdu /\ f[j].overtaken = q[j].overtaken + 1
          /\ f[j].overtaken <= MaxOvertaken
      BY <1>3, <3>1, LinkAssumption
    <3> QED
      BY <2>1, <2>3, <3>2 DEF Carries
  <2>5. CASE i < j
    <3>1. f[j] = q[j] /\ vd[i].v < vd[j].k
      BY <1>2, <1>6, <2>5
    <3>2. vd[i].v \in 0 .. vd[j].k - 1
      BY <1>2, <1>3, <3>1
    <3> QED
      BY <2>1, <2>3, <3>1, <3>2 DEF Carries
  <2> QED
    BY <1>2, <1>7, <2>4, <2>5
<1> HIDE DEF T, U, f, C
<1>8. q2 \in Seq(T) /\ Len(q2) = n - 1 /\ \A j \in 1 .. n - 1 : q2[j] = f[At(j)]
  <2>1. i \in 1 .. Len(f)
    BY <1>2, <1>4
  <2> QED
    BY <1>4, <2>1, DropAt
<1>9. vd2 \in Seq(U) /\ Len(vd2) = n - 1 /\ \A j \in 1 .. n - 1 : vd2[j] = vd[At(j)]
  <2>1. i \in 1 .. Len(vd)
    BY <1>1, <1>2
  <2>2. /\ vd2 \in Seq(U) /\ Len(vd2) = Len(vd) - 1
        /\ \A j \in 1 .. Len(vd) - 1 : vd2[j] = IF j < i THEN vd[j] ELSE vd[j + 1]
    BY <1>1, <2>1, DropAt
  <2> HIDE DEF vd2, n
  <2> QED
    BY <1>1, <2>2
<1>10. \A j \in 1 .. n - 1 : /\ At(j) \in 1 .. n /\ At(j) # i
                             /\ \A m \in 1 .. j - 1 : At(m) \in 1 .. At(j) - 1
  BY <1>1, <1>2
<1> HIDE DEF n, q2, vd2, At
<1>11. \A j \in 1 .. n - 1 : \A m \in 1 .. j - 1 : m \in 1 .. n - 1
  BY <1>1
<1>12. \A j \in 1 .. n - 1 : C(q2[j], vd2[j])
  BY <1>7, <1>8, <1>9, <1>10
<1>13. \A j \in 1 .. n - 1 : \A m \in 1 .. j - 1 : vd2[m].v < vd2[j].k
  BY <1>6, <1>9, <1>10, <1>11
<1>14. Channel(q2, vd2, s, got2, cont)
  BY <1>8, <1>9, <1>12, <1>13 DEF Channel, T, U, C
<1>15. q2 = Overtake(q, i)
  BY DEF q2, f, Overtake
<1> QED
  BY <1>14, <1>15 DEF vd2

-----------------------------------------------------------------------------
(* Status reports.  x = [r, a] belongs to one: r is VR(R) when it was built and *)
(* a its ACK_SN, neither wrapped.                                               *)

Status == [ack_sn : SN, nacks : SUBSET SN]

\* A report of the window from x.r on.  What it acknowledges has been received, of what
\* lies below it says nothing bad, and the PDU of x.r is not yet out of the window win
\* of the transmitter.
Report(st, x, lo, mid, hi, got, win) ==
  /\ lo <= x.r /\ x.r <= mid /\ x.r <= x.a /\ x.a <= hi
  /\ st.ack_sn = x.a % MOD
  /\ \A u \in Nat : u < x.r /\ x.r <= u + W => u % MOD \notin st.nacks
  /\ \A u \in x.r .. x.a - 1 : u % MOD \in st.nacks \/ u \in got
  /\ x.r < hi => x.r % MOD \in DOMAIN win

\* If the report st reaches up to r, it reports r as missing.
Missed(st, a, r) == r < a => r % MOD \in st.nacks

\* The reports under way are in the order in which they were built, and what is missing
\* for a later one was missing for an earlier one.
Reports(q, vc, lo, mid, hi, got, win) ==
  /\ q \in Seq(Status) /\ vc \in Seq([r : Nat, a : Nat])
  /\ Len(q) = Len(vc)
  /\ \A i \in 1 .. Len(q) : Report(q[i], vc[i], lo, mid, hi, got, win)
  /\ \A i \in 1 .. Len(q) : \A j \in 1 .. i :
        vc[j].r <= vc[i].r /\ Missed(q[j], vc[j].a, vc[i].r)

\* The edges move up, more is received and new PDUs are sent: a report stays true, as
\* long as it is not overtaken by VT(A).
LEMMA ReportStays ==
  ASSUME NEW st, NEW x, x.r \in Nat, x.a \in Nat,
         NEW lo \in Nat, NEW mid \in Nat, NEW hi \in Nat, NEW got, NEW win,
         Report(st, x, lo, mid, hi, got, win),
         NEW lo2 \in Nat, NEW mid2 \in Nat, NEW hi2 \in Nat, NEW got2, NEW win2,
         lo2 <= x.r, mid <= mid2, hi <= hi2, got \subseteq got2,
         x.r < hi2 => x.r % MOD \in DOMAIN win2
  PROVE  Report(st, x, lo2, mid2, hi2, got2, win2)
<1>1. lo2 <= x.r /\ x.r <= mid2 /\ x.r <= x.a /\ x.a <= hi2
  BY DEF Report
<1>2. \A u \in x.r .. x.a - 1 : u % MOD \in st.nacks \/ u \in got2
  BY DEF Report
<1> QED
  BY <1>1, <1>2 DEF Report

\* As ReportStays, for all the reports on their way to handle_control_pdu.
LEMMA ReportsStay ==
  ASSUME NEW q, NEW vc, NEW lo \in Nat, NEW mid \in Nat, NEW hi \in Nat, NEW got, NEW win,
         Reports(q, vc, lo, mid, hi, got, win),
         NEW lo2 \in Nat, NEW mid2 \in Nat, NEW hi2 \in Nat, NEW got2, NEW win2,
         mid <= mid2, hi <= hi2, got \subseteq got2,
         \A i \in 1 .. Len(vc) : /\ lo2 <= vc[i].r
                                 /\ vc[i].r < hi2 => vc[i].r % MOD \in DOMAIN win2
  PROVE  Reports(q, vc, lo2, mid2, hi2, got2, win2)
<1> DEFINE U == [r : Nat, a : Nat]
<1>1. vc \in Seq(U) /\ Len(q) = Len(vc)
  BY DEF Reports
<1>2. \A i \in 1 .. Len(vc) : vc[i].r \in Nat /\ vc[i].a \in Nat
  <2>1. \A i \in 1 .. Len(vc) : vc[i] \in U
    BY <1>1, Elements
  <2> QED
    BY <2>1
<1>3. ASSUME NEW i \in 1 .. Len(q) PROVE Report(q[i], vc[i], lo2, mid2, hi2, got2, win2)
  <2>1. Report(q[i], vc[i], lo, mid, hi, got, win)
    BY DEF Reports
  <2>2. /\ vc[i].r \in Nat /\ vc[i].a \in Nat
        /\ lo2 <= vc[i].r /\ (vc[i].r < hi2 => vc[i].r % MOD \in DOMAIN win2)
    BY <1>1, <1>2
  <2> QED
    BY <2>1, <2>2, ReportStays
<1> QED
  BY <1>3 DEF Reports

\* Losing a report leaves the others in order.
LEMMA ReportsDrop ==
  ASSUME NEW q, NEW vc, NEW lo, NEW mid, NEW hi, NEW got, NEW win,
         Reports(q, vc, lo, mid, hi, got, win), NEW i \in DOMAIN q
  PROVE  /\ Reports(Drop(q, i), Drop(vc, i), lo, mid, hi, got, win)
         /\ \A j \in 1 .. Len(Drop(vc, i)) : \E m \in 1 .. Len(vc) : Drop(vc, i)[j] = vc[m]
<1> DEFINE U == [r : Nat, a : Nat]
           n == Len(q)
           At(j) == IF j < i THEN j ELSE j + 1
           q2 == Drop(q, i)
           vc2 == Drop(vc, i)
<1>1. q \in Seq(Status) /\ vc \in Seq(U) /\ n = Len(vc) /\ n \in Nat
  BY DEF Reports
<1>2. i \in 1 .. n
  BY <1>1
<1> HIDE DEF U
<1>3. q2 \in Seq(Status) /\ Len(q2) = n - 1 /\ \A j \in 1 .. n - 1 : q2[j] = q[At(j)]
  BY <1>1, <1>2, DropAt
<1>4. vc2 \in Seq(U) /\ Len(vc2) = n - 1 /\ \A j \in 1 .. n - 1 : vc2[j] = vc[At(j)]
  <2>1. i \in 1 .. Len(vc)
    BY <1>1, <1>2
  <2>2. /\ vc2 \in Seq(U) /\ Len(vc2) = Len(vc) - 1
        /\ \A j \in 1 .. Len(vc) - 1 : vc2[j] = IF j < i THEN vc[j] ELSE vc[j + 1]
    BY <1>1, <2>1, DropAt
  <2> HIDE DEF vc2, n
  <2> QED
    BY <1>1, <2>2
<1>5. \A j \in 1 .. n - 1 : At(j) \in 1 .. n /\ \A m \in 1 .. j : At(m) \in 1 .. At(j)
  BY <1>1, <1>2
<1> HIDE DEF n, q2, vc2, At
<1>6. \A j \in 1 .. n : Report(q[j], vc[j], lo, mid, hi, got, win)
  BY DEF Reports, n
<1>7. \A j \in 1 .. n : \A m \in 1 .. j : vc[m].r <= vc[j].r /\ Missed(q[m], vc[m].a, vc[j].r)
  BY DEF Reports, n
<1>8. \A j \in 1 .. n - 1 : \A m \in 1 .. j : m \in 1 .. n - 1
  BY <1>1
<1>9. \A j \in 1 .. n - 1 : Report(q2[j], vc2[j], lo, mid, hi, got, win)
  BY <1>3, <1>4, <1>5, <1>6
<1>10. \A j \in 1 .. n - 1 : \A m \in 1 .. j :
          vc2[m].r <= vc2[j].r /\ Missed(q2[m], vc2[m].a, vc2[j].r)
  BY <1>3, <1>4, <1>5, <1>7, <1>8
<1>11. Reports(q2, vc2, lo, mid, hi, got, win)
  BY <1>3, <1>4, <1>9, <1>10 DEF Reports, U
<1>12. \A j \in 1 .. Len(vc2) : \E m \in 1 .. Len(vc) : vc2[j] = vc[m]
  BY <1>1, <1>4, <1>5
<1> QED
  BY <1>11, <1>12 DEF q2, vc2

\* The first one is handed to the transmitter.
LEMMA ReportsTail ==
  ASSUME NEW q, NEW vc, NEW lo, NEW mid, NEW hi, NEW got, NEW win,
         Reports(q, vc, lo, mid, hi, got, win), q # << >>
  PROVE  /\ Head(q) \in Status /\ vc[1] \in [r : Nat, a : Nat]
         /\ Report(Head(q), vc[1], lo, mid, hi, got, win)
         /\ Missed(Head(q), vc[1].a, vc[1].r)
         /\ Reports(Tail(q), Tail(vc), lo, mid, hi, got, win)
         /\ \A j \in 1 .. Len(Tail(vc)) : /\ vc[1].r <= Tail(vc)[j].r
                                          /\ Missed(Head(q), vc[1].a, Tail(vc)[j].r)
<1> DEFINE U == [r : Nat, a : Nat]
           n == Len(q)
           q2 == Tail(q)
           vc2 == Tail(vc)
<1>1. q \in Seq(Status) /\ vc \in Seq(U) /\ n = Len(vc) /\ n \in Nat
  BY DEF Reports
<1>2. n >= 1 /\ Head(q) = q[1] /\ vc # << >>
  BY <1>1
<1> HIDE DEF U
<1>3. q2 \in Seq(Status) /\ Len(q2) = n - 1 /\ \A j \in 1 .. n - 1 : q2[j] = q[j + 1]
  BY <1>1, HeadTailProperties
<1>4. vc2 \in Seq(U) /\ Len(vc2) = n - 1 /\ \A j \in 1 .. n - 1 : vc2[j] = vc[j + 1]
  <2>1. /\ vc2 \in Seq(U) /\ Len(vc2) = Len(vc) - 1
        /\ \A j \in 1 .. Len(vc2) : vc2[j] = vc[j + 1]
    BY <1>1, <1>2, HeadTailProperties
  <2> HIDE DEF vc2, n
  <2> QED
    BY <1>1, <2>1
<1>5. q[1] \in Status /\ vc[1] \in U
  BY <1>1, <1>2, Elements
<1> HIDE DEF n, q2, vc2
<1>6. \A j \in 1 .. n : Report(q[j], vc[j], lo, mid, hi, got, win)
  BY DEF Reports, n
<1>7. \A j \in 1 .. n : \A m \in 1 .. j : vc[m].r <= vc[j].r /\ Missed(q[m], vc[m].a, vc[j].r)
  BY DEF Reports, n
<1>8. \A j \in 1 .. n - 1 : \A m \in 1 .. j : m \in 1 .. n - 1 /\ m + 1 \in 1 .. j + 1
                                              /\ j + 1 \in 1 .. n /\ 1 \in 1 .. j + 1
  BY <1>1
<1>9. \A j \in 1 .. n - 1 : Report(q2[j], vc2[j], lo, mid, hi, got, win)
  BY <1>1, <1>3, <1>4, <1>6
<1>10. \A j \in 1 .. n - 1 : \A m \in 1 .. j :
          vc2[m].r <= vc2[j].r /\ Missed(q2[m], vc2[m].a, vc2[j].r)
  BY <1>3, <1>4, <1>7, <1>8
<1>11. Reports(q2, vc2, lo, mid, hi, got, win)
  BY <1>3, <1>4, <1>9, <1>10 DEF Reports, U
<1>12. \A j \in 1 .. n - 1 : vc[1].r <= vc2[j].r /\ Missed(q[1], vc[1].a, vc2[j].r)
  <2> TAKE j \in 1 .. n - 1
  <2>1. j + 1 \in 1 .. n /\ 1 \in 1 .. j + 1
    BY <1>1
  <2> QED
    BY <1>4, <1>7, <2>1
<1>13. 1 \in 1 .. n /\ 1 \in 1 .. 1
  BY <1>1, <1>2
<1>14. Report(q[1], vc[1], lo, mid, hi, got, win) /\ Missed(q[1], vc[1].a, vc[1].r)
  BY <1>6, <1>7, <1>13
<1> QED
  BY <1>2, <1>4, <1>5, <1>11, <1>12, <1>14 DEF q2, vc2, U

\* A new one is built: what it reports first as missing was missing for the others.
LEMMA ReportsSend ==
  ASSUME NEW q, NEW vc, NEW lo \in Nat, NEW mid \in Nat, NEW hi \in Nat, NEW got, NEW win,
         Reports(q, vc, lo, mid, hi, got, win), mid \notin got,
         NEW st \in Status, NEW x \in [r : Nat, a : Nat], x.r = mid,
         Report(st, x, lo, mid, hi, got, win)
  PROVE  Reports(Append(q, st), Append(vc, x), lo, mid, hi, got, win)
<1> DEFINE U == [r : Nat, a : Nat]
           n == Len(q)
           q2 == Append(q, st)
           vc2 == Append(vc, x)
<1>1. q \in Seq(Status) /\ vc \in Seq(U) /\ n = Len(vc) /\ n \in Nat /\ x \in U
  BY DEF Reports
<1>2. x.r \in Nat /\ x.a \in Nat
  OBVIOUS
<1>3. \A j \in 1 .. n : vc[j] \in U /\ vc[j].r \in Nat /\ vc[j].a \in Nat
  <2>1. \A j \in 1 .. n : vc[j] \in U
    BY <1>1, Elements
  <2> QED
    BY <2>1
<1> HIDE DEF U
<1>4. q2 \in Seq(Status) /\ Len(q2) = n + 1 /\ q2[n + 1] = st /\ \A j \in 1 .. n : q2[j] = q[j]
  BY <1>1, AppendProperties
<1>5. vc2 \in Seq(U) /\ Len(vc2) = n + 1 /\ vc2[n + 1] = x /\ \A j \in 1 .. n : vc2[j] = vc[j]
  BY <1>1, AppendProperties
<1> HIDE DEF n, q2, vc2
<1>6. \A j \in 1 .. n : Report(q[j], vc[j], lo, mid, hi, got, win)
  BY DEF Reports, n
<1>7. \A j \in 1 .. n : \A m \in 1 .. j : vc[m].r <= vc[j].r /\ Missed(q[m], vc[m].a, vc[j].r)
  BY DEF Reports, n
<1>8. \A j \in 1 .. n + 1 : j \in 1 .. n \/ j = n + 1
  BY <1>1
<1>9. \A j \in 1 .. n : vc[j].r <= mid /\ Missed(q[j], vc[j].a, mid)
  <2> TAKE j \in 1 .. n
  <2>1. /\ vc[j].r <= mid
        /\ \A u \in vc[j].r .. vc[j].a - 1 : u % MOD \in q[j].nacks \/ u \in got
    BY <1>6 DEF Report
  <2>2. mid < vc[j].a => mid \in vc[j].r .. vc[j].a - 1
    BY <1>3, <2>1
  <2> QED
    BY <2>1, <2>2 DEF Missed
<1>10. Missed(st, x.a, mid)
  <2>1. \A u \in x.r .. x.a - 1 : u % MOD \in st.nacks \/ u \in got
    BY DEF Report
  <2>2. mid < x.a => mid \in x.r .. x.a - 1
    BY <1>2
  <2> QED
    BY <2>1, <2>2 DEF Missed
<1>11. \A j \in 1 .. n + 1 : Report(q2[j], vc2[j], lo, mid, hi, got, win)
  BY <1>4, <1>5, <1>6, <1>8
<1>12. ASSUME NEW j \in 1 .. n + 1, NEW m \in 1 .. j
       PROVE  vc2[m].r <= vc2[j].r /\ Missed(q2[m], vc2[m].a, vc2[j].r)
  <2>1. CASE j \in 1 .. n
    <3>1. m \in 1 .. n
      BY <1>1, <2>1
    <3> QED
      BY <1>4, <1>5, <1>7, <2>1, <3>1
  <2>2. CASE j = n + 1 /\ m \in 1 .. n
    BY <1>4, <1>5, <1>9, <2>2
  <2>3. CASE j = n + 1 /\ m = n + 1
    BY <1>2, <1>4, <1>5, <1>10, <2>3
  <2>4. j \in 1 .. n \/ (j = n + 1 /\ m \in 1 .. n) \/ (j = n + 1 /\ m = n + 1)
    BY <1>1
  <2> QED
    BY <2>1, <2>2, <2>3, <2>4
<1>13. Reports(q2, vc2, lo, mid, hi, got, win)
  BY <1>4, <1>5, <1>11, <1>12 DEF Reports, U
<1> QED
  BY <1>13 DEF q2, vc2

-----------------------------------------------------------------------------
(* The window of the transmitter, and the status report it is applying.        *)

\* The PDUs from lo up to hi that the peer does not have are in the window.
Sent(win, lo, hi, got, cont) ==
  \A v \in lo .. hi - 1 :
     IF v % MOD \in DOMAIN win THEN win[v % MOD].cells = cont[v] ELSE v \in got

\* handle_control_pdu: p = [r, a, i, s] holds VR(R) and ACK_SN of the report, the loop
\* variable and VT(S) when the loop began, none wrapped.  vc are the reports under way.
Applying(stk, p, vc, lo, mid, hi, got, win) ==
  stk.pc = "control" =>
    /\ Report(stk.status, p, lo, mid, hi, got, win)
    /\ Missed(stk.status, p.a, p.r)
    /\ \A i \in 1 .. Len(vc) : p.r <= vc[i].r /\ Missed(stk.status, p.a, vc[i].r)
    /\ stk.i = p.i % MOD /\ stk.vt_s_local = p.s % MOD
    /\ p.a <= p.s /\ p.s <= hi
    /\ lo <= p.i /\ p.i <= p.a
    /\ IF stk.update_vt_a THEN lo = p.i ELSE lo = p.r

PType == [r : Nat, a : Nat, i : Nat, s : Nat]

\* As for the reports under way, while VT(A) stays where it is.
LEMMA ApplyingStays ==
  ASSUME NEW stk, NEW p \in PType, NEW vc, NEW lo \in Nat, NEW mid \in Nat, NEW hi \in Nat,
         NEW got, NEW win, Applying(stk, p, vc, lo, mid, hi, got, win),
         NEW mid2 \in Nat, NEW hi2 \in Nat, NEW got2, NEW win2,
         mid <= mid2, hi <= hi2, got \subseteq got2,
         p.r < hi2 => p.r % MOD \in DOMAIN win2,
         NEW vc2, \A j \in 1 .. Len(vc2) : \/ \E m \in 1 .. Len(vc) : vc2[j] = vc[m]
                                           \/ vc2[j].r = mid /\ mid \notin got
  PROVE  Applying(stk, p, vc2, lo, mid2, hi2, got2, win2)
<1> SUFFICES ASSUME stk.pc = "control"
             PROVE  Applying(stk, p, vc2, lo, mid2, hi2, got2, win2)
  BY DEF Applying
<1> DEFINE st == stk.status
<1>1. p.r \in Nat /\ p.a \in Nat /\ p.s \in Nat
  BY DEF PType
<1>2. Report(st, p, lo, mid, hi, got, win)
  BY DEF Applying
<1>3. lo <= p.r /\ p.r <= mid
  BY <1>2 DEF Report
<1>4. Report(st, p, lo, mid2, hi2, got2, win2)
  BY <1>1, <1>2, <1>3, ReportStays
<1>5. ASSUME NEW j \in 1 .. Len(vc2) PROVE p.r <= vc2[j].r /\ Missed(st, p.a, vc2[j].r)
  <2>1. CASE \E m \in 1 .. Len(vc) : vc2[j] = vc[m]
    BY <2>1 DEF Applying
  <2>2. CASE vc2[j].r = mid /\ mid \notin got
    <3>1. \A u \in p.r .. p.a - 1 : u % MOD \in st.nacks \/ u \in got
      BY <1>2 DEF Report
    <3>2. mid < p.a => mid \in p.r .. p.a - 1
      BY <1>1, <1>3
    <3>3. Missed(st, p.a, mid)
      BY <2>2, <3>1, <3>2 DEF Missed
    <3> QED
      BY <1>3, <2>2, <3>3
  <2> QED
    BY <2>1, <2>2
<1>6. p.s <= hi2
  BY <1>1 DEF Applying
<1> QED
  BY <1>4, <1>5, <1>6 DEF Applying

-----------------------------------------------------------------------------
(* What the receiver holds.                                                    *)

\* got are the PDUs received, mid the first one missing; the PDUs in the window and the
\* segments are those of the numbers from mid on, and what cont says of them.
Held(win, segs, mid, hi, got, cont) ==
  /\ 0 .. mid - 1 \subseteq got /\ mid \notin got /\ got \subseteq 0 .. hi - 1
  /\ \A u \in mid .. mid + MOD - 1 :
       /\ u \in got <=> u % MOD \in DOMAIN win
       /\ u \in got => win[u % MOD] = cont[u]
       /\ u % MOD \in DOMAIN segs =>
            /\ PartsOf(segs[u % MOD], cont[u])
            /\ DOMAIN segs[u % MOD] # {} => u < hi

\* No cell of the PDUs received is lost: it is in the window, in the SDU that is being put
\* together, or delivered.
Kept(sdu, out, win, got, cont) ==
  /\ sdu \in Seq(Cell) /\ out \in Seq(Seq(Cell)) /\ \A sn \in DOMAIN win : win[sn] \in Seq(Cell)
  /\ \A v \in got : Cells(cont[v]) \subseteq Contents(sdu, out, win)

\* The transmitter sends a new PDU.
LEMMA HeldMore ==
  ASSUME NEW win, NEW segs, NEW mid \in Nat, NEW hi \in Nat, NEW got, NEW cont,
         Held(win, segs, mid, hi, got, cont),
         NEW hi2 \in Nat, hi <= hi2, NEW cont2, \A v \in 0 .. hi - 1 : cont2[v] = cont[v]
  PROVE  Held(win, segs, mid, hi2, got, cont2)
<1>1. MOD \in Nat
  BY WindowAssumption DEF MOD
<1> HIDE DEF MOD
<1>2. got \subseteq 0 .. hi2 - 1
  <2>1. got \subseteq 0 .. hi - 1
    BY DEF Held
  <2>2. 0 .. hi - 1 \subseteq 0 .. hi2 - 1
    OBVIOUS
  <2> QED
    BY <2>1, <2>2
<1>3. ASSUME NEW u \in mid .. mid + MOD - 1
      PROVE  /\ u \in got <=> u % MOD \in DOMAIN win
             /\ u \in got => win[u % MOD] = cont2[u]
             /\ u % MOD \in DOMAIN segs => /\ PartsOf(segs[u % MOD], cont2[u])
                                           /\ DOMAIN segs[u % MOD] # {} => u < hi2
  <2>1. /\ u \in got <=> u % MOD \in DOMAIN win
        /\ u \in got => win[u % MOD] = cont[u] /\ u \in 0 .. hi - 1
        /\ u % MOD \in DOMAIN segs => /\ PartsOf(segs[u % MOD], cont[u])
                                      /\ DOMAIN segs[u % MOD] # {} => u < hi
    BY DEF Held
  <2>2. u \in Nat /\ (u < hi => cont2[u] = cont[u])
    BY <1>1
  <2>3. u \in got => win[u % MOD] = cont2[u]
    BY <2>1
  <2>4. CASE u < hi
    BY <2>1, <2>2, <2>3, <2>4
  <2>5. CASE ~(u < hi)
    <3>1. u % MOD \in DOMAIN segs => DOMAIN segs[u % MOD] = {}
      BY <2>1, <2>5
    <3> QED
      BY <2>1, <2>3, <3>1 DEF PartsOf
  <2> QED
    BY <2>4, <2>5
<1> QED
  BY <1>2, <1>3 DEF Held

Stored(segs2, segs, x, list) ==
  /\ DOMAIN segs2 = DOMAIN segs \cup {x}
  /\ \A y \in DOMAIN segs2 : segs2[y] = IF y = x THEN list ELSE segs[y]

\* A segment of the v-th PDU is stored: write_pdu, its map of segment lists.
LEMMA HeldSegment ==
  ASSUME NEW win, NEW segs, NEW mid \in Nat, NEW hi \in Nat, NEW got, NEW cont,
         Held(win, segs, mid, hi, got, cont),
         NEW v \in mid .. mid + MOD - 1, v < hi, NEW list, PartsOf(list, cont[v]),
         NEW segs2, Stored(segs2, segs, v % MOD, list)
  PROVE  Held(win, segs2, mid, hi, got, cont)
<1>1. /\ MOD \in Nat
      /\ DOMAIN segs2 = DOMAIN segs \cup {v % MOD}
      /\ \A sn \in DOMAIN segs2 : segs2[sn] = IF sn = v % MOD THEN list ELSE segs[sn]
  BY WindowAssumption DEF MOD, Stored
<1>2. ASSUME NEW u \in mid .. mid + MOD - 1, u % MOD \in DOMAIN segs2
      PROVE  /\ PartsOf(segs2[u % MOD], cont[u])
             /\ DOMAIN segs2[u % MOD] # {} => u < hi
  <2>1. CASE u % MOD = v % MOD
    <3>1. u = v
      <4> HIDE DEF MOD
      <4>1. u \in Nat /\ v \in Nat /\ u < v + MOD /\ v < u + MOD
        BY <1>1
      <4> QED
        BY <2>1, <4>1, UnwrappedOnce
    <3> QED
      BY <1>1, <1>2, <3>1
  <2>2. CASE u % MOD # v % MOD
    <3>1. segs2[u % MOD] = segs[u % MOD] /\ u % MOD \in DOMAIN segs
      BY <1>1, <1>2, <2>2
    <3>2. /\ PartsOf(segs[u % MOD], cont[u])
          /\ DOMAIN segs[u % MOD] # {} => u < hi
      BY <3>1 DEF Held
    <3> QED
      BY <3>1, <3>2
  <2> QED
    BY <2>1, <2>2
<1> HIDE DEF MOD
<1> QED
  BY <1>2 DEF Held

\* What is left of the window and of the segment lists when VR(R) moves from b by n.
Rest(win2, win, b, n) == /\ DOMAIN win2 = {z \in DOMAIN win : ModBase(z, b) >= n}
                         /\ \A y \in DOMAIN win2 : win2[y] = win[y]

Cleared(segs2, segs, b, n) ==
  /\ DOMAIN segs2 \subseteq DOMAIN segs
  /\ \A y \in DOMAIN segs2 :
       segs2[y] = IF ModBase(y, b) < n THEN NoEntries ELSE segs[y]

Adding(got, v) == got \cup {v}

\* A complete PDU is stored and what has no gap before it is reassembled:
\* handle_data_pdu and reassemble_rx_sdus.
LEMMA HeldPdu ==
  ASSUME NEW win, NEW segs, NEW mid \in Nat, NEW hi \in Nat, NEW got, NEW cont,
         Held(win, segs, mid, hi, got, cont), hi <= mid + MOD - 1,
         NEW v \in mid .. mid + MOD - 1, v < hi, v \notin got,
         NEW b, b = mid % MOD,
         NEW win1, win1 = With(win, v % MOD, cont[v]), NEW r \in StopsAt(win1, b),
         NEW n, n = ModBase(r, b),
         NEW win2, Rest(win2, win1, b, n), NEW segs2, Cleared(segs2, segs, b, n)
  PROVE  /\ n \in Nat /\ (mid + n) % MOD = r /\ mid + n <= hi
         /\ Held(win2, segs2, mid + n, hi, Adding(got, v), cont)
<1> DEFINE got1 == got \cup {v}
           mid2 == mid + n
<1>1. MOD \in Nat \ {0} /\ SN = 0 .. MOD - 1
  BY WindowAssumption DEF MOD, SN
<1>2. /\ r \in SN /\ r \notin DOMAIN win1
      /\ \A y \in SN : ModBase(y, b) < n => y \in DOMAIN win1
  BY DEF StopsAt
<1>3. b \in SN
  BY <1>1, Division
<1>4. n \in SN /\ mid2 % MOD = r /\ mid2 \in Nat
  <2>1. n \in SN
    BY <1>2, <1>3, ModBaseValue
  <2>2. (mid + n) % MOD = r
    BY <1>2, UnwrappedAt
  <2> QED
    BY <1>1, <2>1, <2>2
<1>5. /\ DOMAIN win1 = DOMAIN win \cup {v % MOD}
      /\ \A y \in DOMAIN win1 : win1[y] = IF y = v % MOD THEN cont[v] ELSE win[y]
  BY DEF With
<1>6. v \in Nat /\ v < mid + MOD /\ mid <= v
  BY <1>1
<1> HIDE DEF MOD
<1>7. ASSUME NEW u \in mid .. mid + MOD - 1
      PROVE  /\ u \in Nat /\ u % MOD \in SN /\ ModBase(u % MOD, b) = u - mid
             /\ u \in got1 <=> u % MOD \in DOMAIN win1
             /\ u \in got1 => win1[u % MOD] = cont[u]
  <2>1. u \in Nat /\ mid <= u /\ u < mid + MOD
    BY <1>1
  <2>2. u % MOD \in SN /\ ModBase(u % MOD, b) = u - mid
    BY <2>1, Unwrapped
  <2>3. u % MOD = v % MOD => u = v
    <3>1. u < v + MOD /\ v < u + MOD
      BY <1>1, <1>6, <2>1
    <3> QED
      BY <1>6, <2>1, <3>1, UnwrappedOnce
  <2>4. /\ u \in got <=> u % MOD \in DOMAIN win
        /\ u \in got => win[u % MOD] = cont[u]
    BY DEF Held
  <2>5. CASE u = v
    BY <1>5, <2>1, <2>2, <2>5
  <2>6. CASE u # v
    BY <1>5, <2>1, <2>2, <2>3, <2>4, <2>6
  <2> QED
    BY <2>5, <2>6
<1>8. got \subseteq 0 .. hi - 1 /\ 0 .. mid - 1 \subseteq got
  BY DEF Held
<1>9. got1 \subseteq 0 .. hi - 1
  <2>1. v \in 0 .. hi - 1
    BY <1>6
  <2> QED
    BY <1>8, <2>1
<1>10. \A u \in mid .. mid2 - 1 : u \in got1
  <2> TAKE u \in mid .. mid2 - 1
  <2>1. u \in mid .. mid + MOD - 1 /\ u - mid < n
    <3>1. n \in Nat /\ n < MOD /\ MOD \in Nat
      BY <1>1, <1>4
    <3>2. u \in Int /\ mid <= u /\ u <= mid + n - 1
      BY <3>1
    <3> QED
      BY <3>1, <3>2
  <2>2. u % MOD \in DOMAIN win1
    BY <1>2, <1>7, <2>1
  <2> QED
    BY <1>7, <2>1, <2>2
<1>11. mid2 \notin got1
  <2>0. n \in Nat /\ n < MOD /\ MOD \in Nat
    BY <1>1, <1>4
  <2>1. mid2 \in mid .. mid + MOD - 1
    BY <2>0
  <2> QED
    BY <1>2, <1>4, <1>7, <2>1
<1>12. 0 .. mid2 - 1 \subseteq got1
  <2>1. \A u \in 0 .. mid2 - 1 : u \in 0 .. mid - 1 \/ u \in mid .. mid2 - 1
    BY <1>4
  <2> QED
    BY <1>8, <1>10, <2>1
<1>13. mid2 <= hi
  <2>1. CASE mid2 = 0
    BY <2>1
  <2>2. CASE mid2 > 0
    <3>1. mid2 - 1 \in 0 .. mid2 - 1
      BY <1>4, <2>2
    <3>2. mid2 - 1 \in 0 .. hi - 1
      BY <1>9, <1>12, <3>1
    <3> QED
      BY <1>4, <3>2
  <2> QED
    BY <1>4, <2>1, <2>2
<1>14. /\ DOMAIN win2 = {z \in DOMAIN win1 : ModBase(z, b) >= n}
       /\ \A y \in DOMAIN win2 : win2[y] = win1[y]
       /\ DOMAIN segs2 \subseteq DOMAIN segs
       /\ \A y \in DOMAIN segs2 :
            segs2[y] = IF ModBase(y, b) < n THEN NoEntries ELSE segs[y]
  BY DEF Rest, Cleared
<1>15. ASSUME NEW u \in mid2 .. mid2 + MOD - 1
       PROVE  /\ u \in got1 <=> u % MOD \in DOMAIN win2
              /\ u \in got1 => win2[u % MOD] = cont[u]
              /\ u % MOD \in DOMAIN segs2 => /\ PartsOf(segs2[u % MOD], cont[u])
                                             /\ DOMAIN segs2[u % MOD] # {} => u < hi
  <2>1. CASE u < mid + MOD
    <3>0. /\ mid \in Nat /\ n \in Nat /\ MOD \in Nat
          /\ u \in Nat /\ mid + n <= u
      BY <1>1, <1>4
    <3>1. u \in mid .. mid + MOD - 1 /\ u - mid >= n /\ ~(u - mid < n)
      BY <2>1, <3>0
    <3>2. /\ ModBase(u % MOD, b) >= n /\ ~(ModBase(u % MOD, b) < n)
          /\ u \in got1 <=> u % MOD \in DOMAIN win1
          /\ u \in got1 => win1[u % MOD] = cont[u]
      BY <1>7, <3>1
    <3>3. u % MOD \in DOMAIN segs2 => u % MOD \in DOMAIN segs /\ segs2[u % MOD] = segs[u % MOD]
      BY <1>14, <3>2
    <3>4. u % MOD \in DOMAIN segs => /\ PartsOf(segs[u % MOD], cont[u])
                                     /\ DOMAIN segs[u % MOD] # {} => u < hi
      BY <3>1 DEF Held
    <3> QED
      BY <1>14, <3>2, <3>3, <3>4
  <2>2. CASE ~(u < mid + MOD)
    <3> DEFINE w == u - MOD
    <3>1. w \in mid .. mid + MOD - 1 /\ w - mid < n /\ w \in Nat /\ u \in Nat
      <4>1. n \in Nat /\ n < MOD /\ MOD \in Nat /\ mid2 \in Nat /\ mid2 = mid + n
        BY <1>1, <1>4
      <4> HIDE DEF mid2
      <4>2. u \in Nat /\ mid + MOD <= u /\ u <= mid + n + MOD - 1
        BY <2>2, <4>1
      <4>3. w \in Nat /\ mid <= w /\ w <= mid + n - 1
        BY <4>1, <4>2
      <4> QED
        BY <4>1, <4>2, <4>3
    <3>2. u % MOD = w % MOD
      <4>1. w % MOD \in SN /\ MOD \in Nat \ {0} /\ w \in Int
        BY <1>1, <1>7, <3>1
      <4>2. w = (w \div MOD) * MOD + (w % MOD) /\ w \div MOD \in Int
        BY <4>1, Division
      <4>3. u = w + MOD
        BY <1>1, <3>1
      <4> DEFINE d == w \div MOD
                 y == w % MOD
      <4> HIDE DEF d, y, w
      <4>4. w = d * MOD + y /\ d \in Int /\ y \in 0 .. MOD - 1
        BY <1>1, <4>1, <4>2 DEF d, y
      <4>5. (d + 1) * MOD = d * MOD + MOD /\ d * MOD \in Int
        BY <1>1, <4>4
      <4>6. u = (d + 1) * MOD + y /\ d + 1 \in Int
        BY <1>1, <4>3, <4>4, <4>5
      <4>7. \A q \in Int, s \in 0 .. MOD - 1 : u = q * MOD + s => u % MOD = s
        <5>1. u \in Int
          BY <3>1
        <5> QED
          BY <1>1, <5>1, Division, Zenon
      <4> QED
        BY <4>4, <4>6, <4>7 DEF y
    <3>3. ModBase(u % MOD, b) = w - mid /\ ~(ModBase(u % MOD, b) >= n) /\ ModBase(u % MOD, b) < n
      <4>1. ModBase(u % MOD, b) = w - mid
        BY <1>7, <3>1, <3>2
      <4>2. n \in Nat /\ w - mid \in Int /\ w - mid < n
        BY <1>1, <1>4, <3>1
      <4> HIDE DEF w
      <4> QED
        BY <4>1, <4>2
    <3>4. u \notin got1
      BY <1>1, <1>9, <2>2
    <3>5. u % MOD \in DOMAIN segs2 => segs2[u % MOD] = NoEntries
      BY <1>14, <3>3
    <3>6. DOMAIN NoEntries = {}
      BY DEF NoEntries
    <3> QED
      BY <1>14, <3>3, <3>4, <3>5, <3>6 DEF PartsOf
  <2> QED
    BY <2>1, <2>2
<1> HIDE DEF got1, mid2
<1>16. Held(win2, segs2, mid2, hi, got1, cont)
  BY <1>9, <1>11, <1>12, <1>15 DEF Held
<1>17. n \in Nat
  BY <1>1, <1>4
<1> QED
  BY <1>4, <1>13, <1>16, <1>17 DEF got1, mid2, Adding

-----------------------------------------------------------------------------
(* Both ends.                                                                  *)

\* There is room above VT(S) for as many PDUs as may overtake another.
Slack == TxOff(vt_s) + MaxOvertaken <= W

\* lo, mid and hi are VT(A), VR(R) and VT(S) as they would be if they did not wrap.
Link(lo, mid, hi, got, cont, vd, vc, p) ==
  /\ lo \in Nat /\ mid \in Nat /\ hi \in Nat /\ cont \in [Nat -> Seq(Cell)] /\ p \in PType
  /\ lo <= mid /\ mid <= hi /\ hi + MaxOvertaken <= lo + W
  /\ vt_a = lo % MOD /\ vr_r = mid % MOD /\ vt_s = hi % MOD
  /\ mid + RxOff(vr_h) <= hi
  /\ Held(rx_window, rx_segments, mid, hi, got, cont)
  /\ Kept(rx_sdu, pdcp_rx, rx_window, got, cont)
  /\ Sent(tx_window, lo, hi, got, cont)
  /\ Channel(data, vd, hi, got, cont)
  /\ Reports(control, vc, lo, mid, hi, got, tx_window)
  /\ Applying(stack, p, vc, lo, mid, hi, got, tx_window)
  /\ NoProtocolFailure

BothEnds == \E lo, mid, hi, got, cont, vd, vc, p : Link(lo, mid, hi, got, cont, vd, vc, p)

LinkInv == TxInv /\ RxInv /\ BothEnds

\* Offsets from VT(A) and from VR(R), of the numbers within reach.
LEMMA Offsets ==
  ASSUME NEW lo \in Nat, NEW mid \in Nat, NEW hi \in Nat,
         lo <= mid, mid <= hi, hi + MaxOvertaken <= lo + W,
         vt_a = lo % MOD, vr_r = mid % MOD, vt_s = hi % MOD
  PROVE  /\ MOD \in Nat /\ W \in Nat /\ MOD = W + W /\ W >= 2 /\ SN = 0 .. MOD - 1
         /\ hi <= lo + W /\ hi <= mid + W
         /\ \A v \in Nat : lo <= v /\ v < lo + MOD => v % MOD \in SN /\ TxOff(v % MOD) = v - lo
         /\ \A v \in Nat : mid <= v /\ v < mid + MOD => v % MOD \in SN /\ RxOff(v % MOD) = v - mid
         /\ TxOff(vt_s) = hi - lo
<1>1. MOD \in Nat /\ W \in Nat /\ MOD = W + W /\ W >= 2 /\ SN = 0 .. MOD - 1
  BY WindowAssumption DEF MOD, SN
<1>2. hi <= lo + W /\ hi <= mid + W
  BY <1>1, LinkAssumption
<1> HIDE DEF MOD
<1>3. \A v \in Nat : lo <= v /\ v < lo + MOD => v % MOD \in SN /\ TxOff(v % MOD) = v - lo
  BY Unwrapped DEF TxOff
<1>4. \A v \in Nat : mid <= v /\ v < mid + MOD => v % MOD \in SN /\ RxOff(v % MOD) = v - mid
  BY Unwrapped DEF RxOff
<1>5. lo <= hi /\ hi < lo + MOD
  BY <1>1, <1>2
<1> QED
  BY <1>1, <1>2, <1>3, <1>4, <1>5

\* The parts of Link after a step.
LEMMA LinkBuilt ==
  ASSUME NEW lo \in Nat, NEW mid \in Nat, NEW hi \in Nat, NEW cont \in [Nat -> Seq(Cell)],
         NEW p \in PType, NEW got, NEW vd, NEW vc,
         lo <= mid, mid <= hi, hi + MaxOvertaken <= lo + W,
         vt_a' = lo % MOD, vr_r' = mid % MOD, vt_s' = hi % MOD,
         mid + ModBase(vr_h', vr_r') <= hi,
         Held(rx_window', rx_segments', mid, hi, got, cont),
         Kept(rx_sdu', pdcp_rx', rx_window', got, cont),
         Sent(tx_window', lo, hi, got, cont),
         Channel(data', vd, hi, got, cont),
         Reports(control', vc, lo, mid, hi, got, tx_window'),
         Applying(stack', p, vc, lo, mid, hi, got, tx_window'),
         NoProtocolFailure'
  PROVE  BothEnds'
<1>1. Link(lo, mid, hi, got, cont, vd, vc, p)'
  BY DEF Link, RxOff
<1> QED
  BY <1>1 DEF BothEnds

\* A step that changes the payload of no PDU and the edges of no window: write_sdu,
\* discard_sdu, the timers, a retransmission.
LEMMA LinkQuiet ==
  ASSUME NEW lo, NEW mid, NEW hi, NEW got, NEW cont, NEW vd, NEW vc, NEW p,
         Link(lo, mid, hi, got, cont, vd, vc, p),
         SameCells(tx_window', tx_window),
         UNCHANGED <<vt_a, vt_s, vr_r, vr_h, rx_sdu, pdcp_rx, rx_window, rx_segments, control>>,
         stack' = stack \/ stack'.pc # "control",
         NoProtocolFailure',
         NEW vd2, Channel(data', vd2, hi, got, cont)
  PROVE  BothEnds'
<1>1. DOMAIN tx_window' = DOMAIN tx_window
  BY DEF SameCells
<1>2. Sent(tx_window', lo, hi, got, cont)
  BY DEF Sent, SameCells, Link
<1>3. /\ lo \in Nat /\ mid \in Nat /\ hi \in Nat /\ p \in PType
      /\ Reports(control, vc, lo, mid, hi, got, tx_window)
      /\ Applying(stack, p, vc, lo, mid, hi, got, tx_window)
  BY DEF Link
<1>4. Reports(control', vc, lo, mid, hi, got, tx_window')
  BY <1>1, <1>3 DEF Reports, Report
<1>5. Applying(stack', p, vc, lo, mid, hi, got, tx_window')
  BY <1>1, <1>3 DEF Applying, Report
<1>6. Link(lo, mid, hi, got, cont, vd2, vc, p)'
  BY <1>2, <1>4, <1>5 DEF Link, RxOff
<1> QED
  BY <1>6 DEF BothEnds

-----------------------------------------------------------------------------
(* The MAC reads a PDU.                                                        *)

\* The PDUs that build_retx_pdu, build_segment and build_data_pdu put together.
LEMMA PduTyped ==
  ASSUME NEW sn \in SN, NEW b \in BOOLEAN, NEW c \in Seq(Cell)
  PROVE  /\ [rf |-> FALSE, sn |-> sn, p |-> b, cells |-> c] \in Pdu
         /\ \A so \in Nat, l \in BOOLEAN :
              [rf |-> TRUE, sn |-> sn, p |-> b, so |-> so, lsf |-> l, cells |-> c] \in Pdu
BY DEF Pdu

\* build_retx_pdu and build_segment: what is retransmitted is the PDU or a part of it.
LEMMA RetxCarries ==
  ASSUME TxInv, NEW n \in Nat, ReadyRetxQueue # << >>, RetxFits(n)
  PROVE  /\ RetxPdu(n) \in Pdu /\ RetxPdu(n).sn \in DOMAIN tx_window
         /\ PduOf(RetxPdu(n), tx_window[RetxPdu(n).sn].cells)
<1> DEFINE r == Head(ReadyRetxQueue)
           sn == r.sn
           cells == tx_window[sn].cells
           span == RetxSpan(n)
           len == Len(cells)
<1>1. ReadyRetxQueue \in Seq(Retx) /\ InPdu(ReadyRetxQueue, tx_window) /\ sn \in DOMAIN tx_window
  BY ReadyKeeps DEF TxInv
<1>2. r \in Retx /\ PartOf(r, tx_window)
  BY <1>1 DEF InPdu
<1>3. WindowOK(tx_window)
  BY DEF TxInv, RetxInv
<1>4. cells \in Seq(Cell) /\ sn \in SN /\ len \in Nat
  BY <1>1, <1>3 DEF WindowOK, TxPdu
<1>5. RetxPolls \in BOOLEAN
  BY DEF RetxPolls, PollRequired
<1>6. /\ span.whole = (~r.is_segment /\ len <= n) /\ span.from = r.so_start
      /\ span.to = IF r.so_end <= r.so_start + n THEN r.so_end ELSE r.so_start + n
  BY DEF RetxSpan
<1>7. /\ r.is_segment \in BOOLEAN /\ r.so_start \in Nat /\ r.so_end \in Nat
  BY <1>2 DEF Retx
<1>8. CASE span.whole
  <2>1. RetxPdu(n) = [rf |-> FALSE, sn |-> sn, p |-> RetxPolls, cells |-> cells]
    BY <1>8 DEF RetxPdu
  <2> HIDE DEF sn, cells
  <2>2. RetxPdu(n).sn = sn /\ ~RetxPdu(n).rf /\ RetxPdu(n).cells = cells
    BY <2>1
  <2>3. RetxPdu(n) \in Pdu
    BY <1>4, <1>5, <2>1, PduTyped
  <2> QED
    BY <1>1, <2>2, <2>3 DEF PduOf, sn, cells
<1>9. CASE ~span.whole
  <2> DEFINE from == span.from
             to == span.to
             c == SubSeq(cells, from + 1, to)
             last == to = len
             poll == RetxPolls
  <2>1. RetxPdu(n) = [rf |-> TRUE, sn |-> sn, p |-> poll, so |-> from, lsf |-> last,
                      cells |-> c]
    BY <1>9 DEF RetxPdu
  <2>2. n > 0
    BY <1>9 DEF RetxFits
  <2>3. r.so_end <= len /\ r.so_start < r.so_end
    <3>1. /\ r.so_end <= len
          /\ r.so_start < r.so_end \/ (len = 0 /\ ~r.is_segment)
      BY <1>1, <1>2 DEF PartOf
    <3>2. (~r.is_segment /\ len <= n) => span.whole
      BY <1>6
    <3> HIDE DEF span, r, len
    <3> QED
      BY <1>4, <1>7, <1>9, <3>1, <3>2
  <2>4. from \in Nat /\ to \in Nat /\ from < to /\ to <= len
    BY <1>4, <1>6, <1>7, <2>2, <2>3
  <2> HIDE DEF from, to, span, r, sn, cells, len
  <2>5. /\ c \in Seq(Cell) /\ Len(c) = to - from
        /\ \A x \in 1 .. to - from : c[x] = cells[from + x]
    <3>1. /\ \A x \in from + 1 .. to : cells[x] \in Cell
          /\ from + 1 \in Int /\ to \in Int
      <4>1. \A x \in 1 .. len : cells[x] \in Cell
        BY <1>4, Elements DEF len
      <4> QED
        BY <2>4, <1>4, <4>1
    <3>2. /\ c \in Seq(Cell) /\ Len(c) = IF from + 1 <= to THEN to - (from + 1) + 1 ELSE 0
          /\ \A x \in 1 .. to - (from + 1) + 1 : c[x] = cells[(from + 1) + x - 1]
      BY <3>1, SubSeqProperties
    <3> HIDE DEF c
    <3>3. \A x \in 1 .. to - from : x \in 1 .. to - (from + 1) + 1 /\ (from + 1) + x - 1 = from + x
      BY <2>4
    <3> QED
      BY <2>4, <3>2, <3>3
  <2> HIDE DEF c
  <2> DEFINE pdu == RetxPdu(n)
  <2>6. /\ pdu \in Pdu /\ pdu.rf /\ pdu.sn = sn /\ pdu.so = from /\ pdu.cells = c
        /\ pdu.lsf <=> to = len
    <3>1. last \in BOOLEAN /\ (last <=> to = len) /\ poll \in BOOLEAN
      BY <1>5
    <3>2. pdu = [rf |-> TRUE, sn |-> sn, p |-> poll, so |-> from, lsf |-> last, cells |-> c]
      BY <2>1
    <3> HIDE DEF last, poll, pdu
    <3>3. pdu \in Pdu
      BY <1>4, <2>4, <2>5, <3>1, <3>2, PduTyped
    <3>4. /\ pdu.rf /\ pdu.sn = sn /\ pdu.so = from /\ pdu.cells = c /\ pdu.lsf = last
      BY <3>2
    <3> QED
      BY <3>1, <3>3, <3>4
  <2> HIDE DEF pdu
  <2>7. PartAt(pdu, from, cells)
    <3>1. from + Len(c) <= len /\ (from + Len(c) = len <=> to = len)
      BY <1>4, <2>4, <2>5
    <3> QED
      BY <2>4, <2>5, <2>6, <3>1 DEF PartAt, len
  <2> QED
    BY <1>1, <2>6, <2>7 DEF PduOf, pdu, sn, cells, r
<1> QED
  BY <1>8, <1>9

\* build_retx_pdu and build_segment: a PDU of the window is sent again, whole or in part.
LEMMA LinkReadRetx ==
  ASSUME NEW lo, NEW mid, NEW hi, NEW got, NEW cont, NEW vd, NEW vc, NEW p,
         Link(lo, mid, hi, got, cont, vd, vc, p), TxInv,
         NEW n \in Nat, ReadRetx(n),
         data' = Append(data, [pdu |-> RetxPdu(n), overtaken |-> 0]),
         UNCHANGED <<rxVars, control>>
  PROVE  BothEnds'
<1> DEFINE pdu == RetxPdu(n)
           v == lo + TxOff(pdu.sn)
           x == [v |-> v, k |-> hi]
<1>1. /\ lo \in Nat /\ mid \in Nat /\ hi \in Nat /\ lo <= mid /\ mid <= hi
      /\ hi + MaxOvertaken <= lo + W
      /\ vt_a = lo % MOD /\ vr_r = mid % MOD /\ vt_s = hi % MOD
      /\ Held(rx_window, rx_segments, mid, hi, got, cont)
      /\ Kept(rx_sdu, pdcp_rx, rx_window, got, cont)
      /\ Sent(tx_window, lo, hi, got, cont)
      /\ Channel(data, vd, hi, got, cont)
  BY DEF Link
<1>2. pdu \in Pdu /\ pdu.sn \in DOMAIN tx_window /\ PduOf(pdu, tx_window[pdu.sn].cells)
  BY RetxCarries DEF ReadRetx
<1>3. TxOff(pdu.sn) < TxOff(vt_s) /\ pdu.sn \in SN
  BY <1>2 DEF TxInv, RetxInv, WindowOK
<1>4. /\ MOD \in Nat /\ SN = 0 .. MOD - 1 /\ TxOff(vt_s) = hi - lo
  BY <1>1, Offsets
<1> HIDE DEF pdu
<1>5. v \in Nat /\ lo <= v /\ v < hi /\ v % MOD = pdu.sn
  <2>1. v \in Nat /\ lo <= v /\ v < lo + MOD /\ v % MOD = pdu.sn
    BY <1>1, <1>3, UnwrappedAt DEF TxOff
  <2>2. TxOff(pdu.sn) \in SN
    BY <1>1, <1>3, <1>4, ModBaseValue DEF TxOff, TxInv, RetxInv
  <2> QED
    BY <1>1, <1>3, <1>4, <2>1, <2>2
<1> HIDE DEF v
<1>6. PduOf(pdu, cont[v])
  <2>1. v \in lo .. hi - 1
    BY <1>1, <1>5
  <2> QED
    BY <1>1, <1>2, <1>5, <2>1 DEF Sent
<1>7. Channel(data', Append(vd, x), hi, got, cont)
  <2>1. got \subseteq 0 .. hi - 1
    BY <1>1 DEF Held
  <2>2. hi + MaxOvertaken <= v + W
    BY <1>1, <1>5, WindowAssumption, LinkAssumption
  <2>3. data' = Append(data, [pdu |-> pdu, overtaken |-> 0])
    BY DEF pdu
  <2>4. hi <= hi /\ pdu.sn = v % MOD /\ \A w \in 0 .. hi - 1 : cont[w] = cont[w]
    BY <1>1, <1>5
  <2>5. Channel(Append(data, [pdu |-> pdu, overtaken |-> 0]), Append(vd, [v |-> v, k |-> hi]),
                hi, got, cont)
    BY <1>1, <1>2, <1>5, <1>6, <2>1, <2>2, <2>4, ChannelSend
  <2> QED
    BY <2>3, <2>5
<1>8. SameCells(tx_window', tx_window)
  BY ReadyKeeps DEF ReadRetx, TxInv
<1>9. NoProtocolFailure'
  BY DEF Link, NoProtocolFailure, ReadRetx, Rescheduled, MaxRetxEvent
<1>10. /\ UNCHANGED <<vt_a, vt_s, vr_r, vr_h, rx_sdu, pdcp_rx, rx_window, rx_segments, control>>
       /\ stack' = stack
  BY DEF ReadRetx, rxVars
<1> QED
  BY <1>7, <1>8, <1>9, <1>10, LinkQuiet

\* build_data_pdu: a new PDU takes the next number.
LEMMA LinkReadData ==
  ASSUME NEW lo, NEW mid, NEW hi, NEW got, NEW cont, NEW vd, NEW vc, NEW p,
         Link(lo, mid, hi, got, cont, vd, vc, p), TxInv, RxInv,
         NEW n \in Nat, ReadData(n), InWindow', Slack',
         data' = Append(data, [pdu |-> DataPdu(n), overtaken |-> 0]),
         UNCHANGED <<rxVars, control>>
  PROVE  BothEnds'
<1> DEFINE c == NewCells(n)
           pdu == DataPdu(n)
           cont2 == [cont EXCEPT ![hi] = c]
           x == [v |-> hi, k |-> hi + 1]
<1>1. /\ lo \in Nat /\ mid \in Nat /\ hi \in Nat /\ lo <= mid /\ mid <= hi
      /\ hi + MaxOvertaken <= lo + W /\ cont \in [Nat -> Seq(Cell)] /\ p \in PType
      /\ vt_a = lo % MOD /\ vr_r = mid % MOD /\ vt_s = hi % MOD
      /\ mid + RxOff(vr_h) <= hi
      /\ Held(rx_window, rx_segments, mid, hi, got, cont)
      /\ Kept(rx_sdu, pdcp_rx, rx_window, got, cont)
      /\ Sent(tx_window, lo, hi, got, cont)
      /\ Channel(data, vd, hi, got, cont)
      /\ Reports(control, vc, lo, mid, hi, got, tx_window)
      /\ Applying(stack, p, vc, lo, mid, hi, got, tx_window)
  BY DEF Link
<1>0. /\ lo \in Nat /\ mid \in Nat /\ hi \in Nat /\ lo <= mid /\ mid <= hi
      /\ mid + RxOff(vr_h) <= hi /\ p \in PType
  BY <1>1
<1>00. /\ MOD \in Nat /\ W \in Nat /\ MOD = W + W /\ W >= 2
      /\ hi <= lo + W /\ hi <= mid + W
  BY <1>1, Offsets
<1>2. /\ \A v \in Nat : lo <= v /\ v < lo + MOD => v % MOD \in SN /\ TxOff(v % MOD) = v - lo
  BY <1>1, Offsets
<1> HIDE DEF MOD
<1>3. /\ n \in Nat \ {0} /\ vt_s' = Inc(vt_s) /\ vt_a' = vt_a
      /\ tx_window' = NewWindow(n) /\ stack' = stack
  BY DEF ReadData
<1>4. vt_s' = (hi + 1) % MOD /\ vt_s \in SN
  BY <1>1, <1>3, UnwrappedNext
<1>5. hi + 1 + MaxOvertaken <= lo + W /\ TxOff(Inc(vt_s)) = (hi + 1) - lo /\ hi + 1 <= lo + W
  <2>1. TxOff((hi + 1) % MOD) = (hi + 1) - lo
    <3>1. hi + 1 \in Nat /\ lo <= hi + 1 /\ hi + 1 < lo + MOD
      BY <1>0, <1>00
    <3> QED
      BY <1>2, <3>1, Zenon
  <2>2. TxOff((hi + 1) % MOD) + MaxOvertaken <= W
    BY <1>3, <1>4 DEF Slack, TxOff
  <2> QED
    BY <1>0, <1>3, <1>4, <1>00, <2>1, <2>2, LinkAssumption
<1>6. PartsOK
  BY DEF TxInv, PartsOK, QueueTypes, SduInv, SduOK, SduBegun
<1>7. c \in Seq(Cell)
  BY <1>3, <1>6, NewPduCells
<1>8. /\ vt_s \notin DOMAIN tx_window /\ DOMAIN tx_window' = DOMAIN tx_window \cup {vt_s}
      /\ tx_window'[vt_s].cells = c
      /\ \A sn \in DOMAIN tx_window : tx_window'[sn].cells = tx_window[sn].cells
  <2>1. TxOff(Inc(vt_s)) <= W
    BY <1>0, <1>5, <1>00
  <2>2. RetxInv
    BY DEF TxInv
  <2> QED
    BY <1>3, <1>6, <2>1, <2>2, ReadDataRetx
<1> HIDE DEF c
<1>9. /\ cont2 \in [Nat -> Seq(Cell)] /\ cont2[hi] = c
      /\ \A v \in Nat : v # hi => cont2[v] = cont[v]
  BY <1>1, <1>7
<1>10. pdu \in Pdu /\ pdu.sn = hi % MOD /\ PduOf(pdu, cont2[hi])
  <2>1. DataPolls(n) \in BOOLEAN
    BY DEF DataPolls, PollRequired
  <2>2. pdu = [rf |-> FALSE, sn |-> vt_s, p |-> DataPolls(n), cells |-> c]
    BY DEF DataPdu, c
  <2> HIDE DEF pdu
  <2>3. pdu \in Pdu
    BY <1>4, <1>7, <2>1, <2>2, PduTyped
  <2> QED
    BY <1>1, <1>9, <2>2, <2>3 DEF PduOf
<1> HIDE DEF pdu, cont2
<1>11. Channel(data', Append(vd, x), hi + 1, got, cont2)
  <2>1. got \subseteq 0 .. hi - 1
    BY <1>1 DEF Held
  <2>2. hi + 1 \in Nat /\ hi <= hi + 1 /\ hi < hi + 1 /\ hi + 1 + MaxOvertaken <= hi + W
    BY <1>0, <1>5, <1>00, LinkAssumption
  <2>3. \A v \in 0 .. hi - 1 : cont2[v] = cont[v]
    BY <1>9
  <2>4. Channel(Append(data, [pdu |-> pdu, overtaken |-> 0]), Append(vd, [v |-> hi, k |-> hi + 1]),
                hi + 1, got, cont2)
    BY <1>1, <1>10, <2>1, <2>2, <2>3, ChannelSend
  <2> QED
    BY <2>4 DEF pdu
<1>12. Held(rx_window', rx_segments', mid, hi + 1, got, cont2)
  <2>1. hi + 1 \in Nat /\ hi <= hi + 1 /\ \A v \in 0 .. hi - 1 : cont2[v] = cont[v]
    BY <1>1, <1>9
  <2>2. Held(rx_window, rx_segments, mid, hi + 1, got, cont2)
    BY <1>1, <2>1, HeldMore
  <2> QED
    BY <2>2 DEF rxVars
<1>25. Kept(rx_sdu', pdcp_rx', rx_window', got, cont2)
  <2>1. Kept(rx_sdu, pdcp_rx, rx_window, got, cont)
    BY <1>1
  <2>2. \A v \in got : v \in Nat /\ v # hi
    <3>1. got \subseteq 0 .. hi - 1
      BY <1>1 DEF Held
    <3> QED
      BY <1>0, <3>1
  <2>3. UNCHANGED <<rx_sdu, pdcp_rx, rx_window>>
    BY DEF rxVars
  <2> QED
    BY <1>9, <2>1, <2>2, <2>3 DEF Kept
<1>13. Sent(tx_window', lo, hi + 1, got, cont2)
  <2>1. ASSUME NEW v \in lo .. hi
        PROVE  IF v % MOD \in DOMAIN tx_window' THEN tx_window'[v % MOD].cells = cont2[v]
                                                ELSE v \in got
    <3>1. CASE v = hi
      BY <1>1, <1>8, <1>9, <3>1
    <3>2. CASE v # hi
      <4>1. v \in Nat /\ v \in lo .. hi - 1 /\ v < hi + MOD /\ hi < v + MOD
        BY <1>0, <1>00, <3>2
      <4>2. v % MOD # vt_s
        BY <1>1, <3>2, <4>1, UnwrappedOnce
      <4>3. IF v % MOD \in DOMAIN tx_window THEN tx_window[v % MOD].cells = cont[v]
                                            ELSE v \in got
        BY <1>1, <4>1 DEF Sent
      <4> QED
        BY <1>8, <1>9, <3>2, <4>1, <4>2, <4>3
    <3> QED
      BY <3>1, <3>2
  <2>2. lo .. (hi + 1) - 1 = lo .. hi
    BY <1>1
  <2> QED
    BY <2>1, <2>2 DEF Sent
<1>14. \A r \in Nat : (r < hi => r % MOD \in DOMAIN tx_window) /\ r <= hi
                        => (r < hi + 1 => r % MOD \in DOMAIN tx_window')
  BY <1>1, <1>8
<1>15. vc \in Seq([r : Nat, a : Nat]) /\ \A i \in 1 .. Len(vc) : vc[i].r \in Nat /\ vc[i].a \in Nat
  <2>1. vc \in Seq([r : Nat, a : Nat])
    BY <1>1 DEF Reports
  <2>2. \A i \in 1 .. Len(vc) : vc[i] \in [r : Nat, a : Nat]
    BY <2>1, Elements
  <2> QED
    BY <2>1, <2>2
<1>16. Reports(control', vc, lo, mid, hi + 1, got, tx_window')
  <2>1. ASSUME NEW i \in 1 .. Len(vc)
        PROVE  lo <= vc[i].r /\ (vc[i].r < hi + 1 => vc[i].r % MOD \in DOMAIN tx_window')
    <3>1. Report(control[i], vc[i], lo, mid, hi, got, tx_window)
      BY <1>1 DEF Reports
    <3>2. /\ lo <= vc[i].r /\ vc[i].r <= hi
          /\ vc[i].r < hi => vc[i].r % MOD \in DOMAIN tx_window
      BY <1>0, <1>15, <3>1 DEF Report
    <3> QED
      BY <1>14, <1>15, <3>2
  <2>2. hi + 1 \in Nat /\ hi <= hi + 1 /\ mid <= mid /\ got \subseteq got
    BY <1>1
  <2>3. Reports(control, vc, lo, mid, hi + 1, got, tx_window')
    BY <1>1, <2>1, <2>2, ReportsStay
  <2> QED
    BY <2>3
<1>17. Applying(stack', p, vc, lo, mid, hi + 1, got, tx_window')
  <2>1. CASE stack.pc = "control"
    <3>1. Report(stack.status, p, lo, mid, hi, got, tx_window) /\ p.r \in Nat
      BY <1>1, <2>1 DEF Applying, PType
    <3>2. p.r <= hi /\ (p.r < hi => p.r % MOD \in DOMAIN tx_window)
      BY <1>0, <3>1 DEF Report
    <3>3. p.r < hi + 1 => p.r % MOD \in DOMAIN tx_window'
      BY <1>14, <3>1, <3>2
    <3>4. hi + 1 \in Nat /\ hi <= hi + 1 /\ mid <= mid /\ got \subseteq got
      BY <1>1
    <3>5. \A j \in 1 .. Len(vc) : \E m \in 1 .. Len(vc) : vc[j] = vc[m]
      OBVIOUS
    <3>6. Applying(stack, p, vc, lo, mid, hi + 1, got, tx_window')
      BY <1>1, <3>3, <3>4, <3>5, ApplyingStays
    <3> QED
      BY <1>3, <3>6
  <2>2. CASE stack.pc # "control"
    BY <1>3, <2>2 DEF Applying
  <2> QED
    BY <2>1, <2>2
<1>18. NoProtocolFailure'
  BY DEF Link, NoProtocolFailure, ReadData, Rescheduled, MaxRetxEvent
<1>19. vr_r' = vr_r /\ vr_h' = vr_h /\ mid + RxOff(vr_h)' <= hi + 1
  <2>1. vr_r' = vr_r /\ vr_h' = vr_h
    BY DEF rxVars
  <2>2. RxOff(vr_h) \in Int
    <3>1. RxOff(vr_h) \in SN
      BY ModBaseValue DEF RxInv, RxTypeOK, RxOff
    <3> QED
      BY <1>00, <3>1 DEF SN
  <2>3. mid + RxOff(vr_h) <= hi + 1
    BY <1>0, <2>2
  <2> QED
    BY <2>1, <2>3 DEF RxOff
<1> DEFINE hi2 == hi + 1
<1>20. hi2 \in Nat /\ mid <= hi2 /\ hi2 + MaxOvertaken <= lo + W
  BY <1>1, <1>5
<1> HIDE DEF x
<1> DEFINE vd2 == Append(vd, x)
<1> HIDE DEF vd2
<1>21. Channel(data', vd2, hi2, got, cont2)
  BY <1>11 DEF vd2
<1> HIDE DEF hi2
<1>22. lo <= mid /\ vt_a' = lo % MOD /\ vr_r' = mid % MOD /\ vt_s' = hi2 % MOD
  BY <1>1, <1>3, <1>4, <1>19 DEF hi2
<1>23. /\ mid + ModBase(vr_h', vr_r') <= hi2
       /\ Held(rx_window', rx_segments', mid, hi2, got, cont2)
       /\ Kept(rx_sdu', pdcp_rx', rx_window', got, cont2)
       /\ Sent(tx_window', lo, hi2, got, cont2)
       /\ Reports(control', vc, lo, mid, hi2, got, tx_window')
       /\ Applying(stack', p, vc, lo, mid, hi2, got, tx_window')
  BY <1>12, <1>13, <1>16, <1>17, <1>19, <1>25 DEF hi2, RxOff
<1>24. cont2 \in [Nat -> Seq(Cell)] /\ p \in PType
  BY <1>1, <1>9
<1> QED
  BY <1>0, <1>18, <1>20, <1>21, <1>22, <1>23, <1>24, LinkBuilt

-----------------------------------------------------------------------------
(* The peer's MAC reads a status PDU.                                          *)

\* get_status_pdu: ACK_SN does not exceed VR(MS), and only what is missing below it is
\* reported as missing.
LEMMA StatusBounds ==
  ASSUME RxInv, NEW k, NEW st \in StatusPdus(k)
  PROVE  /\ st \in Status
         /\ 0 <= RxOff(st.ack_sn) /\ RxOff(st.ack_sn) <= RxOff(vr_ms)
         /\ \A sn \in st.nacks : \E j \in 0 .. RxOff(vr_ms) - 1 : sn = (vr_r + j) % MOD
<1>1. /\ MOD \in Nat \ {0} /\ SN = 0 .. MOD - 1
      /\ vr_r \in SN /\ vr_ms \in SN
  BY WindowAssumption DEF MOD, SN, RxInv, RxTypeOK
<1>2. RxOff(vr_ms) \in SN /\ RxOff(vr_ms) \in Nat /\ RxOff(vr_r) = 0
  <2> HIDE DEF MOD
  <2>1. RxOff(vr_ms) \in SN /\ RxOff(vr_r) = 0
    BY <1>1, ModBaseValue, ZeroOffset DEF RxOff
  <2> QED
    BY <1>1, <2>1
<1>3. \A j \in Missing : j \in 0 .. RxOff(vr_ms) - 1
  BY DEF Missing
<1> HIDE DEF MOD
<1>4. \A j \in SN : (vr_r + j) % MOD \in SN /\ RxOff((vr_r + j) % MOD) = j
  BY <1>1, SnAt DEF RxOff
<1>5. \A j \in Missing : j \in SN /\ (vr_r + j) % MOD \in SN
  <2> TAKE j \in Missing
  <2>1. j \in SN
    BY <1>1, <1>2, <1>3
  <2> QED
    BY <1>4, <2>1
<1>6. ASSUME NEW M \in SUBSET Missing, st.nacks = {(vr_r + j) % MOD : j \in M}
      PROVE  /\ st.nacks \subseteq SN
             /\ \A sn \in st.nacks : \E j \in 0 .. RxOff(vr_ms) - 1 : sn = (vr_r + j) % MOD
  BY <1>3, <1>5, <1>6
<1>7. ASSUME NEW a, NEW N, st = [ack_sn |-> a, nacks |-> N], a \in SN, N \subseteq SN
      PROVE  st \in Status /\ st.ack_sn = a /\ st.nacks = N
  BY <1>7 DEF Status
<1>8. CASE st = [ack_sn |-> IF Cardinality(Missing) < W THEN vr_ms ELSE vr_r,
                 nacks  |-> {(vr_r + j) % MOD : j \in Missing}]
  <2> DEFINE a == IF Cardinality(Missing) < W THEN vr_ms ELSE vr_r
             N == {(vr_r + j) % MOD : j \in Missing}
  <2>1. a \in SN /\ 0 <= RxOff(a) /\ RxOff(a) <= RxOff(vr_ms)
    BY <1>1, <1>2
  <2>2. N \subseteq SN
    BY <1>5
  <2>3. st = [ack_sn |-> a, nacks |-> N]
    BY <1>8
  <2> HIDE DEF a, N
  <2>4. st \in Status /\ st.ack_sn = a /\ st.nacks = N
    BY <1>7, <2>1, <2>2, <2>3
  <2>5. st.nacks = {(vr_r + j) % MOD : j \in Missing}
    BY <2>4 DEF N
  <2>6. Missing \in SUBSET Missing
    OBVIOUS
  <2> QED
    BY <1>6, <2>1, <2>4, <2>5, <2>6
<1>9. CASE st = [ack_sn |-> vr_r, nacks |-> {}]
  <2>1. st \in Status /\ st.ack_sn = vr_r /\ st.nacks = {}
    <3>1. {} \subseteq SN
      OBVIOUS
    <3> QED
      BY <1>1, <1>7, <1>9, <3>1
  <2> QED
    BY <1>2, <2>1
<1>10. ASSUME NEW m \in Missing, NEW a \in 0 .. W, a < m \/ a = 0,
              st = [ack_sn |-> (vr_r + a) % MOD,
                    nacks  |-> {(vr_r + j) % MOD : j \in {i \in Missing : i < m}}]
       PROVE  /\ st \in Status
              /\ 0 <= RxOff(st.ack_sn) /\ RxOff(st.ack_sn) <= RxOff(vr_ms)
              /\ \A sn \in st.nacks : \E j \in 0 .. RxOff(vr_ms) - 1 : sn = (vr_r + j) % MOD
  <2> DEFINE M == {i \in Missing : i < m}
             N == {(vr_r + j) % MOD : j \in M}
             ack == (vr_r + a) % MOD
  <2>1. a \in SN /\ 0 <= a /\ a <= RxOff(vr_ms)
    <3>1. m \in 0 .. RxOff(vr_ms) - 1 /\ m \in SN
      BY <1>3, <1>5
    <3> QED
      BY <1>1, <1>2, <1>10, <3>1, WindowAssumption
  <2>2. ack \in SN /\ RxOff(ack) = a
    BY <1>4, <2>1
  <2>3. N \subseteq SN
    BY <1>5
  <2>4. st = [ack_sn |-> ack, nacks |-> N] /\ M \in SUBSET Missing
    BY <1>10
  <2> HIDE DEF ack, N, M
  <2>5. st \in Status /\ st.ack_sn = ack /\ st.nacks = N
    BY <1>7, <2>2, <2>3, <2>4
  <2>6. st.nacks = {(vr_r + j) % MOD : j \in M}
    BY <2>5 DEF N
  <2> QED
    BY <1>6, <2>1, <2>2, <2>4, <2>5, <2>6
<1>11. CASE Cardinality(Missing) <= k
  BY <1>8, <1>11 DEF StatusPdus
<1>12. CASE ~(Cardinality(Missing) <= k)
  <2>1. \E ca \in Missing \X (0 .. W) :
           /\ ca[2] < ca[1] \/ ca[2] = 0
           /\ \/ st = [ack_sn |-> (vr_r + ca[2]) % MOD,
                       nacks  |-> {(vr_r + j) % MOD : j \in {i \in Missing : i < ca[1]}}]
              \/ st = [ack_sn |-> vr_r, nacks |-> {}]
    BY <1>12 DEF StatusPdus
  <2> QED
    BY <1>9, <1>10, <2>1
<1> QED
  BY <1>11, <1>12

\* build_status_pdu: the report is about the window of the receiver as it is now.
LEMMA LinkSendStatus ==
  ASSUME NEW lo, NEW mid, NEW hi, NEW got, NEW cont, NEW vd, NEW vc, NEW p,
         Link(lo, mid, hi, got, cont, vd, vc, p), RxInv,
         NEW k \in 0 .. W, NEW st \in StatusPdus(k), BuildStatusPdu(k, st),
         control' = Append(control, st), UNCHANGED <<txVars, data>>
  PROVE  BothEnds'
<1> DEFINE off == RxOff(st.ack_sn)
           x == [r |-> mid, a |-> mid + off]
<1>1. /\ lo \in Nat /\ mid \in Nat /\ hi \in Nat /\ lo <= mid /\ mid <= hi
      /\ hi + MaxOvertaken <= lo + W /\ cont \in [Nat -> Seq(Cell)] /\ p \in PType
      /\ vt_a = lo % MOD /\ vr_r = mid % MOD /\ vt_s = hi % MOD
      /\ mid + RxOff(vr_h) <= hi
      /\ Held(rx_window, rx_segments, mid, hi, got, cont)
      /\ Kept(rx_sdu, pdcp_rx, rx_window, got, cont)
      /\ Sent(tx_window, lo, hi, got, cont)
      /\ Channel(data, vd, hi, got, cont)
      /\ Reports(control, vc, lo, mid, hi, got, tx_window)
      /\ Applying(stack, p, vc, lo, mid, hi, got, tx_window)
      /\ NoProtocolFailure
  BY DEF Link
<1>2. /\ lo \in Nat /\ mid \in Nat /\ hi \in Nat /\ lo <= mid /\ mid <= hi
      /\ mid + RxOff(vr_h) <= hi
  BY <1>1
<1>3. /\ MOD \in Nat /\ W \in Nat /\ MOD = W + W /\ W >= 2 /\ SN = 0 .. MOD - 1
      /\ hi <= lo + W /\ hi <= mid + W
  BY <1>1, Offsets
<1>4. \A v \in Nat : mid <= v /\ v < mid + MOD => v % MOD \in SN /\ RxOff(v % MOD) = v - mid
  BY <1>1, Offsets
<1> HIDE DEF MOD
<1>5. /\ st \in Status /\ 0 <= off /\ off <= RxOff(vr_ms)
      /\ \A sn \in st.nacks : \E j \in 0 .. RxOff(vr_ms) - 1 : sn = (vr_r + j) % MOD
  BY StatusBounds
<1>6. \A sn \in SN : RxOff(sn) < off => (sn \in DOMAIN rx_window <=> sn \notin st.nacks)
  BY StatusOfInv DEF StatusSound
<1>7. /\ off \in SN /\ RxOff(vr_ms) \in SN /\ RxOff(vr_h) \in SN
      /\ RxOff(vr_ms) <= RxOff(vr_h) /\ st.ack_sn \in SN
  BY <1>5, ModBaseValue DEF RxInv, RxTypeOK, VrOrder, RxOff, Status
<1> HIDE DEF off
<1>8. off \in Nat /\ RxOff(vr_ms) \in Nat /\ mid + off <= hi /\ mid + RxOff(vr_ms) <= hi
  BY <1>2, <1>3, <1>5, <1>7
<1>9. x \in [r : Nat, a : Nat] /\ x.r = mid /\ x.a = mid + off /\ x.a \in Nat
  BY <1>2, <1>8
<1> HIDE DEF x
<1>10. st.ack_sn = x.a % MOD
  <2>1. (mid + ModBase(st.ack_sn, mid % MOD)) % MOD = st.ack_sn
    BY <1>2, <1>7, UnwrappedAt
  <2>2. off = ModBase(st.ack_sn, mid % MOD)
    BY <1>1 DEF off, RxOff
  <2> QED
    BY <1>9, <2>1, <2>2
<1>11. ASSUME NEW u \in Nat, u < mid, mid <= u + W PROVE u % MOD \notin st.nacks
  <2> SUFFICES ASSUME u % MOD \in st.nacks PROVE FALSE
    OBVIOUS
  <2>1. PICK j \in 0 .. RxOff(vr_ms) - 1 : u % MOD = (vr_r + j) % MOD
    BY <1>5
  <2> DEFINE w == mid + j
  <2>2. w \in Nat /\ u < w /\ w < u + MOD /\ u < w + MOD /\ j \in SN /\ w - mid = j
        /\ mid <= w /\ w < mid + MOD
    <3>1. j \in Nat /\ mid + j < hi
      BY <1>2, <1>8
    <3>2. j < W /\ w \in Nat /\ u < w /\ w < mid + W /\ w - mid = j /\ mid <= w
      <4>1. /\ mid \in Nat /\ hi \in Nat /\ W \in Nat /\ hi <= mid + W
            /\ u \in Nat /\ u < mid
        BY <1>2, <1>3, <1>11
      <4>2. w = mid + j
        OBVIOUS
      <4> HIDE DEF w
      <4> QED
        BY <3>1, <4>1, <4>2
    <3> HIDE DEF w
    <3>3. w < u + MOD /\ u < w + MOD /\ w < mid + MOD
      BY <1>2, <1>3, <1>11, <3>2
    <3>4. j \in SN
      BY <1>3, <3>1, <3>2
    <3> QED
      BY <3>2, <3>3, <3>4
  <2> HIDE DEF w
  <2>3. w % MOD = (vr_r + j) % MOD
    <3>1. RxOff(w % MOD) = j /\ w % MOD \in SN
      BY <1>4, <2>2
    <3>2. vr_r \in SN
      BY DEF RxInv, RxTypeOK
    <3> QED
      BY <2>2, <3>1, <3>2, SnOf DEF RxOff
  <2>4. u = w
    BY <2>1, <2>2, <2>3, UnwrappedOnce
  <2> QED
    BY <2>2, <2>4
<1>12. ASSUME NEW u \in mid .. (mid + off) - 1 PROVE u % MOD \in st.nacks \/ u \in got
  <2>1. u \in Nat /\ mid <= u /\ u < mid + MOD /\ u - mid < off /\ u \in mid .. mid + MOD - 1
    BY <1>2, <1>3, <1>7, <1>8
  <2>2. u % MOD \in SN /\ RxOff(u % MOD) < off
    BY <1>4, <2>1
  <2>3. u \in got <=> u % MOD \in DOMAIN rx_window
    BY <1>1, <2>1 DEF Held
  <2> QED
    BY <1>6, <2>2, <2>3
<1>13. mid \notin got /\ (mid < hi => mid % MOD \in DOMAIN tx_window)
  <2>1. mid \notin got
    BY <1>1 DEF Held
  <2>2. mid < hi => mid \in lo .. hi - 1
    BY <1>2
  <2> QED
    BY <1>1, <2>1, <2>2 DEF Sent
<1>14. Report(st, x, lo, mid, hi, got, tx_window)
  <2>1. lo <= x.r /\ x.r <= mid /\ x.r <= x.a /\ x.a <= hi
    BY <1>2, <1>8, <1>9
  <2>2. \A u \in x.r .. x.a - 1 : u % MOD \in st.nacks \/ u \in got
    BY <1>9, <1>12
  <2> QED
    BY <1>9, <1>10, <1>11, <1>13, <2>1, <2>2 DEF Report
<1> DEFINE vc2 == Append(vc, x)
<1>15. Reports(Append(control, st), vc2, lo, mid, hi, got, tx_window)
  BY <1>1, <1>5, <1>9, <1>13, <1>14, ReportsSend
<1>16. vc \in Seq([r : Nat, a : Nat])
  BY <1>1 DEF Reports
<1>17. \A j \in 1 .. Len(vc2) : \/ \E m \in 1 .. Len(vc) : vc2[j] = vc[m]
                                \/ vc2[j].r = mid /\ mid \notin got
  <2>1. Len(vc2) = Len(vc) + 1 /\ vc2[Len(vc) + 1] = x /\ Len(vc) \in Nat
        /\ \A j \in 1 .. Len(vc) : vc2[j] = vc[j]
    BY <1>9, <1>16, AppendProperties
  <2>2. \A j \in 1 .. Len(vc) + 1 : j \in 1 .. Len(vc) \/ j = Len(vc) + 1
    BY <2>1
  <2> HIDE DEF vc2
  <2> QED
    BY <1>9, <1>13, <2>1, <2>2
<1> HIDE DEF vc2
<1>18. Applying(stack, p, vc2, lo, mid, hi, got, tx_window)
  <2>1. CASE stack.pc = "control"
    <3>1. p.r < hi => p.r % MOD \in DOMAIN tx_window
      BY <1>1, <2>1 DEF Applying, Report
    <3>2. mid <= mid /\ hi <= hi /\ got \subseteq got
      BY <1>2
    <3> QED
      BY <1>1, <1>17, <3>1, <3>2, ApplyingStays
  <2>2. CASE stack.pc # "control"
    BY <2>2 DEF Applying
  <2> QED
    BY <2>1, <2>2
<1>19. /\ UNCHANGED <<vt_a, vt_s, tx_window, stack, rrc_events, data>>
       /\ UNCHANGED <<vr_r, vr_h, rx_sdu, pdcp_rx, rx_window, rx_segments>>
  BY DEF BuildStatusPdu, txVars
<1>20. /\ vt_a' = lo % MOD /\ vr_r' = mid % MOD /\ vt_s' = hi % MOD
       /\ mid + ModBase(vr_h', vr_r') <= hi
       /\ Held(rx_window', rx_segments', mid, hi, got, cont)
       /\ Kept(rx_sdu', pdcp_rx', rx_window', got, cont)
       /\ Sent(tx_window', lo, hi, got, cont)
       /\ Channel(data', vd, hi, got, cont)
       /\ Reports(control', vc2, lo, mid, hi, got, tx_window')
       /\ Applying(stack', p, vc2, lo, mid, hi, got, tx_window')
       /\ NoProtocolFailure'
  BY <1>1, <1>15, <1>18, <1>19 DEF RxOff, NoProtocolFailure
<1> QED
  BY <1>1, <1>20, LinkBuilt

-----------------------------------------------------------------------------
(* handle_control_pdu.                                                         *)

\* A status PDU is handed over: the loop begins at VT(A).
LEMMA LinkControlStart ==
  ASSUME NEW lo, NEW mid, NEW hi, NEW got, NEW cont, NEW vd, NEW vc, NEW p,
         Link(lo, mid, hi, got, cont, vd, vc, p),
         control # << >>, ControlStart(Head(control)), control' = Tail(control),
         UNCHANGED <<rxVars, data>>
  PROVE  BothEnds'
<1> DEFINE p2 == [r |-> vc[1].r, a |-> vc[1].a, i |-> lo, s |-> hi]
           vc2 == Tail(vc)
           st == Head(control)
<1>1. /\ lo \in Nat /\ mid \in Nat /\ hi \in Nat /\ lo <= mid /\ mid <= hi
      /\ hi + MaxOvertaken <= lo + W /\ cont \in [Nat -> Seq(Cell)]
      /\ vt_a = lo % MOD /\ vr_r = mid % MOD /\ vt_s = hi % MOD
      /\ mid + RxOff(vr_h) <= hi
      /\ Held(rx_window, rx_segments, mid, hi, got, cont)
      /\ Kept(rx_sdu, pdcp_rx, rx_window, got, cont)
      /\ Sent(tx_window, lo, hi, got, cont)
      /\ Channel(data, vd, hi, got, cont)
      /\ Reports(control, vc, lo, mid, hi, got, tx_window)
      /\ NoProtocolFailure
  BY DEF Link
<1>2. /\ st \in Status /\ vc[1] \in [r : Nat, a : Nat]
      /\ Report(st, vc[1], lo, mid, hi, got, tx_window)
      /\ Missed(st, vc[1].a, vc[1].r)
      /\ Reports(Tail(control), vc2, lo, mid, hi, got, tx_window)
      /\ \A j \in 1 .. Len(vc2) : vc[1].r <= vc2[j].r /\ Missed(st, vc[1].a, vc2[j].r)
  BY <1>1, ReportsTail
<1>3. p2 \in PType /\ p2.r = vc[1].r /\ p2.a = vc[1].a /\ p2.i = lo /\ p2.s = hi
  BY <1>1, <1>2 DEF PType
<1>4. /\ stack' = [pc |-> "control", status |-> st, i |-> vt_a, vt_s_local |-> vt_s,
                   update_vt_a |-> TRUE]
      /\ UNCHANGED <<vt_a, vt_s, tx_window, rrc_events, data>>
      /\ UNCHANGED <<vr_r, vr_h, rx_sdu, pdcp_rx, rx_window, rx_segments>>
  BY DEF ControlStart, rxVars
<1> HIDE DEF st, vc2, p2, MOD
<1>5. /\ stack'.status = st /\ stack'.i = vt_a /\ stack'.vt_s_local = vt_s /\ stack'.update_vt_a
  BY <1>4
<1>6. Report(st, p2, lo, mid, hi, got, tx_window)
  BY <1>2, <1>3 DEF Report
<1>7. /\ lo <= p2.i /\ p2.i <= p2.a /\ p2.a <= p2.s /\ p2.s <= hi
  <2>1. lo <= vc[1].r /\ vc[1].r <= vc[1].a /\ vc[1].a <= hi
        /\ vc[1].r \in Nat /\ vc[1].a \in Nat
    <3>1. vc[1].r \in Nat /\ vc[1].a \in Nat
      <4>1. \A x \in [r : Nat, a : Nat] : x.r \in Nat /\ x.a \in Nat
        OBVIOUS
      <4> QED
        BY <1>2, <4>1
    <3> QED
      BY <1>2, <3>1 DEF Report
  <2>2. lo \in Nat /\ hi \in Nat
    BY <1>1
  <2> QED
    BY <1>3, <2>1, <2>2
<1>8. Applying(stack', p2, vc2, lo, mid, hi, got, tx_window)
  BY <1>1, <1>2, <1>3, <1>5, <1>6, <1>7 DEF Applying
<1>9. /\ vt_a' = lo % MOD /\ vr_r' = mid % MOD /\ vt_s' = hi % MOD
      /\ mid + ModBase(vr_h', vr_r') <= hi
      /\ Held(rx_window', rx_segments', mid, hi, got, cont)
      /\ Kept(rx_sdu', pdcp_rx', rx_window', got, cont)
      /\ Sent(tx_window', lo, hi, got, cont)
      /\ Channel(data', vd, hi, got, cont)
      /\ Reports(control', vc2, lo, mid, hi, got, tx_window')
      /\ Applying(stack', p2, vc2, lo, mid, hi, got, tx_window')
      /\ NoProtocolFailure'
  BY <1>1, <1>2, <1>4, <1>8 DEF RxOff, NoProtocolFailure
<1> QED
  BY <1>1, <1>3, <1>9, LinkBuilt

\* Reports under way are lost, or dropped by handle_control_pdu.
LEMMA LinkFewerReports ==
  ASSUME NEW lo, NEW mid, NEW hi, NEW got, NEW cont, NEW vd, NEW vc, NEW p,
         Link(lo, mid, hi, got, cont, vd, vc, p),
         NEW vc2, Reports(control', vc2, lo, mid, hi, got, tx_window),
         \A j \in 1 .. Len(vc2) : \E m \in 1 .. Len(vc) : vc2[j] = vc[m],
         UNCHANGED <<txVars, rxVars, data>>
  PROVE  BothEnds'
<1>1. /\ lo \in Nat /\ mid \in Nat /\ hi \in Nat /\ lo <= mid /\ mid <= hi
      /\ hi + MaxOvertaken <= lo + W /\ cont \in [Nat -> Seq(Cell)] /\ p \in PType
      /\ vt_a = lo % MOD /\ vr_r = mid % MOD /\ vt_s = hi % MOD
      /\ mid + RxOff(vr_h) <= hi
      /\ Held(rx_window, rx_segments, mid, hi, got, cont)
      /\ Kept(rx_sdu, pdcp_rx, rx_window, got, cont)
      /\ Sent(tx_window, lo, hi, got, cont)
      /\ Channel(data, vd, hi, got, cont)
      /\ Applying(stack, p, vc, lo, mid, hi, got, tx_window)
      /\ NoProtocolFailure
  BY DEF Link
<1>2. Applying(stack, p, vc2, lo, mid, hi, got, tx_window)
  BY <1>1 DEF Applying
<1>3. /\ UNCHANGED <<vt_a, vt_s, tx_window, stack, rrc_events>>
      /\ UNCHANGED <<vr_r, vr_h, rx_sdu, pdcp_rx, rx_window, rx_segments>>
  BY DEF txVars, rxVars
<1>4. /\ vt_a' = lo % MOD /\ vr_r' = mid % MOD /\ vt_s' = hi % MOD
      /\ mid + ModBase(vr_h', vr_r') <= hi
      /\ Held(rx_window', rx_segments', mid, hi, got, cont)
      /\ Kept(rx_sdu', pdcp_rx', rx_window', got, cont)
      /\ Sent(tx_window', lo, hi, got, cont)
      /\ Channel(data', vd, hi, got, cont)
      /\ Reports(control', vc2, lo, mid, hi, got, tx_window')
      /\ Applying(stack', p, vc2, lo, mid, hi, got, tx_window')
      /\ NoProtocolFailure'
  BY <1>1, <1>2, <1>3 DEF RxOff, NoProtocolFailure
<1> QED
  BY <1>1, <1>4, LinkBuilt

\* handle_control_pdu returns before its loop: the report is gone, nothing else changes.
LEMMA LinkControlDropped ==
  ASSUME NEW lo, NEW mid, NEW hi, NEW got, NEW cont, NEW vd, NEW vc, NEW p,
         Link(lo, mid, hi, got, cont, vd, vc, p),
         control # << >>, ControlDropped(Head(control)), control' = Tail(control),
         UNCHANGED <<rxVars, data>>
  PROVE  BothEnds'
<1> DEFINE vc2 == Tail(vc)
<1>1. Reports(control, vc, lo, mid, hi, got, tx_window)
  BY DEF Link
<1>2. Reports(Tail(control), vc2, lo, mid, hi, got, tx_window)
  BY <1>1, ReportsTail
<1>3. \A j \in 1 .. Len(vc2) : \E m \in 1 .. Len(vc) : vc2[j] = vc[m]
  <2>1. vc \in Seq([r : Nat, a : Nat]) /\ vc # << >>
    <3>1. /\ control \in Seq(Status) /\ vc \in Seq([r : Nat, a : Nat])
          /\ Len(control) = Len(vc)
      BY <1>1 DEF Reports
    <3>2. Len(control) # 0
      BY <3>1
    <3> QED
      BY <3>1, <3>2
  <2>2. Len(vc2) = Len(vc) - 1 /\ \A j \in 1 .. Len(vc2) : vc2[j] = vc[j + 1]
    BY <2>1, HeadTailProperties
  <2>3. Len(vc) \in Nat
    BY <2>1
  <2> HIDE DEF vc2
  <2>4. \A j \in 1 .. Len(vc2) : j + 1 \in 1 .. Len(vc)
    BY <2>2, <2>3
  <2> QED
    BY <2>2, <2>4
<1>4. UNCHANGED txVars
  BY DEF ControlDropped
<1> HIDE DEF vc2
<1> QED
  BY <1>2, <1>3, <1>4, LinkFewerReports

\* The SNs that the loop compares, as offsets from VT(A).
LEMMA LoopOffsets ==
  ASSUME NEW lo, NEW mid, NEW hi, NEW got, NEW cont, NEW vd, NEW vc, NEW p,
         Link(lo, mid, hi, got, cont, vd, vc, p), TxInv, stack.pc = "control"
  PROVE  /\ TxOff(stack.i) = p.i - lo /\ TxOff(stack.status.ack_sn) = p.a - lo
         /\ TxOff(stack.vt_s_local) = p.s - lo
         /\ p.r \in Nat /\ p.a \in Nat /\ p.i \in Nat /\ p.s \in Nat
         /\ lo <= p.r /\ lo <= p.i /\ p.r <= p.a /\ p.i <= p.a /\ p.a <= p.s /\ p.s <= hi
         /\ p.r <= mid
         /\ stack.i = p.i % MOD /\ stack.status.ack_sn = p.a % MOD
         /\ stack \in ControlState
<1>1. /\ lo \in Nat /\ mid \in Nat /\ hi \in Nat /\ lo <= mid /\ mid <= hi
      /\ hi + MaxOvertaken <= lo + W /\ p \in PType
      /\ vt_a = lo % MOD /\ vr_r = mid % MOD /\ vt_s = hi % MOD
      /\ Applying(stack, p, vc, lo, mid, hi, got, tx_window)
  BY DEF Link
<1>2. /\ MOD \in Nat /\ W \in Nat /\ MOD = W + W /\ W >= 2 /\ hi <= lo + W
      /\ \A v \in Nat : lo <= v /\ v < lo + MOD => v % MOD \in SN /\ TxOff(v % MOD) = v - lo
  BY <1>1, Offsets
<1> HIDE DEF MOD
<1>3. p.r \in Nat /\ p.a \in Nat /\ p.i \in Nat /\ p.s \in Nat
  BY <1>1 DEF PType
<1>4. /\ stack.i = p.i % MOD /\ stack.vt_s_local = p.s % MOD
      /\ stack.status.ack_sn = p.a % MOD
  BY <1>1 DEF Applying, Report
<1>5. /\ lo <= p.r /\ p.r <= mid /\ p.r <= p.a
      /\ p.a <= p.s /\ p.s <= hi /\ lo <= p.i /\ p.i <= p.a
  BY <1>1 DEF Applying, Report
<1>6. \A v \in Nat : lo <= v /\ v <= hi => TxOff(v % MOD) = v - lo
  <2> TAKE v \in Nat
  <2>1. lo <= v /\ v <= hi => v < lo + MOD
    BY <1>1, <1>2
  <2> QED
    BY <1>2, <2>1
<1>7. lo <= p.s /\ p.i <= hi /\ p.a <= hi /\ lo <= p.a
  BY <1>1, <1>3, <1>5
<1>8. stack \in ControlState
  BY DEF TxInv, StackTypes
<1> QED
  BY <1>3, <1>4, <1>5, <1>6, <1>7, <1>8

\* What a round of the loop of handle_control_pdu does to its own variables.
LEMMA NextRoundOf ==
  ASSUME stack \in ControlState, NEW b \in BOOLEAN
  PROVE  /\ NextRound(b).pc = "control" /\ NextRound(b).status = stack.status
         /\ NextRound(b).i = Inc(stack.i) /\ NextRound(b).vt_s_local = stack.vt_s_local
         /\ NextRound(b).update_vt_a <=> stack.update_vt_a /\ ~b
BY DEF NextRound, ControlState

\* One more round, in which VT(A) may move from lo to lo2.
LEMMA LinkRound ==
  ASSUME NEW lo, NEW mid, NEW hi, NEW got, NEW cont, NEW vd, NEW vc, NEW p,
         Link(lo, mid, hi, got, cont, vd, vc, p), TxInv,
         stack.pc = "control", p.i < p.a,
         NEW b \in BOOLEAN, stack' = NextRound(b),
         NEW lo2 \in Nat, lo <= lo2, lo2 <= p.r, vt_a' = lo2 % MOD, vt_s' = vt_s,
         lo2 <= p.i + 1,
         IF stack.update_vt_a /\ ~b THEN lo2 = p.i + 1 ELSE lo2 = p.r,
         Sent(tx_window', lo2, hi, got, cont),
         \A r \in Nat : (p.r <= r /\ r < hi /\ r % MOD \in DOMAIN tx_window
                          /\ Missed(stack.status, p.a, r))
                        => r % MOD \in DOMAIN tx_window',
         NoProtocolFailure', UNCHANGED <<rxVars, data, control>>
  PROVE  BothEnds'
<1> DEFINE p2 == [p EXCEPT !.i = @ + 1]
           st == stack.status
<1>1. /\ lo \in Nat /\ mid \in Nat /\ hi \in Nat /\ lo <= mid /\ mid <= hi
      /\ hi + MaxOvertaken <= lo + W /\ cont \in [Nat -> Seq(Cell)] /\ p \in PType
      /\ vt_a = lo % MOD /\ vr_r = mid % MOD /\ vt_s = hi % MOD
      /\ mid + RxOff(vr_h) <= hi
      /\ Held(rx_window, rx_segments, mid, hi, got, cont)
      /\ Kept(rx_sdu, pdcp_rx, rx_window, got, cont)
      /\ Sent(tx_window, lo, hi, got, cont)
      /\ Channel(data, vd, hi, got, cont)
      /\ Reports(control, vc, lo, mid, hi, got, tx_window)
      /\ Applying(stack, p, vc, lo, mid, hi, got, tx_window)
      /\ NoProtocolFailure
  BY DEF Link
<1>2. /\ p.r \in Nat /\ p.a \in Nat /\ p.i \in Nat /\ p.s \in Nat
      /\ p.r <= p.a /\ p.a <= p.s /\ p.s <= hi /\ p.r <= mid
      /\ stack.i = p.i % MOD /\ stack \in ControlState
  <2> HIDE DEF p2, st
  <2> QED
    BY LoopOffsets, Zenon
<1>3. /\ p2 \in PType /\ p2.r = p.r /\ p2.a = p.a /\ p2.s = p.s /\ p2.i = p.i + 1
  <2>1. \A x \in PType : LET y == [x EXCEPT !.i = @ + 1] IN
           y \in PType /\ y.r = x.r /\ y.a = x.a /\ y.s = x.s /\ y.i = x.i + 1
    BY DEF PType
  <2> QED
    BY <1>1, <2>1
<1> HIDE DEF p2, MOD
<1>4. /\ stack'.pc = "control" /\ stack'.status = st
      /\ stack'.i = Inc(stack.i) /\ stack'.vt_s_local = stack.vt_s_local
      /\ stack'.update_vt_a <=> stack.update_vt_a /\ ~b
  BY <1>2, NextRoundOf
<1>5. stack'.i = p2.i % MOD
  BY <1>2, <1>3, <1>4, UnwrappedNext
<1>6. /\ Report(st, p, lo, mid, hi, got, tx_window)
      /\ Missed(st, p.a, p.r)
      /\ \A i \in 1 .. Len(vc) : p.r <= vc[i].r /\ Missed(st, p.a, vc[i].r)
      /\ stack.vt_s_local = p.s % MOD
  BY <1>1 DEF Applying
<1>7. p.r < hi => p.r % MOD \in DOMAIN tx_window'
  <2>1. p.r < hi => p.r % MOD \in DOMAIN tx_window
    BY <1>6 DEF Report
  <2> QED
    BY <1>2, <1>6, <2>1
<1>8. Report(st, p, lo2, mid, hi, got, tx_window')
  <2>1. mid <= mid /\ hi <= hi /\ got \subseteq got
    BY <1>1
  <2> QED
    BY <1>1, <1>2, <1>6, <1>7, <2>1, ReportStays
<1>9. Report(st, p2, lo2, mid, hi, got, tx_window')
  BY <1>3, <1>8 DEF Report
<1>10. /\ p2.a <= p2.s /\ p2.s <= hi /\ lo2 <= p2.i /\ p2.i <= p2.a /\ lo2 <= mid
       /\ hi + MaxOvertaken <= lo2 + W
  <2>1. lo \in Nat /\ mid \in Nat /\ hi \in Nat /\ hi + MaxOvertaken <= lo + W
    BY <1>1
  <2>2. hi + MaxOvertaken <= lo2 + W
    BY <2>1, LinkAssumption, WindowAssumption
  <2> QED
    BY <1>2, <1>3, <2>1, <2>2
<1>11. Applying(stack', p2, vc, lo2, mid, hi, got, tx_window')
  <2>1. IF stack'.update_vt_a THEN lo2 = p2.i ELSE lo2 = p2.r
    BY <1>3, <1>4
  <2>2. /\ Missed(st, p2.a, p2.r)
        /\ \A i \in 1 .. Len(vc) : p2.r <= vc[i].r /\ Missed(st, p2.a, vc[i].r)
        /\ stack'.vt_s_local = p2.s % MOD
    BY <1>3, <1>4, <1>6
  <2> QED
    BY <1>4, <1>5, <1>9, <1>10, <2>1, <2>2 DEF Applying
<1>12. Reports(control, vc, lo2, mid, hi, got, tx_window')
  <2>1. vc \in Seq([r : Nat, a : Nat]) /\ Len(control) = Len(vc)
    BY <1>1 DEF Reports
  <2>2. ASSUME NEW i \in 1 .. Len(vc)
        PROVE  lo2 <= vc[i].r /\ (vc[i].r < hi => vc[i].r % MOD \in DOMAIN tx_window')
    <3>1. vc[i] \in [r : Nat, a : Nat]
      BY <2>1, Elements
    <3>2. vc[i].r \in Nat /\ p.r <= vc[i].r /\ Missed(st, p.a, vc[i].r)
      BY <1>6, <3>1
    <3>3. Report(control[i], vc[i], lo, mid, hi, got, tx_window)
      BY <1>1, <2>1 DEF Reports
    <3>4. vc[i].r < hi => vc[i].r % MOD \in DOMAIN tx_window
      BY <3>3 DEF Report
    <3>5. vc[i].r < hi => vc[i].r % MOD \in DOMAIN tx_window'
      BY <3>2, <3>4
    <3>6. lo2 <= vc[i].r
      BY <1>2, <3>2
    <3> QED
      BY <3>5, <3>6
  <2>3. mid <= mid /\ hi <= hi /\ got \subseteq got
    BY <1>1
  <2> QED
    BY <1>1, <2>2, <2>3, ReportsStay
<1>13. UNCHANGED <<vr_r, vr_h, rx_sdu, pdcp_rx, rx_window, rx_segments>>
  BY DEF rxVars
<1>14. /\ vr_r' = mid % MOD /\ vt_s' = hi % MOD
       /\ mid + ModBase(vr_h', vr_r') <= hi
       /\ Held(rx_window', rx_segments', mid, hi, got, cont)
       /\ Kept(rx_sdu', pdcp_rx', rx_window', got, cont)
       /\ Channel(data', vd, hi, got, cont)
       /\ Reports(control', vc, lo2, mid, hi, got, tx_window')
  BY <1>1, <1>12, <1>13 DEF RxOff
<1> QED
  BY <1>1, <1>3, <1>10, <1>11, <1>14, LinkBuilt

\* A round on an SN that is negatively acknowledged: the first of them is the first one
\* the receiver missed.
LEMMA LinkNack ==
  ASSUME NEW lo, NEW mid, NEW hi, NEW got, NEW cont, NEW vd, NEW vc, NEW p,
         Link(lo, mid, hi, got, cont, vd, vc, p), TxInv,
         ControlNack, UNCHANGED <<rxVars, channelVars>>
  PROVE  BothEnds'
<1> DEFINE i == stack.i
<1>1. /\ lo \in Nat /\ mid \in Nat /\ hi \in Nat /\ lo <= mid /\ mid <= hi
      /\ hi + MaxOvertaken <= lo + W
      /\ vt_a = lo % MOD /\ vr_r = mid % MOD /\ vt_s = hi % MOD
      /\ Sent(tx_window, lo, hi, got, cont)
      /\ Applying(stack, p, vc, lo, mid, hi, got, tx_window)
      /\ NoProtocolFailure
  BY DEF Link
<1>2. /\ stack.pc = "control" /\ TxOff(i) < TxOff(stack.status.ack_sn)
      /\ i \in stack.status.nacks /\ stack' = NextRound(TRUE)
      /\ UNCHANGED <<vt_a, vt_s>>
  BY DEF ControlNack, ControlMore
<1>3. /\ TxOff(i) = p.i - lo /\ TxOff(stack.status.ack_sn) = p.a - lo
      /\ p.r \in Nat /\ p.a \in Nat /\ p.i \in Nat
      /\ lo <= p.r /\ lo <= p.i /\ p.r <= p.a /\ p.a <= hi /\ i = p.i % MOD
  <2>1. p.s \in Nat /\ p.a <= p.s /\ p.s <= hi
    BY <1>2, LoopOffsets
  <2> QED
    BY <1>1, <1>2, <2>1, LoopOffsets
<1>4. p.i < p.a
  BY <1>1, <1>2, <1>3
<1>5. Report(stack.status, p, lo, mid, hi, got, tx_window)
      /\ IF stack.update_vt_a THEN lo = p.i ELSE lo = p.r
  BY <1>1, <1>2 DEF Applying
<1>6. hi <= lo + W
  BY <1>1, Offsets
<1>7. lo = p.r
  <2>1. CASE stack.update_vt_a
    <3>1. p.i < p.r => p.r <= p.i + W
      BY <1>1, <1>3, <1>5, <1>6, <2>1, WindowAssumption
    <3>2. \A u \in Nat : u < p.r /\ p.r <= u + W => u % MOD \notin stack.status.nacks
      BY <1>5 DEF Report
    <3>3. ~(p.i < p.r)
      BY <1>2, <1>3, <3>1, <3>2
    <3> QED
      BY <1>1, <1>3, <1>5, <2>1, <3>3
  <2>2. CASE ~stack.update_vt_a
    BY <1>5, <2>2
  <2> QED
    BY <2>1, <2>2
<1>8. SameCells(tx_window', tx_window)
  <2>1. CASE tx_window' = tx_window
    BY <2>1 DEF SameCells
  <2>2. CASE i \in DOMAIN tx_window /\ tx_window' = CountRetx(i)
    BY <2>2, CountRetxKeeps DEF TxInv, RetxInv
  <2> QED
    BY <2>1, <2>2 DEF ControlNack
<1>9. DOMAIN tx_window' = DOMAIN tx_window /\ Sent(tx_window', lo, hi, got, cont)
  BY <1>1, <1>8 DEF SameCells, Sent
<1>10. NoProtocolFailure'
  BY <1>1 DEF NoProtocolFailure, ControlNack, MaxRetxEvent
<1>11. UNCHANGED <<rxVars, data, control>>
  BY DEF channelVars
<1> HIDE DEF i
<1>12. /\ lo <= lo /\ lo <= p.r /\ vt_a' = lo % MOD /\ lo <= p.i + 1 /\ TRUE \in BOOLEAN
       /\ IF stack.update_vt_a /\ ~TRUE THEN lo = p.i + 1 ELSE lo = p.r
  BY <1>1, <1>2, <1>3, <1>7
<1>13. \A r \in Nat : (p.r <= r /\ r < hi /\ r % MOD \in DOMAIN tx_window
                        /\ Missed(stack.status, p.a, r))
                      => r % MOD \in DOMAIN tx_window'
  BY <1>9
<1> QED
  BY <1>1, <1>2, <1>4, <1>9, <1>10, <1>11, <1>12, <1>13, LinkRound

\* A round on an SN that is acknowledged: the PDU has been received, and VT(A) does
\* not move past one that is missing.
LEMMA LinkAck ==
  ASSUME NEW lo, NEW mid, NEW hi, NEW got, NEW cont, NEW vd, NEW vc, NEW p,
         Link(lo, mid, hi, got, cont, vd, vc, p), TxInv,
         ControlAck, UNCHANGED <<rxVars, channelVars>>
  PROVE  BothEnds'
<1> DEFINE i == stack.i
           st == stack.status
           lo2 == IF stack.update_vt_a THEN lo + 1 ELSE lo
<1>1. /\ lo \in Nat /\ mid \in Nat /\ hi \in Nat /\ lo <= mid /\ mid <= hi
      /\ hi + MaxOvertaken <= lo + W
      /\ vt_a = lo % MOD /\ vr_r = mid % MOD /\ vt_s = hi % MOD
      /\ Sent(tx_window, lo, hi, got, cont)
      /\ Applying(stack, p, vc, lo, mid, hi, got, tx_window)
      /\ NoProtocolFailure
  BY DEF Link
<1>2. /\ stack.pc = "control" /\ TxOff(i) < TxOff(st.ack_sn)
      /\ i \notin st.nacks /\ stack' = NextRound(FALSE)
      /\ UNCHANGED <<vt_s, rrc_events>>
      /\ vt_a' = IF stack.update_vt_a THEN Inc(vt_a) ELSE vt_a
  BY DEF ControlAck, ControlMore
<1>3. /\ TxOff(i) = p.i - lo /\ TxOff(st.ack_sn) = p.a - lo
      /\ p.r \in Nat /\ p.a \in Nat /\ p.i \in Nat
      /\ lo <= p.r /\ lo <= p.i /\ p.r <= p.a /\ p.a <= hi /\ i = p.i % MOD /\ p.r <= mid
  <2>1. p.s \in Nat /\ p.a <= p.s /\ p.s <= hi
    BY <1>2, LoopOffsets
  <2> QED
    BY <1>1, <1>2, <2>1, LoopOffsets
<1>4. p.i < p.a /\ p.i < hi
  BY <1>1, <1>2, <1>3
<1>5. /\ Report(st, p, lo, mid, hi, got, tx_window) /\ Missed(st, p.a, p.r)
      /\ IF stack.update_vt_a THEN lo = p.i ELSE lo = p.r
  BY <1>1, <1>2 DEF Applying
<1>6. hi <= lo + W /\ MOD \in Nat /\ W \in Nat /\ MOD = W + W /\ W >= 2
  BY <1>1, Offsets
<1> HIDE DEF MOD
<1>7. DOMAIN tx_window' = DOMAIN tx_window \ {i}
      /\ \A sn \in DOMAIN tx_window' : tx_window'[sn] = tx_window[sn]
  BY DEF ControlAck, Without
<1> HIDE DEF i, st, lo2
<1>8. p.i # p.r
  BY <1>2, <1>3, <1>4, <1>5 DEF Missed
<1>9. lo2 \in Nat /\ lo <= lo2 /\ lo2 <= p.r /\ lo2 <= p.i + 1
      /\ vt_a' = lo2 % MOD
      /\ IF stack.update_vt_a /\ ~FALSE THEN lo2 = p.i + 1 ELSE lo2 = p.r
  <2>1. CASE stack.update_vt_a
    <3>1. lo2 = lo + 1 /\ lo = p.i /\ lo2 = p.i + 1
      BY <1>5, <2>1 DEF lo2
    <3>2. vt_a' = lo2 % MOD
      BY <1>1, <1>2, <2>1, <3>1, UnwrappedNext
    <3> QED
      BY <1>1, <1>3, <1>8, <2>1, <3>1, <3>2
  <2>2. CASE ~stack.update_vt_a
    <3>1. lo2 = lo /\ lo = p.r
      BY <1>5, <2>2 DEF lo2
    <3> QED
      BY <1>1, <1>2, <1>3, <2>2, <3>1
  <2> QED
    BY <2>1, <2>2
<1>10. \A v \in Nat : lo <= v /\ v < hi /\ v % MOD = i => v = p.i
  <2> TAKE v \in Nat
  <2> HAVE lo <= v /\ v < hi /\ v % MOD = i
  <2>1. v < p.i + MOD /\ p.i < v + MOD
    BY <1>1, <1>3, <1>4, <1>6
  <2> QED
    BY <1>3, <2>1, UnwrappedOnce
<1>11. Sent(tx_window', lo2, hi, got, cont)
  <2>1. ASSUME NEW v \in lo2 .. hi - 1
        PROVE  IF v % MOD \in DOMAIN tx_window' THEN tx_window'[v % MOD].cells = cont[v]
                                                ELSE v \in got
    <3>1. v \in Nat /\ lo <= v /\ v < hi /\ v \in lo .. hi - 1 /\ lo2 <= v
      BY <1>1, <1>9
    <3>2. IF v % MOD \in DOMAIN tx_window THEN tx_window[v % MOD].cells = cont[v]
                                          ELSE v \in got
      BY <1>1, <3>1 DEF Sent
    <3>3. CASE v % MOD # i
      BY <1>7, <3>2, <3>3
    <3>4. CASE v % MOD = i
      <4>1. v = p.i
        BY <1>10, <3>1, <3>4
      <4>2. ~stack.update_vt_a
        BY <1>3, <1>9, <3>1, <4>1
      <4>3. lo = p.r
        BY <1>5, <4>2
      <4>4. v \in p.r .. p.a - 1
        BY <1>3, <1>4, <3>1, <4>1, <4>3
      <4>5. v \in got
        BY <1>2, <1>5, <3>4, <4>4 DEF Report
      <4> QED
        BY <1>7, <3>4, <4>5
    <3> QED
      BY <3>3, <3>4
  <2> QED
    BY <2>1 DEF Sent
<1>12. \A r \in Nat : (p.r <= r /\ r < hi /\ r % MOD \in DOMAIN tx_window
                        /\ Missed(st, p.a, r))
                      => r % MOD \in DOMAIN tx_window'
  <2> TAKE r \in Nat
  <2> HAVE /\ p.r <= r /\ r < hi /\ r % MOD \in DOMAIN tx_window
           /\ Missed(st, p.a, r)
  <2>1. r % MOD # i
    <3> SUFFICES ASSUME r % MOD = i PROVE FALSE
      OBVIOUS
    <3>1. lo <= r
      BY <1>1, <1>3
    <3>2. r = p.i
      BY <1>10, <3>1
    <3> QED
      BY <1>2, <1>4, <3>2 DEF Missed
  <2> QED
    BY <1>7, <2>1
<1>13. NoProtocolFailure'
  BY <1>1, <1>2 DEF NoProtocolFailure
<1>14. UNCHANGED <<rxVars, data, control>>
  BY DEF channelVars
<1>15. FALSE \in BOOLEAN
  OBVIOUS
<1> QED
  BY <1>2, <1>4, <1>9, <1>11, <1>12, <1>13, <1>14, <1>15, LinkRound DEF st

\* The end of the loop: all PDUs below VT(A) are acknowledged, and that of VT(A) is in
\* the window.
LEMMA LinkDone ==
  ASSUME NEW lo, NEW mid, NEW hi, NEW got, NEW cont, NEW vd, NEW vc, NEW p,
         Link(lo, mid, hi, got, cont, vd, vc, p), TxInv,
         ControlDone, UNCHANGED <<rxVars, channelVars>>
  PROVE  BothEnds'
<1>1. /\ lo \in Nat /\ mid \in Nat /\ hi \in Nat /\ lo <= mid /\ mid <= hi
      /\ hi + MaxOvertaken <= lo + W
      /\ vt_a = lo % MOD /\ vr_r = mid % MOD /\ vt_s = hi % MOD
      /\ Channel(data, vd, hi, got, cont)
      /\ Applying(stack, p, vc, lo, mid, hi, got, tx_window)
      /\ NoProtocolFailure
  BY DEF Link
<1>2. /\ stack.pc = "control"
      /\ \/ ~(TxOff(stack.i) < TxOff(stack.status.ack_sn))
         \/ ~(TxOff(stack.i) < TxOff(stack.vt_s_local))
      /\ stack' = Idle
      /\ rrc_events' = rrc_events \cup
           (IF tx_window # NoEntries /\ vt_a \notin DOMAIN tx_window
            THEN {"protocol_failure"} ELSE {})
      /\ UNCHANGED <<vt_a, vt_s, tx_window>>
  BY DEF ControlDone, ControlMore
<1>3. /\ TxOff(stack.i) = p.i - lo /\ TxOff(stack.status.ack_sn) = p.a - lo
      /\ TxOff(stack.vt_s_local) = p.s - lo
      /\ p.r \in Nat /\ p.a \in Nat /\ p.i \in Nat /\ p.s \in Nat
      /\ lo <= p.r /\ p.r <= p.a /\ p.i <= p.a /\ p.a <= p.s
  BY <1>2, LoopOffsets
<1>4. p.i = p.a
  BY <1>1, <1>2, <1>3
<1>5. Report(stack.status, p, lo, mid, hi, got, tx_window)
      /\ IF stack.update_vt_a THEN lo = p.i ELSE lo = p.r
  BY <1>1, <1>2 DEF Applying
<1>6. lo = p.r
  BY <1>1, <1>3, <1>4, <1>5
<1>7. lo < hi => vt_a \in DOMAIN tx_window
  BY <1>1, <1>5, <1>6 DEF Report
<1>8. lo = hi => tx_window = NoEntries
  <2> SUFFICES ASSUME lo = hi PROVE tx_window = NoEntries
    OBVIOUS
  <2>1. TxOff(vt_s) = 0
    <3>1. TxOff(vt_s) = hi - lo
      BY <1>1, Offsets
    <3> QED
      BY <1>1, <3>1
  <2>2. /\ DOMAIN tx_window \subseteq SN /\ vt_a \in SN
        /\ \A sn \in DOMAIN tx_window : TxOff(sn) < TxOff(vt_s)
        /\ tx_window \in [DOMAIN tx_window -> TxPdu]
    BY DEF TxInv, RetxInv, WindowOK
  <2>3. \A sn \in SN : TxOff(sn) \in Nat
    <3>1. \A sn \in SN : TxOff(sn) \in SN
      BY <2>2, ModBaseValue DEF TxOff
    <3> QED
      BY <3>1 DEF SN
  <2>4. \A sn \in DOMAIN tx_window : FALSE
    BY <2>1, <2>2, <2>3
  <2>5. DOMAIN tx_window = {}
    BY <2>4
  <2> QED
    BY <2>2, <2>5 DEF NoEntries
<1>9. NoProtocolFailure'
  BY <1>1, <1>2, <1>7, <1>8 DEF NoProtocolFailure
<1>10. UNCHANGED <<vr_r, vr_h, rx_sdu, pdcp_rx, rx_window, rx_segments, data, control>>
  BY DEF rxVars, channelVars
<1>11. SameCells(tx_window', tx_window) /\ stack'.pc # "control"
  BY <1>2 DEF SameCells, Idle
<1>12. Channel(data', vd, hi, got, cont)
  BY <1>1, <1>10
<1> QED
  BY <1>2, <1>9, <1>10, <1>11, <1>12, LinkQuiet

-----------------------------------------------------------------------------
(* A PDU arrives.                                                              *)

\* The receiver has got2 afterwards, and mid2 is the first one it misses; no cell that has
\* reached it is lost.
LEMMA LinkArrive ==
  ASSUME NEW lo, NEW mid, NEW hi, NEW got, NEW cont, NEW vd, NEW vc, NEW p,
         Link(lo, mid, hi, got, cont, vd, vc, p),
         NEW i \in DOMAIN data, \A j \in 1 .. i - 1 : data[j].overtaken < MaxOvertaken,
         data' = Overtake(data, i), UNCHANGED <<txVars, control>>,
         NEW mid2 \in Nat, mid <= mid2, mid2 <= hi,
         vr_r' = mid2 % MOD, mid2 + ModBase(vr_h', vr_r') <= hi,
         NEW got2, got \subseteq got2, got2 \subseteq got \cup {vd[i].v},
         Held(rx_window', rx_segments', mid2, hi, got2, cont),
         Kept(rx_sdu', pdcp_rx', rx_window', got2, cont), RxCells \subseteq RxCells'
  PROVE  BothEnds' /\ RxCells \subseteq RxCells'
<1> DEFINE vd2 == Drop(vd, i)
<1>1. /\ lo \in Nat /\ mid \in Nat /\ hi \in Nat /\ lo <= mid /\ mid <= hi
      /\ hi + MaxOvertaken <= lo + W /\ cont \in [Nat -> Seq(Cell)] /\ p \in PType
      /\ vt_a = lo % MOD /\ vr_r = mid % MOD /\ vt_s = hi % MOD
      /\ Held(rx_window, rx_segments, mid, hi, got, cont)
      /\ Kept(rx_sdu, pdcp_rx, rx_window, got, cont)
      /\ Sent(tx_window, lo, hi, got, cont)
      /\ Channel(data, vd, hi, got, cont)
      /\ Reports(control, vc, lo, mid, hi, got, tx_window)
      /\ Applying(stack, p, vc, lo, mid, hi, got, tx_window)
      /\ NoProtocolFailure
  BY DEF Link
<1>2. got \subseteq 0 .. hi - 1
  BY <1>1 DEF Held
<1>3. Channel(data', vd2, hi, got2, cont)
  BY <1>1, <1>2, ChannelArrive
<1> HIDE DEF vd2, MOD
<1>4. mid <= mid2 /\ hi <= hi /\ got \subseteq got2 /\ lo <= mid2
  <2>1. lo \in Nat /\ mid \in Nat /\ hi \in Nat /\ lo <= mid
    BY <1>1
  <2> QED
    BY <2>1
<1>5. Reports(control, vc, lo, mid2, hi, got2, tx_window)
  <2>1. ASSUME NEW j \in 1 .. Len(vc)
        PROVE  lo <= vc[j].r /\ (vc[j].r < hi => vc[j].r % MOD \in DOMAIN tx_window)
    <3>1. Report(control[j], vc[j], lo, mid, hi, got, tx_window)
      BY <1>1 DEF Reports
    <3> QED
      BY <3>1 DEF Report
  <2>2. /\ Reports(control, vc, lo, mid, hi, got, tx_window)
        /\ lo \in Nat /\ mid \in Nat /\ hi \in Nat
    BY <1>1
  <2> QED
    BY <1>4, <2>1, <2>2, ReportsStay
<1>6. Applying(stack, p, vc, lo, mid2, hi, got2, tx_window)
  <2>1. CASE stack.pc = "control"
    <3>1. /\ Applying(stack, p, vc, lo, mid, hi, got, tx_window)
          /\ lo \in Nat /\ mid \in Nat /\ hi \in Nat /\ p.r \in Nat /\ p.a \in Nat
      BY <1>1 DEF PType
    <3>2. Report(stack.status, p, lo, mid, hi, got, tx_window)
      BY <2>1, <3>1 DEF Applying
    <3>3. lo <= p.r /\ (p.r < hi => p.r % MOD \in DOMAIN tx_window)
      BY <3>2 DEF Report
    <3>4. Report(stack.status, p, lo, mid2, hi, got2, tx_window)
      BY <1>4, <3>1, <3>2, <3>3, ReportStays
    <3> QED
      BY <3>1, <3>4 DEF Applying
  <2>2. CASE stack.pc # "control"
    BY <2>2 DEF Applying
  <2> QED
    BY <2>1, <2>2
<1>7. Sent(tx_window, lo, hi, got2, cont)
  BY <1>1, <1>4 DEF Sent
<1>8. UNCHANGED <<vt_a, vt_s, tx_window, stack, rrc_events>>
  BY DEF txVars
<1>9. /\ vt_a' = lo % MOD /\ vt_s' = hi % MOD
      /\ Sent(tx_window', lo, hi, got2, cont)
      /\ Reports(control', vc, lo, mid2, hi, got2, tx_window')
      /\ Applying(stack', p, vc, lo, mid2, hi, got2, tx_window')
      /\ NoProtocolFailure'
  BY <1>1, <1>5, <1>6, <1>7, <1>8 DEF NoProtocolFailure
<1> QED
  BY <1>1, <1>3, <1>4, <1>9, LinkBuilt

\* No PDU is overtaken by so many that it falls out of the receiver's window unseen.
LEMMA NotTooLate ==
  ASSUME NEW mid \in Nat, NEW k \in Nat, NEW s \in Nat, NEW got,
         0 .. mid - 1 \subseteq got, got \subseteq 0 .. s - 1,
         NEW o \in Nat, Cardinality(got \ (0 .. k - 1)) <= o
  PROVE  mid <= k + o
<1>1. CASE mid <= k
  BY <1>1
<1>2. CASE k < mid
  <2> DEFINE a == k .. mid - 1
             b == got \ (0 .. k - 1)
  <2>1. a \subseteq b
    <3>1. \A x \in a : x \in 0 .. mid - 1 /\ x \notin 0 .. k - 1
      OBVIOUS
    <3> QED
      BY <3>1
  <2>2. k \in Int /\ mid - 1 \in Int /\ k <= mid - 1
    BY <1>2
  <2>3. Cardinality(a) = mid - k
    <3>1. Cardinality(k .. mid - 1) = (mid - 1) - k + 1
      BY <2>2, FS_Interval
    <3> QED
      BY <3>1
  <2>4. IsFiniteSet(b)
    <3>1. IsFiniteSet(0 .. s - 1) /\ b \in SUBSET (0 .. s - 1)
      BY FS_Interval
    <3> HIDE DEF b
    <3> QED
      BY <3>1, FS_Subset
  <2>5. Cardinality(b) \in Nat /\ Cardinality(b) <= o
    BY <2>4, FS_CardinalityType
  <2> HIDE DEF a, b
  <2>6. Cardinality(a) <= Cardinality(b)
    BY <2>1, <2>4, FS_Subset
  <2> QED
    BY <2>3, <2>5, <2>6
<1> QED
  BY <1>1, <1>2

\* The numbers from mid on are inside the window of the receiver, those below are not:
\* inside_rx_window on the SN of a PDU that arrives.
LEMMA Arrival ==
  ASSUME NEW lo, NEW mid, NEW hi, NEW got, NEW cont, NEW vd, NEW vc, NEW p,
         Link(lo, mid, hi, got, cont, vd, vc, p), RxInv, NEW i \in DOMAIN data
  PROVE  LET pdu == data[i].pdu
             v   == vd[i].v
         IN  /\ pdu \in Pdu /\ pdu.sn = v % MOD /\ PduOf(pdu, cont[v])
             /\ v \in Nat /\ v < hi
             /\ InsideRxWindow(pdu.sn) <=> mid <= v
             /\ mid <= v => /\ RxOff(pdu.sn) = v - mid /\ v \in mid .. mid + MOD - 1
                            /\ v \in got <=> pdu.sn \in DOMAIN rx_window
<1> DEFINE pdu == data[i].pdu
           v == vd[i].v
           k == vd[i].k
           o == data[i].overtaken
<1>1. /\ lo \in Nat /\ mid \in Nat /\ hi \in Nat /\ lo <= mid /\ mid <= hi
      /\ hi + MaxOvertaken <= lo + W
      /\ vt_a = lo % MOD /\ vr_r = mid % MOD /\ vt_s = hi % MOD
      /\ Held(rx_window, rx_segments, mid, hi, got, cont)
      /\ Channel(data, vd, hi, got, cont)
  BY DEF Link
<1>2. /\ data \in Seq([pdu : Pdu, overtaken : Nat]) /\ vd \in Seq([v : Nat, k : Nat])
      /\ Len(data) = Len(vd) /\ i \in 1 .. Len(data)
      /\ Carries(data[i], vd[i], hi, got, cont)
  <2>1. /\ data \in Seq([pdu : Pdu, overtaken : Nat]) /\ vd \in Seq([v : Nat, k : Nat])
        /\ Len(data) = Len(vd)
        /\ \A j \in 1 .. Len(data) : Carries(data[j], vd[j], hi, got, cont)
    BY <1>1 DEF Channel
  <2> QED
    BY <2>1
<1>3. pdu \in Pdu /\ o \in Nat /\ v \in Nat /\ k \in Nat
  <2>1. data[i] \in [pdu : Pdu, overtaken : Nat] /\ vd[i] \in [v : Nat, k : Nat]
    BY <1>2, Elements
  <2> QED
    BY <2>1
<1>4. /\ v < k /\ k <= hi /\ k + MaxOvertaken <= v + W
      /\ pdu.sn = v % MOD /\ PduOf(pdu, cont[v]) /\ o <= MaxOvertaken
      /\ Cardinality(got \ (0 .. k - 1)) <= o
  BY <1>2 DEF Carries
<1>5. mid <= k + o
  <2>1. 0 .. mid - 1 \subseteq got /\ got \subseteq 0 .. hi - 1
    BY <1>1 DEF Held
  <2> QED
    BY <1>1, <1>3, <1>4, <2>1, NotTooLate
<1>6. /\ MOD \in Nat /\ W \in Nat /\ MOD = W + W /\ W >= 2 /\ SN = 0 .. MOD - 1
      /\ hi <= mid + W
      /\ \A u \in Nat : mid <= u /\ u < mid + MOD => u % MOD \in SN /\ RxOff(u % MOD) = u - mid
  BY <1>1, Offsets
<1> HIDE DEF MOD, pdu, v, k, o
<1>7. mid \in Nat /\ hi \in Nat /\ mid <= v + W /\ v < hi
  <2>1. mid \in Nat /\ hi \in Nat
    BY <1>1
  <2> QED
    BY <1>3, <1>4, <1>5, <1>6, <2>1, LinkAssumption
<1>8. v % MOD \in SN /\ mid % MOD \in SN
  BY <1>3, <1>7, Unwrapped, UnwrappedNext
<1>9. InsideRxWindow(pdu.sn) <=> RxOff(pdu.sn) < W
  <2>1. vr_mr = (vr_r + W) % MOD /\ vr_r \in SN
    BY DEF RxInv, VrOrder, RxTypeOK
  <2>2. ModBase(vr_mr, vr_r) = W /\ ModBase(vr_r, vr_r) = 0
    BY <2>1, UpperEdge, ZeroOffset
  <2>3. RxOff(pdu.sn) \in Nat
    <3>1. RxOff(pdu.sn) \in SN
      BY <1>4, <1>8, <2>1, ModBaseValue DEF RxOff
    <3> QED
      BY <1>6, <3>1
  <2> QED
    BY <2>2, <2>3 DEF InsideRxWindow, Inside, RxOff
<1>10. ASSUME mid <= v
       PROVE  /\ RxOff(pdu.sn) = v - mid /\ v \in mid .. mid + MOD - 1
              /\ v \in got <=> pdu.sn \in DOMAIN rx_window
              /\ RxOff(pdu.sn) < W
  <2>1. v < mid + MOD /\ v \in mid .. mid + MOD - 1 /\ v - mid < W
    BY <1>3, <1>6, <1>7, <1>10
  <2>2. RxOff(pdu.sn) = v - mid
    BY <1>3, <1>4, <1>6, <1>10, <2>1
  <2>3. v \in got <=> pdu.sn \in DOMAIN rx_window
    BY <1>1, <1>4, <2>1 DEF Held
  <2> QED
    BY <2>1, <2>2, <2>3
<1>11. ASSUME v < mid PROVE ~(RxOff(pdu.sn) < W)
  <2> DEFINE a == v % MOD
             b == mid % MOD
  <2>1. ModBase(b, a) = mid - v
    <3>1. v <= mid /\ mid < v + MOD
      BY <1>3, <1>6, <1>7, <1>11
    <3> QED
      BY <1>3, <1>7, <3>1, Unwrapped
  <2>2. RxOff(pdu.sn) = ModBase(a, b)
    BY <1>1, <1>4 DEF RxOff
  <2>3. a \in SN /\ b \in SN
    BY <1>8
  <2> HIDE DEF a, b
  <2>4. /\ ModBase(b, a) = IF b >= a THEN b - a ELSE b - a + MOD
        /\ ModBase(a, b) = IF a >= b THEN a - b ELSE a - b + MOD
    BY <2>3, ModBaseValue
  <2>5. a \in Nat /\ b \in Nat
    BY <1>6, <2>3
  <2>6. mid - v > 0 /\ mid - v <= W
    BY <1>3, <1>7, <1>11, WindowAssumption
  <2>7. ModBase(a, b) >= W
    <3>1. MOD \in Nat /\ W \in Nat /\ MOD = W + W
      BY <1>6
    <3> DEFINE d == mid - v
    <3>2. d \in Nat /\ d > 0 /\ d <= W
      BY <1>3, <1>7, <2>6
    <3>3. ModBase(b, a) = d
      BY <2>1
    <3> HIDE DEF d
    <3>4. CASE a < b
      <4>1. ModBase(b, a) = b - a /\ ModBase(a, b) = a - b + MOD
        BY <2>4, <2>5, <3>4
      <4> QED
        BY <2>5, <3>1, <3>2, <3>3, <4>1
    <3>5. CASE b <= a
      <4>1. a # b
        BY <2>4, <2>5, <3>2, <3>3
      <4>2. ModBase(b, a) = b - a + MOD /\ ModBase(a, b) = a - b
        BY <2>4, <2>5, <3>5, <4>1
      <4> QED
        BY <2>5, <3>1, <3>2, <3>3, <4>2
    <3> QED
      BY <2>5, <3>4, <3>5
  <2>8. ModBase(a, b) \in Nat
    <3>1. ModBase(a, b) \in SN
      BY <2>3, ModBaseValue
    <3> QED
      BY <1>6, <3>1
  <2> QED
    BY <1>6, <2>2, <2>7, <2>8
<1>12. InsideRxWindow(pdu.sn) <=> mid <= v
  BY <1>3, <1>7, <1>9, <1>10, <1>11
<1> QED
  BY <1>3, <1>4, <1>7, <1>10, <1>12 DEF pdu, v

\* Fewer segment lists, but the same ones.
LEMMA HeldFewer ==
  ASSUME NEW win, NEW segs, NEW mid, NEW hi, NEW got, NEW cont,
         Held(win, segs, mid, hi, got, cont),
         NEW segs2, DOMAIN segs2 \subseteq DOMAIN segs,
         \A sn \in DOMAIN segs2 : segs2[sn] = segs[sn]
  PROVE  Held(win, segs2, mid, hi, got, cont)
<1> HIDE DEF MOD
<1>1. ASSUME NEW u \in mid .. mid + MOD - 1, u % MOD \in DOMAIN segs2
      PROVE  /\ PartsOf(segs2[u % MOD], cont[u])
             /\ DOMAIN segs2[u % MOD] # {} => u < hi
  <2>1. u % MOD \in DOMAIN segs /\ segs2[u % MOD] = segs[u % MOD]
    BY <1>1
  <2> QED
    BY <2>1 DEF Held
<1> QED
  BY <1>1 DEF Held

\* VR(H) is moved past the PDU that arrives, if it is the highest one so far, but never
\* past VT(S).
LEMMA HighestBelow ==
  ASSUME NEW lo, NEW mid, NEW hi, NEW got, NEW cont, NEW vd, NEW vc, NEW p,
         Link(lo, mid, hi, got, cont, vd, vc, p), RxInv,
         NEW sn \in SN, NEW v \in Nat, RxOff(sn) = v - mid, v < hi,
         NEW h, h = IF RxOff(sn) >= RxOff(vr_h) THEN Inc(sn) ELSE vr_h
  PROVE  h \in SN /\ RxOff(h) \in Nat /\ mid + RxOff(h) <= hi
<1>1. /\ lo \in Nat /\ mid \in Nat /\ hi \in Nat /\ mid + RxOff(vr_h) <= hi
      /\ lo <= mid /\ mid <= hi /\ hi + MaxOvertaken <= lo + W
      /\ vt_a = lo % MOD /\ vr_r = mid % MOD /\ vt_s = hi % MOD
  BY DEF Link
<1>2. /\ MOD \in Nat /\ W \in Nat /\ MOD = W + W /\ W >= 2 /\ hi <= mid + W /\ SN = 0 .. MOD - 1
  BY <1>1, Offsets
<1>3. vr_r \in SN /\ vr_h \in SN
  BY DEF RxInv, RxTypeOK
<1>4. CASE h = vr_h
  <2>1. RxOff(vr_h) \in SN
    BY <1>3, ModBaseValue DEF RxOff
  <2> HIDE DEF MOD
  <2> QED
    BY <1>1, <1>2, <1>3, <1>4, <2>1
<1>5. CASE h = Inc(sn)
  <2> HIDE DEF MOD
  <2>1. mid \in Nat /\ hi \in Nat /\ RxOff(sn) < MOD - 1
    BY <1>1, <1>2
  <2>2. Inc(sn) \in SN /\ RxOff(Inc(sn)) = RxOff(sn) + 1
    BY <1>3, <2>1, IncOffset DEF RxOff
  <2>3. RxOff(sn) \in SN
    BY <1>3, ModBaseValue DEF RxOff
  <2>4. RxOff(sn) \in Nat
    BY <1>2, <2>3
  <2> QED
    BY <1>5, <2>1, <2>2, <2>4
<1> QED
  BY <1>4, <1>5

\* handle_data_pdu on a PDU that was missing: where VR(H) and VR(R) end up.
LEMMA HandleResult ==
  ASSUME RxInv, NEW sn \in SN, InsideRxWindow(sn), sn \notin DOMAIN rx_window,
         NEW poll, NEW cells, NEW ds, HandleDataPdu(sn, poll, cells, ds),
         NEW win, win = With(rx_window, sn, cells)
  PROVE  \E h, r \in SN :
           /\ vr_h' = h /\ vr_r' = r /\ r \in StopsAt(win, vr_r)
           /\ h = IF RxOff(sn) >= RxOff(vr_h) THEN Inc(sn) ELSE vr_h
           /\ Rest(rx_window', win, vr_r, RxOff(r))
           /\ ModBase(h, r) = RxOff(h) - RxOff(r)
<1> DEFINE h == IF RxOff(sn) >= RxOff(vr_h) THEN Inc(sn) ELSE vr_h
<1>1. PICK ms \in StopsAt(win, vr_ms), r \in StopsAt(win, vr_r) :
        /\ vr_h' = h /\ vr_r' = r
        /\ rx_window' = [y \in {z \in DOMAIN win : RxOff(z) >= RxOff(r)} |-> win[y]]
  BY DEF HandleDataPdu
<1>6. Rest(rx_window', win, vr_r, RxOff(r))
  BY <1>1 DEF Rest, RxOff
<1>2. DOMAIN win = DOMAIN rx_window \cup {sn}
  BY DEF With
<1>3. RxCore
  BY DEF RxCore, RxInv, RxTypeOK, CoreTypeOK
<1>4. h = IF RxOff(sn) >= RxOff(vr_h) THEN Inc(sn) ELSE vr_h
  OBVIOUS
<1> HIDE DEF h
<1>5. h \in SN /\ r \in SN /\ ModBase(h, r) = RxOff(h) - RxOff(r)
  BY <1>2, <1>3, <1>4, HandleOrder
<1> QED
  BY <1>1, <1>4, <1>5, <1>6

\* A complete PDU that was missing is stored: handle_data_pdu.
LEMMA LinkHandle ==
  ASSUME NEW lo, NEW mid, NEW hi, NEW got, NEW cont, NEW vd, NEW vc, NEW p,
         Link(lo, mid, hi, got, cont, vd, vc, p), RxInv,
         NEW i \in DOMAIN data, \A j \in 1 .. i - 1 : data[j].overtaken < MaxOvertaken,
         data' = Overtake(data, i), UNCHANGED <<txVars, control>>,
         NEW v, v = vd[i].v, NEW sn, sn = data[i].pdu.sn,
         InsideRxWindow(sn), sn \notin DOMAIN rx_window,
         NEW poll, NEW ds, HandleDataPdu(sn, poll, cont[v], ds),
         Cleared(rx_segments', rx_segments, vr_r, ModBase(vr_r', vr_r))
  PROVE  BothEnds' /\ RxCells \subseteq RxCells'
<1> DEFINE win == With(rx_window, sn, cont[v])
           got2 == Adding(got, v)
<1>1. /\ lo \in Nat /\ mid \in Nat /\ hi \in Nat /\ lo <= mid /\ mid <= hi
      /\ hi + MaxOvertaken <= lo + W
      /\ vt_a = lo % MOD /\ vr_r = mid % MOD /\ vt_s = hi % MOD
      /\ Held(rx_window, rx_segments, mid, hi, got, cont)
      /\ Kept(rx_sdu, pdcp_rx, rx_window, got, cont) /\ cont \in [Nat -> Seq(Cell)]
  BY DEF Link
<1>2. /\ sn = v % MOD /\ v \in Nat /\ v < hi /\ mid <= v
      /\ RxOff(sn) = v - mid /\ v \in mid .. mid + MOD - 1 /\ v \notin got
  BY Arrival
<1>3. /\ MOD \in Nat /\ W \in Nat /\ MOD = W + W /\ W >= 2 /\ hi <= mid + W /\ SN = 0 .. MOD - 1
      /\ sn \in SN
  <2>1. /\ MOD \in Nat /\ W \in Nat /\ MOD = W + W /\ W >= 2 /\ hi <= mid + W
        /\ SN = 0 .. MOD - 1
    BY <1>1, Offsets
  <2> HIDE DEF MOD
  <2>2. sn \in SN
    BY <1>2, UnwrappedNext
  <2> QED
    BY <2>1, <2>2
<1> HIDE DEF MOD
<1>4. win = With(rx_window, sn, cont[v]) /\ sn \notin DOMAIN rx_window /\ InsideRxWindow(sn)
  OBVIOUS
<1> HIDE DEF win
<1>5. PICK h \in SN, r \in SN :
        /\ vr_h' = h /\ vr_r' = r /\ r \in StopsAt(win, vr_r)
        /\ h = IF RxOff(sn) >= RxOff(vr_h) THEN Inc(sn) ELSE vr_h
        /\ Rest(rx_window', win, vr_r, RxOff(r))
        /\ ModBase(h, r) = RxOff(h) - RxOff(r)
  BY <1>3, <1>4, HandleResult
<1>6. mid + RxOff(h) <= hi /\ RxOff(h) \in Nat
  BY <1>2, <1>3, <1>5, HighestBelow
<1> DEFINE n == RxOff(r)
           mid2 == mid + n
<1>7. /\ n \in Nat /\ mid2 % MOD = r /\ mid2 <= hi
      /\ Held(rx_window', rx_segments', mid2, hi, got2, cont)
  <2>1. hi <= mid + MOD - 1
    <3>1. mid \in Nat /\ hi \in Nat
      BY <1>1
    <3> QED
      BY <1>3, <3>1
  <2>2. n = ModBase(r, vr_r)
    BY DEF RxOff
  <2>3. Rest(rx_window', win, vr_r, n) /\ Cleared(rx_segments', rx_segments, vr_r, n)
    BY <1>5 DEF RxOff
  <2>4. win = With(rx_window, v % MOD, cont[v]) /\ r \in StopsAt(win, vr_r)
    BY <1>2, <1>4, <1>5
  <2> HIDE DEF n, mid2, got2
  <2>5. /\ mid \in Nat /\ hi \in Nat /\ Held(rx_window, rx_segments, mid, hi, got, cont)
        /\ vr_r = mid % MOD
        /\ v \in mid .. mid + MOD - 1 /\ v < hi /\ v \notin got
    BY <1>1, <1>2
  <2>6. /\ n \in Nat /\ (mid + n) % MOD = r /\ mid + n <= hi
        /\ Held(rx_window', rx_segments', mid + n, hi, Adding(got, v), cont)
    BY <2>1, <2>2, <2>3, <2>4, <2>5, HeldPdu
  <2> QED
    BY <2>6 DEF mid2, got2
<1> HIDE DEF n, mid2, got2
<1>8. mid \in Nat /\ hi \in Nat /\ mid2 = mid + n
  <2>1. mid \in Nat /\ hi \in Nat
    BY <1>1
  <2>2. mid2 = mid + n
    BY DEF mid2
  <2> QED
    BY <2>1, <2>2
<1>9. mid2 \in Nat /\ mid <= mid2 /\ vr_r' = mid2 % MOD
  <2>1. mid2 \in Nat /\ mid <= mid2
    BY <1>7, <1>8
  <2> QED
    BY <1>5, <1>7, <2>1
<1>10. mid2 + ModBase(vr_h', vr_r') <= hi
  <2>1. ModBase(vr_h', vr_r') = RxOff(h) - n
    BY <1>5 DEF n
  <2> QED
    BY <1>6, <1>7, <1>8, <2>1
<1>11. got \subseteq got2 /\ got2 \subseteq got \cup {vd[i].v}
  BY DEF got2, Adding
<1>12. Kept(rx_sdu', pdcp_rx', rx_window', got2, cont) /\ RxCells \subseteq RxCells'
  <2>1. cont[v] \in Seq(Cell) /\ RxTyped(Cell)
    BY <1>1, <1>2 DEF Kept, RxTyped
  <2>2. vr_r \in SN /\ DOMAIN rx_window \subseteq SN
    BY DEF RxInv, RxTypeOK
  <2>3. RxTyped(Cell)' /\ RxCells \subseteq RxCells' /\ Cells(cont[v]) \subseteq RxCells'
    BY <1>3, <2>1, <2>2, HandleKeeps
  <2>4. \A u \in got2 : Cells(cont[u]) \subseteq RxCells'
    BY <1>1, <2>3 DEF got2, Adding, Kept, RxCells
  <2> QED
    BY <2>3, <2>4 DEF Kept, RxTyped, RxCells
<1> QED
  BY <1>7, <1>9, <1>10, <1>11, <1>12, LinkArrive

\* A PDU arrives of which the receiver keeps nothing: write_pdu outside the window, or
\* for a PDU it holds already.
LEMMA LinkPass ==
  ASSUME NEW lo, NEW mid, NEW hi, NEW got, NEW cont, NEW vd, NEW vc, NEW p,
         Link(lo, mid, hi, got, cont, vd, vc, p),
         NEW i \in DOMAIN data, \A j \in 1 .. i - 1 : data[j].overtaken < MaxOvertaken,
         data' = Overtake(data, i), UNCHANGED <<txVars, control>>,
         UNCHANGED <<vr_r, vr_h, rx_sdu, pdcp_rx, rx_window>>,
         DOMAIN rx_segments' \subseteq DOMAIN rx_segments,
         \A y \in DOMAIN rx_segments' : rx_segments'[y] = rx_segments[y]
  PROVE  BothEnds' /\ RxCells \subseteq RxCells'
<1>1. /\ mid \in Nat /\ mid <= hi /\ vr_r = mid % MOD /\ mid + RxOff(vr_h) <= hi
      /\ Held(rx_window, rx_segments, mid, hi, got, cont)
  BY DEF Link
<1>2. /\ Held(rx_window', rx_segments', mid, hi, got, cont)
      /\ Kept(rx_sdu', pdcp_rx', rx_window', got, cont)
  <2>1. Held(rx_window, rx_segments', mid, hi, got, cont)
    BY <1>1, HeldFewer
  <2>2. Kept(rx_sdu, pdcp_rx, rx_window, got, cont)
    BY DEF Link
  <2> QED
    BY <2>1, <2>2
<1>3. mid <= mid /\ vr_r' = mid % MOD
  BY <1>1
<1>4. mid + ModBase(vr_h', vr_r') <= hi
  BY <1>1 DEF RxOff
<1>5. got \subseteq got /\ got \subseteq got \cup {vd[i].v}
  OBVIOUS
<1>6. RxCells \subseteq RxCells'
  BY DEF RxCells
<1> HIDE DEF MOD
<1> QED
  BY <1>1, <1>2, <1>3, <1>4, <1>5, <1>6, LinkArrive

\* What reassemble_rx_sdus leaves of the segment lists; nothing is cleared when VR(R)
\* stays.
LEMMA ClearedSegments ==
  ASSUME RxInv
  PROVE  /\ Cleared(ClearSegments(rx_segments), rx_segments, vr_r, ModBase(vr_r', vr_r))
         /\ vr_r' = vr_r => /\ DOMAIN ClearSegments(rx_segments) = DOMAIN rx_segments
                            /\ \A y \in DOMAIN rx_segments :
                                  ClearSegments(rx_segments)[y] = rx_segments[y]
<1>1. /\ DOMAIN ClearSegments(rx_segments) = DOMAIN rx_segments
      /\ \A y \in DOMAIN rx_segments :
            ClearSegments(rx_segments)[y] =
              IF ModBase(y, vr_r) < ModBase(vr_r', vr_r) THEN NoEntries ELSE rx_segments[y]
  BY DEF ClearSegments, RxOff
<1>2. ASSUME vr_r' = vr_r, NEW y \in DOMAIN rx_segments
      PROVE  ~(ModBase(y, vr_r) < ModBase(vr_r', vr_r))
  <2>1. vr_r \in SN /\ y \in SN
    BY DEF RxInv, RxTypeOK
  <2>2. ModBase(vr_r', vr_r) = 0 /\ ModBase(y, vr_r) \in SN
    BY <1>2, <2>1, ZeroOffset, ModBaseValue
  <2> QED
    BY <2>2 DEF SN
<1> QED
  BY <1>1, <1>2 DEF Cleared

\* write_pdu, a whole PDU.
LEMMA LinkWritePdu ==
  ASSUME NEW lo, NEW mid, NEW hi, NEW got, NEW cont, NEW vd, NEW vc, NEW p,
         Link(lo, mid, hi, got, cont, vd, vc, p), RxInv,
         NEW i \in DOMAIN data, \A j \in 1 .. i - 1 : data[j].overtaken < MaxOvertaken,
         data' = Overtake(data, i), UNCHANGED <<txVars, control>>,
         ~data[i].pdu.rf, WritePdu(data[i].pdu.sn, data[i].pdu.p, data[i].pdu.cells)
  PROVE  BothEnds' /\ RxCells \subseteq RxCells'
<1> DEFINE pdu == data[i].pdu
           v == vd[i].v
<1>1. HandleDataPdu(pdu.sn, pdu.p, pdu.cells, do_status)
      /\ rx_segments' = ClearSegments(rx_segments)
  BY DEF WritePdu
<1>2. pdu.cells = cont[v]
  <2>1. PduOf(pdu, cont[v])
    BY Arrival
  <2> QED
    BY <2>1 DEF PduOf
<1>3. CASE ~InsideRxWindow(pdu.sn) \/ pdu.sn \in DOMAIN rx_window
  <2>1. UNCHANGED <<vr_r, vr_h, rx_sdu, pdcp_rx, rx_window>>
    BY <1>1, <1>3 DEF HandleDataPdu
  <2>2. /\ DOMAIN rx_segments' \subseteq DOMAIN rx_segments
        /\ \A y \in DOMAIN rx_segments' : rx_segments'[y] = rx_segments[y]
    BY <1>1, <2>1, ClearedSegments
  <2> QED
    BY <2>1, <2>2, LinkPass
<1>4. CASE InsideRxWindow(pdu.sn) /\ pdu.sn \notin DOMAIN rx_window
  <2>1. Cleared(rx_segments', rx_segments, vr_r, ModBase(vr_r', vr_r))
    BY <1>1, ClearedSegments
  <2>2. HandleDataPdu(pdu.sn, pdu.p, cont[v], do_status)
    BY <1>1, <1>2
  <2>3. v = vd[i].v /\ pdu.sn = data[i].pdu.sn
    OBVIOUS
  <2> QED
    BY <1>4, <2>1, <2>2, <2>3, LinkHandle
<1> QED
  BY <1>3, <1>4

\* write_pdu, the first segment of its PDU.
LEMMA LinkFirstSegment ==
  ASSUME NEW lo, NEW mid, NEW hi, NEW got, NEW cont, NEW vd, NEW vc, NEW p,
         Link(lo, mid, hi, got, cont, vd, vc, p), RxInv,
         NEW i \in DOMAIN data, \A j \in 1 .. i - 1 : data[j].overtaken < MaxOvertaken,
         data' = Overtake(data, i), UNCHANGED <<txVars, control>>,
         data[i].pdu.rf, WriteFirstSegment(data[i].pdu.sn, data[i].pdu)
  PROVE  BothEnds' /\ RxCells \subseteq RxCells'
<1> DEFINE pdu == data[i].pdu
           sn == pdu.sn
           v == vd[i].v
           list == AddSegment(NoEntries, pdu)
<1>1. /\ InsideRxWindow(sn)
      /\ rx_segments' = With(rx_segments, sn, list)
      /\ vr_h' = IF RxOff(sn) >= RxOff(vr_h) THEN Inc(sn) ELSE vr_h
      /\ UNCHANGED <<vr_r, rx_sdu, pdcp_rx, rx_window>>
  BY DEF WriteFirstSegment
<1>2. /\ mid \in Nat /\ hi \in Nat /\ mid <= hi /\ vr_r = mid % MOD
      /\ Held(rx_window, rx_segments, mid, hi, got, cont)
  BY DEF Link
<1>3. /\ sn = v % MOD /\ v \in Nat /\ v < hi /\ mid <= v /\ PduOf(pdu, cont[v])
      /\ RxOff(sn) = v - mid /\ v \in mid .. mid + MOD - 1 /\ pdu \in Pdu
  BY <1>1, Arrival
<1>4. PartsOf(list, cont[v])
  <2>1. PartAt(pdu, pdu.so, cont[v])
    BY <1>3 DEF PduOf
  <2>2. /\ DOMAIN list = {pdu.so} /\ list[pdu.so] = pdu
    BY DEF AddSegment, With, NoEntries
  <2> QED
    BY <2>1, <2>2 DEF PartsOf
<1> HIDE DEF list
<1>5. sn \in SN
  BY <1>3 DEF Pdu
<1>6. /\ Held(rx_window', rx_segments', mid, hi, got, cont)
      /\ Kept(rx_sdu', pdcp_rx', rx_window', got, cont)
  <2>1. Stored(rx_segments', rx_segments, v % MOD, list)
    BY <1>1, <1>3 DEF With, Stored
  <2>2. Held(rx_window, rx_segments', mid, hi, got, cont)
    <3> HIDE DEF v
    <3> QED
      BY <1>2, <1>3, <1>4, <2>1, HeldSegment
  <2>3. Kept(rx_sdu, pdcp_rx, rx_window, got, cont)
    BY DEF Link
  <2> QED
    BY <1>1, <2>2, <2>3
<1>7. mid + ModBase(vr_h', vr_r') <= hi
  <2> DEFINE h == IF RxOff(sn) >= RxOff(vr_h) THEN Inc(sn) ELSE vr_h
  <2>1. mid + RxOff(h) <= hi
    <3>1. h = IF RxOff(sn) >= RxOff(vr_h) THEN Inc(sn) ELSE vr_h
      OBVIOUS
    <3> HIDE DEF h, v, sn
    <3> QED
      BY <1>3, <1>5, <3>1, HighestBelow
  <2>2. vr_h' = h /\ vr_r' = vr_r
    BY <1>1
  <2> HIDE DEF h
  <2> QED
    BY <2>1, <2>2 DEF RxOff
<1>8. mid <= mid /\ vr_r' = mid % MOD
  BY <1>1, <1>2
<1>9. got \subseteq got /\ got \subseteq got \cup {vd[i].v}
  OBVIOUS
<1>10. RxCells \subseteq RxCells'
  BY <1>1 DEF RxCells
<1> HIDE DEF MOD
<1> QED
  BY <1>2, <1>6, <1>7, <1>8, <1>9, <1>10, LinkArrive

\* write_pdu, a further segment: it may complete the PDU, and then the cells put together
\* are those that the transmitter sent under this number.
LEMMA LinkNextSegment ==
  ASSUME NEW lo, NEW mid, NEW hi, NEW got, NEW cont, NEW vd, NEW vc, NEW p,
         Link(lo, mid, hi, got, cont, vd, vc, p), RxInv,
         NEW i \in DOMAIN data, \A j \in 1 .. i - 1 : data[j].overtaken < MaxOvertaken,
         data' = Overtake(data, i), UNCHANGED <<txVars, control>>,
         data[i].pdu.rf, WriteNextSegment(data[i].pdu.sn, data[i].pdu)
  PROVE  BothEnds' /\ RxCells \subseteq RxCells'
<1> DEFINE pdu == data[i].pdu
           sn == pdu.sn
           v == vd[i].v
           list == Pruned(AddSegment(rx_segments[sn], pdu))
           ds == do_status \/ pdu.p
<1>1. InsideRxWindow(sn) /\ sn \in DOMAIN rx_segments
  BY DEF WriteNextSegment
<1>2. /\ mid \in Nat /\ hi \in Nat /\ mid <= hi /\ vr_r = mid % MOD /\ cont \in [Nat -> Seq(Cell)]
      /\ mid + RxOff(vr_h) <= hi
      /\ Held(rx_window, rx_segments, mid, hi, got, cont)
  BY DEF Link
<1>3. /\ sn = v % MOD /\ v \in Nat /\ v < hi /\ mid <= v /\ PduOf(pdu, cont[v])
      /\ v \in mid .. mid + MOD - 1 /\ pdu \in Pdu
  BY <1>1, Arrival
<1>4. PartsOf(list, cont[v]) /\ DOMAIN list # {}
  <2>1. PartAt(pdu, pdu.so, cont[v])
    BY <1>3 DEF PduOf
  <2>2. PartsOf(rx_segments[sn], cont[v])
    BY <1>1, <1>2, <1>3 DEF Held
  <2> QED
    BY <2>1, <2>2, AddedPart
<1>5. CASE ~IsComplete(list)
  <2>1. /\ rx_segments' = [rx_segments EXCEPT ![sn] = list]
        /\ UNCHANGED <<vr_r, vr_h, rx_sdu, pdcp_rx, rx_window>>
    BY <1>5 DEF WriteNextSegment
  <2> HIDE DEF list
  <2>2. Stored(rx_segments', rx_segments, v % MOD, list)
    BY <1>1, <1>3, <2>1 DEF Stored
  <2>3. Held(rx_window, rx_segments', mid, hi, got, cont)
    <3> HIDE DEF v
    <3> QED
      BY <1>2, <1>3, <1>4, <2>2, HeldSegment
  <2>4. /\ Held(rx_window', rx_segments', mid, hi, got, cont)
        /\ Kept(rx_sdu', pdcp_rx', rx_window', got, cont)
    <3>1. Kept(rx_sdu, pdcp_rx, rx_window, got, cont)
      BY DEF Link
    <3> QED
      BY <2>1, <2>3, <3>1
  <2>5. mid + ModBase(vr_h', vr_r') <= hi
    BY <1>2, <2>1 DEF RxOff
  <2>6. mid <= mid /\ vr_r' = mid % MOD
    BY <1>2, <2>1
  <2>7. got \subseteq got /\ got \subseteq got \cup {vd[i].v}
    OBVIOUS
  <2>8. RxCells \subseteq RxCells'
    BY <2>1 DEF RxCells
  <2> HIDE DEF MOD
  <2> QED
    BY <1>2, <2>4, <2>5, <2>6, <2>7, <2>8, LinkArrive
<1>6. CASE IsComplete(list)
  <2>1. /\ HandleDataPdu(sn, \E so \in DOMAIN list : list[so].p, Concatenated(list), ds)
        /\ rx_segments' = Without(ClearSegments(rx_segments), sn)
    BY <1>6 DEF WriteNextSegment
  <2> HIDE DEF list
  <2>2. Concatenated(list) = cont[v]
    <3>1. cont[v] \in Seq(Cell)
      BY <1>2, <1>3
    <3> QED
      BY <1>4, <1>6, <3>1, PutTogether
  <2>3. /\ DOMAIN rx_segments' \subseteq DOMAIN ClearSegments(rx_segments)
        /\ \A y \in DOMAIN rx_segments' : rx_segments'[y] = ClearSegments(rx_segments)[y]
    BY <2>1 DEF Without
  <2>4. CASE sn \in DOMAIN rx_window
    <3>1. UNCHANGED <<vr_r, vr_h, rx_sdu, pdcp_rx, rx_window>>
      BY <2>1, <2>4 DEF HandleDataPdu
    <3>2. /\ DOMAIN rx_segments' \subseteq DOMAIN rx_segments
          /\ \A y \in DOMAIN rx_segments' : rx_segments'[y] = rx_segments[y]
      BY <2>3, <3>1, ClearedSegments
    <3> QED
      BY <3>1, <3>2, LinkPass
  <2>5. CASE sn \notin DOMAIN rx_window
    <3>1. Cleared(rx_segments', rx_segments, vr_r, ModBase(vr_r', vr_r))
      BY <2>3, ClearedSegments DEF Cleared
    <3> DEFINE poll == \E so \in DOMAIN list : list[so].p
    <3>2. HandleDataPdu(sn, poll, cont[v], ds)
      BY <2>1, <2>2
    <3> HIDE DEF poll, ds
    <3>3. v = vd[i].v /\ sn = data[i].pdu.sn
      OBVIOUS
    <3> QED
      BY <1>1, <2>5, <3>1, <3>2, <3>3, LinkHandle
  <2> QED
    BY <2>4, <2>5
<1> QED
  BY <1>5, <1>6

\* write_pdu at the receiver.
LEMMA LinkArrives ==
  ASSUME TxInv, RxInv, BothEnds, NEW i \in 1 .. MaxInFlight, LinkWrite(i)
  PROVE  BothEnds' /\ RxCells \subseteq RxCells'
<1>1. PICK lo, mid, hi, got, cont, vd, vc, p : Link(lo, mid, hi, got, cont, vd, vc, p)
  BY DEF BothEnds
<1>2. /\ i \in DOMAIN data /\ \A j \in 1 .. i - 1 : data[j].overtaken < MaxOvertaken
      /\ data' = Overtake(data, i) /\ UNCHANGED <<txVars, control>>
  BY DEF LinkWrite
<1>3. CASE ~data[i].pdu.rf
  <2>1. WritePdu(data[i].pdu.sn, data[i].pdu.p, data[i].pdu.cells)
    BY <1>3 DEF LinkWrite
  <2> QED
    BY <1>1, <1>2, <1>3, <2>1, LinkWritePdu
<1>4. CASE data[i].pdu.rf
  <2> DEFINE pdu == data[i].pdu
  <2>1. \/ WriteOldSegment(pdu.sn, pdu.p) \/ WriteFirstSegment(pdu.sn, pdu)
        \/ WriteNextSegment(pdu.sn, pdu)
    BY <1>4 DEF LinkWrite
  <2>2. CASE WriteOldSegment(pdu.sn, pdu.p)
    <3>1. UNCHANGED <<vr_r, vr_h, rx_sdu, pdcp_rx, rx_window, rx_segments>>
      BY <2>2 DEF WriteOldSegment
    <3>2. /\ DOMAIN rx_segments' \subseteq DOMAIN rx_segments
          /\ \A y \in DOMAIN rx_segments' : rx_segments'[y] = rx_segments[y]
      BY <3>1
    <3> QED
      BY <1>1, <1>2, <3>1, <3>2, LinkPass
  <2>3. CASE WriteFirstSegment(pdu.sn, pdu)
    BY <1>1, <1>2, <1>4, <2>3, LinkFirstSegment
  <2>4. CASE WriteNextSegment(pdu.sn, pdu)
    BY <1>1, <1>2, <1>4, <2>4, LinkNextSegment
  <2> QED
    BY <2>1, <2>2, <2>3, <2>4
<1> QED
  BY <1>3, <1>4

-----------------------------------------------------------------------------
(* The steps of LinkNext.                                                      *)

\* PDCP, the poll timer, and a read_pdu that returns nothing: at most a PDU is counted as
\* retransmitted.
LEMMA LinkTxQuiet ==
  ASSUME TxInv, BothEnds,
         \/ WriteSdu \/ \E s : DiscardSdu(s) \/ PollRetxExpires \/ PollRetxCallback
         \/ \E n : ReadNothing(n)
         \/ UNCHANGED txVars,
         UNCHANGED <<rxVars, data, control>>
  PROVE  BothEnds'
<1>1. PICK lo, mid, hi, got, cont, vd, vc, p : Link(lo, mid, hi, got, cont, vd, vc, p)
  BY DEF BothEnds
<1>2. /\ Channel(data, vd, hi, got, cont) /\ "protocol_failure" \notin rrc_events
  BY <1>1 DEF Link, NoProtocolFailure
<1>3. Channel(data', vd, hi, got, cont)
  BY <1>2
<1>4. UNCHANGED <<vr_r, vr_h, rx_sdu, pdcp_rx, rx_window, rx_segments>>
  BY DEF rxVars
<1>5. WindowOK(tx_window) /\ RetxInv /\ SameCells(tx_window, tx_window)
  BY DEF TxInv, RetxInv, SameCells
<1>6. \A sn : "protocol_failure" \notin MaxRetxEvent(sn)
  BY DEF MaxRetxEvent
<1>7. /\ SameCells(tx_window', tx_window)
      /\ UNCHANGED <<vt_a, vt_s>>
      /\ stack' = stack \/ stack'.pc # "control"
      /\ "protocol_failure" \notin rrc_events'
  <2>1. CASE WriteSdu
    BY <1>2, <1>5, <2>1 DEF WriteSdu
  <2>2. CASE \E s : DiscardSdu(s)
    BY <1>2, <1>5, <2>2 DEF DiscardSdu
  <2>3. CASE PollRetxExpires
    BY <1>2, <1>5, <2>3 DEF PollRetxExpires
  <2>4. CASE PollRetxCallback
    <3>1. UNCHANGED <<vt_a, vt_s>> /\ stack'.pc # "control"
      BY <2>4 DEF PollRetxCallback, Idle
    <3>2. CASE UNCHANGED <<tx_window, rrc_events>>
      BY <1>2, <1>5, <3>1, <3>2
    <3>3. CASE vt_a \in DOMAIN tx_window /\ tx_window' = CountRetx(vt_a)
               /\ rrc_events' = rrc_events \cup MaxRetxEvent(vt_a)
      <4>1. SameCells(tx_window', tx_window)
        BY <1>5, <3>3, CountRetxKeeps
      <4> QED
        BY <1>2, <1>6, <3>1, <3>3, <4>1
    <3> QED
      BY <2>4, <3>2, <3>3 DEF PollRetxCallback, RetransmitPdu
  <2>5. CASE \E n : ReadNothing(n)
    <3>1. tx_window' = ReadyWindow /\ Rescheduled /\ UNCHANGED <<vt_a, vt_s, stack>>
      BY <2>5 DEF ReadNothing
    <3>2. SameCells(tx_window', tx_window)
      BY <1>5, <3>1, ReadyKeeps
    <3> QED
      BY <1>2, <1>6, <3>1, <3>2 DEF Rescheduled
  <2>6. CASE UNCHANGED txVars
    BY <1>2, <1>5, <2>6 DEF txVars
  <2> QED
    BY <2>1, <2>2, <2>3, <2>4, <2>5, <2>6
<1> QED
  BY <1>1, <1>3, <1>4, <1>7, LinkQuiet DEF NoProtocolFailure

\* The timers of the receiver, and a status PDU that does not fit the grant.
LEMMA LinkRxQuiet ==
  ASSUME BothEnds, ReorderingExpired \/ StatusProhibitExpired \/ StatusDoesNotFit,
         UNCHANGED <<txVars, data, control>>
  PROVE  BothEnds'
<1>1. PICK lo, mid, hi, got, cont, vd, vc, p : Link(lo, mid, hi, got, cont, vd, vc, p)
  BY DEF BothEnds
<1>2. Channel(data, vd, hi, got, cont) /\ NoProtocolFailure
  BY <1>1 DEF Link
<1>3. Channel(data', vd, hi, got, cont)
  BY <1>2
<1>4. UNCHANGED <<vr_r, vr_h, rx_sdu, pdcp_rx, rx_window, rx_segments>>
  BY DEF ReorderingExpired, StatusProhibitExpired, StatusDoesNotFit
<1>5. UNCHANGED <<vt_a, vt_s, tx_window, stack, rrc_events>>
  BY DEF txVars
<1>6. SameCells(tx_window', tx_window) /\ NoProtocolFailure'
  BY <1>2, <1>5 DEF SameCells, NoProtocolFailure
<1> QED
  BY <1>1, <1>3, <1>4, <1>5, <1>6, LinkQuiet

\* The MACs lose a PDU, or the grant is too small for a status PDU.
LEMMA LinkLoses ==
  ASSUME BothEnds, LinkLose
  PROVE  BothEnds'
<1>1. PICK lo, mid, hi, got, cont, vd, vc, p : Link(lo, mid, hi, got, cont, vd, vc, p)
  BY DEF BothEnds
<1>2. UNCHANGED txVars
  BY DEF LinkLose
<1>3. /\ Channel(data, vd, hi, got, cont) /\ Reports(control, vc, lo, mid, hi, got, tx_window)
      /\ NoProtocolFailure
  BY <1>1 DEF Link
<1>4. ASSUME NEW i \in DOMAIN data, data' = Drop(data, i), UNCHANGED <<rxVars, control>>
      PROVE  BothEnds'
  <2>1. Channel(data', Drop(vd, i), hi, got, cont)
    BY <1>3, <1>4, ChannelDrop
  <2>2. UNCHANGED <<vr_r, vr_h, rx_sdu, pdcp_rx, rx_window, rx_segments>>
    BY <1>4 DEF rxVars
  <2>3. UNCHANGED <<vt_a, vt_s, tx_window, stack, rrc_events>>
    BY <1>2 DEF txVars
  <2>4. SameCells(tx_window', tx_window) /\ NoProtocolFailure'
    BY <1>3, <2>3 DEF SameCells, NoProtocolFailure
  <2> QED
    BY <1>1, <1>4, <2>1, <2>2, <2>3, <2>4, LinkQuiet
<1>5. ASSUME NEW i \in DOMAIN control, control' = Drop(control, i), UNCHANGED <<rxVars, data>>
      PROVE  BothEnds'
  <2> DEFINE vc2 == Drop(vc, i)
  <2>1. /\ Reports(Drop(control, i), vc2, lo, mid, hi, got, tx_window)
        /\ \A j \in 1 .. Len(vc2) : \E m \in 1 .. Len(vc) : vc2[j] = vc[m]
    BY <1>3, <1>5, ReportsDrop
  <2> HIDE DEF vc2
  <2>2. Reports(control', vc2, lo, mid, hi, got, tx_window)
    BY <1>5, <2>1
  <2> QED
    BY <1>1, <1>2, <1>5, <2>1, <2>2, LinkFewerReports
<1>6. ASSUME StatusDoesNotFit, UNCHANGED <<data, control>>
      PROVE  BothEnds'
  BY <1>2, <1>6, LinkRxQuiet
<1> QED
  BY <1>4, <1>5, <1>6 DEF LinkLose

\* read_pdu at the transmitter.
LEMMA LinkReads ==
  ASSUME TxInv, RxInv, BothEnds, InWindow', Slack', NEW n \in Nat, LinkRead(n)
  PROVE  BothEnds'
<1>1. PICK lo, mid, hi, got, cont, vd, vc, p : Link(lo, mid, hi, got, cont, vd, vc, p)
  BY DEF BothEnds
<1>2. UNCHANGED <<rxVars, control>>
  BY DEF LinkRead
<1>3. CASE ReadRetx(n) /\ data' = Append(data, [pdu |-> RetxPdu(n), overtaken |-> 0])
  BY <1>1, <1>2, <1>3, LinkReadRetx
<1>4. CASE ReadData(n) /\ data' = Append(data, [pdu |-> DataPdu(n), overtaken |-> 0])
  BY <1>1, <1>2, <1>4, LinkReadData
<1>5. CASE ReadNothing(n) /\ UNCHANGED data
  BY <1>2, <1>5, LinkTxQuiet
<1> QED
  BY <1>3, <1>4, <1>5 DEF LinkRead

\* handle_control_pdu, from the arrival of a status PDU to the end of its loop.
LEMMA LinkControls ==
  ASSUME TxInv, RxInv, BothEnds, LinkControl \/ TxStep(ControlStep)
  PROVE  BothEnds'
<1>1. PICK lo, mid, hi, got, cont, vd, vc, p : Link(lo, mid, hi, got, cont, vd, vc, p)
  BY DEF BothEnds
<1>2. CASE LinkControl
  <2>1. /\ control # << >>
        /\ ControlStart(Head(control)) \/ ControlDropped(Head(control))
        /\ control' = Tail(control) /\ UNCHANGED <<rxVars, data>>
    BY <1>2 DEF LinkControl
  <2> QED
    BY <1>1, <2>1, LinkControlStart, LinkControlDropped
<1>3. CASE TxStep(ControlStep)
  <2>1. ControlStep /\ UNCHANGED <<rxVars, channelVars>>
    BY <1>3 DEF TxStep
  <2> QED
    BY <1>1, <2>1, LinkNack, LinkAck, LinkDone DEF ControlStep
<1> QED
  BY <1>2, <1>3

\* read_pdu at the receiver returns a status PDU.
LEMMA LinkReadsStatus ==
  ASSUME RxInv, BothEnds, NEW k \in 0 .. W, LinkReadStatus(k)
  PROVE  BothEnds'
<1>1. PICK lo, mid, hi, got, cont, vd, vc, p : Link(lo, mid, hi, got, cont, vd, vc, p)
  BY DEF BothEnds
<1>2. PICK st \in StatusPdus(k) : BuildStatusPdu(k, st) /\ control' = Append(control, st)
  BY DEF LinkReadStatus
<1>3. UNCHANGED <<txVars, data>>
  BY DEF LinkReadStatus
<1> QED
  BY <1>1, <1>2, <1>3, LinkSendStatus

-----------------------------------------------------------------------------
(* The invariant is inductive.                                                 *)

\* A new bearer, or one that has carried s PDUs: nothing is under way.
LEMMA LinkInvInit ==
  ASSUME LinkInit, Slack
  PROVE  LinkInv
<1>1. PICK s \in Starts : TxQuiet(s) /\ RxQuiet(s)
  BY DEF LinkInit
<1>2. TxInv /\ RxInv
  BY <1>1, TxInvInit, InitInv DEF TxInit, RxInit
<1>3. /\ s \in SN /\ MOD \in Nat /\ W \in Nat /\ SN = 0 .. MOD - 1
  BY <1>1, StartsAssumption, WindowAssumption DEF SN, MOD
<1>4. s \in Nat /\ s % MOD = s
  <2>1. s \in 0 .. MOD - 1 /\ MOD \in Nat
    BY <1>3
  <2> HIDE DEF MOD
  <2> QED
    BY <2>1
<1>5. /\ vt_a = s /\ vt_s = s /\ tx_window = NoEntries /\ stack = Idle /\ rrc_events = {}
      /\ vr_r = s /\ vr_h = s /\ rx_window = NoEntries /\ rx_segments = NoEntries
      /\ rx_sdu = << >> /\ pdcp_rx = << >> /\ data = << >> /\ control = << >>
  BY <1>1 DEF TxQuiet, RxQuiet, LinkInit
<1>6. ModBase(s, s) = 0 /\ MaxOvertaken <= W
  <2>1. ModBase(s, s) = 0
    BY <1>3, ZeroOffset
  <2>2. ModBase(s, s) + MaxOvertaken <= W
    BY <1>5 DEF Slack, TxOff
  <2> QED
    BY <1>3, <2>1, <2>2, LinkAssumption
<1> DEFINE got == 0 .. s - 1
           cont == [v \in Nat |-> << >>]
           none == << >>
           p == [r |-> 0, a |-> 0, i |-> 0, s |-> 0]
<1>7. DOMAIN NoEntries = {}
  BY DEF NoEntries
<1> HIDE DEF MOD
<1>8. Held(rx_window, rx_segments, s, s, got, cont)
  <2>1. \A u \in s .. s + MOD - 1 : u \notin got
    BY <1>4
  <2>2. s \notin got /\ 0 .. s - 1 \subseteq got /\ got \subseteq 0 .. s - 1
    BY <1>4
  <2> QED
    BY <1>5, <1>7, <2>1, <2>2 DEF Held
<1>17. Kept(rx_sdu, pdcp_rx, rx_window, got, cont)
  <2>1. << >> \in Seq(Cell) /\ << >> \in Seq(Seq(Cell))
    OBVIOUS
  <2>2. \A v \in got : Cells(cont[v]) = {}
    <3>1. \A v \in got : cont[v] = << >>
      BY <1>4
    <3>2. Cells(<< >>) = {}
      BY DEF Cells
    <3> QED
      BY <3>1, <3>2
  <2> QED
    BY <1>5, <1>7, <2>1, <2>2 DEF Kept
<1>9. Sent(tx_window, s, s, got, cont)
  <2>1. s .. s - 1 = {}
    BY <1>4
  <2> QED
    BY <2>1 DEF Sent
<1>10. /\ Len(none) = 0 /\ none \in Seq([pdu : Pdu, overtaken : Nat])
       /\ none \in Seq([v : Nat, k : Nat]) /\ none \in Seq(Status)
       /\ none \in Seq([r : Nat, a : Nat]) /\ 1 .. 0 = {}
  OBVIOUS
<1>11. Channel(data, none, s, got, cont)
  <2> HIDE DEF none, got, cont
  <2>1. data = none
    BY <1>5 DEF none
  <2> QED
    BY <1>10, <2>1 DEF Channel
<1>12. Reports(control, none, s, s, s, got, tx_window)
  <2> HIDE DEF none, got
  <2>1. control = none
    BY <1>5 DEF none
  <2> QED
    BY <1>10, <2>1 DEF Reports
<1>13. Applying(stack, p, none, s, s, s, got, tx_window)
  BY <1>5 DEF Applying, Idle
<1>14. p \in PType /\ cont \in [Nat -> Seq(Cell)] /\ NoProtocolFailure
  <2>1. << >> \in Seq(Cell)
    OBVIOUS
  <2> QED
    BY <1>5, <2>1 DEF PType, NoProtocolFailure
<1>15. s + RxOff(vr_h) <= s /\ s + MaxOvertaken <= s + W /\ s <= s
  <2>1. RxOff(vr_h) = 0
    BY <1>5, <1>6 DEF RxOff
  <2> QED
    BY <1>3, <1>4, <1>6, <2>1, LinkAssumption
<1> HIDE DEF got, cont, none, p
<1>16. Link(s, s, s, got, cont, none, none, p)
  BY <1>4, <1>5, <1>8, <1>9, <1>11, <1>12, <1>13, <1>14, <1>15, <1>17 DEF Link
<1> QED
  BY <1>2, <1>16 DEF LinkInv, BothEnds

\* The PDUs and reports under way are such as the two ends expect.
LEMMA UnderWay ==
  ASSUME BothEnds
  PROVE  /\ \A i \in DOMAIN data : data[i].pdu \in Pdu
         /\ control # << >> => Head(control) \in Status
<1>1. PICK lo, mid, hi, got, cont, vd, vc, p : Link(lo, mid, hi, got, cont, vd, vc, p)
  BY DEF BothEnds
<1>2. Channel(data, vd, hi, got, cont) /\ Reports(control, vc, lo, mid, hi, got, tx_window)
  BY <1>1 DEF Link
<1>3. data \in Seq([pdu : Pdu, overtaken : Nat]) /\ control \in Seq(Status)
  BY <1>2 DEF Channel, Reports
<1>4. \A i \in DOMAIN data : data[i] \in [pdu : Pdu, overtaken : Nat]
  <2>1. DOMAIN data = 1 .. Len(data) /\ \A j \in 1 .. Len(data) : data[j] \in [pdu : Pdu, overtaken : Nat]
    BY <1>3, Elements
  <2> QED
    BY <2>1
<1>5. control # << >> => Head(control) \in Status
  BY <1>3
<1> QED
  BY <1>4, <1>5

LinkStep == LinkNext /\ InWindow' /\ RetxQueueFits'

\* No step of the two ends and the MACs between them breaks the invariant of the
\* transmitter.
LEMMA LinkTxInv ==
  ASSUME LinkInv, [LinkStep]_linkVars
  PROVE  TxInv'
<1>0. TxInv /\ BothEnds
  BY DEF LinkInv
<1>1. CASE UNCHANGED txVars
  BY <1>0, <1>1, TxInvNext
<1>2. ASSUME WriteSdu \/ (\E s : DiscardSdu(s)) \/ PollRetxExpires \/ PollRetxCallback
             \/ ControlStep
      PROVE  TxInv'
  BY <1>0, <1>2, WriteKept, DiscardKept, ExpiresKept, CallbackKept, NackKept, AckKept,
     DoneKept DEF ControlStep
<1>3. ASSUME NEW n \in 0 .. MaxGrant, LinkRead(n), InWindow'
      PROVE  TxInv'
  <2>1. n \in Nat
    BY TxAssumption
  <2>2. ReadRetx(n) \/ ReadData(n) \/ ReadNothing(n)
    BY <1>3 DEF LinkRead
  <2> QED
    BY <1>0, <1>3, <2>1, <2>2, ReadRetxKept, ReadDataKept, ReadNothingKept
<1>4. ASSUME LinkControl PROVE TxInv'
  <2>1. CASE ControlStart(Head(control))
    <3>1. Head(control) \in [ack_sn : SN, nacks : SUBSET SN]
      BY <1>0, <1>4, UnderWay DEF LinkControl, Status
    <3> QED
      BY <1>0, <2>1, <3>1, ControlStartKept
  <2>2. CASE ControlDropped(Head(control))
    BY <1>1, <2>2 DEF ControlDropped
  <2> QED
    BY <1>4, <2>1, <2>2 DEF LinkControl
<1>5. CASE UNCHANGED linkVars
  BY <1>1, <1>5 DEF linkVars
<1>6. CASE LinkStep
  <2>1. ASSUME NEW i \in 1 .. MaxInFlight, LinkWrite(i) PROVE TxInv'
    BY <1>1, <2>1 DEF LinkWrite
  <2>2. ASSUME NEW k \in 0 .. W, LinkReadStatus(k) PROVE TxInv'
    BY <1>1, <2>2 DEF LinkReadStatus
  <2>3. ASSUME LinkLose PROVE TxInv'
    BY <1>1, <2>3 DEF LinkLose
  <2>4. ASSUME RxStep(ReorderingExpired) \/ RxStep(StatusProhibitExpired) PROVE TxInv'
    BY <1>1, <2>4 DEF RxStep
  <2> QED
    BY <1>2, <1>3, <1>4, <1>6, <2>1, <2>2, <2>3, <2>4 DEF LinkStep, LinkNext, TxStep
<1> QED
  BY <1>5, <1>6

\* The same for the receiver.
LEMMA LinkRxInv ==
  ASSUME LinkInv, [LinkStep]_linkVars
  PROVE  RxInv'
<1>0. RxInv /\ BothEnds
  BY DEF LinkInv
<1>1. CASE UNCHANGED rxVars
  BY <1>0, <1>1 DEF rxVars, RxInv, RxTypeOK, VrOrder, ReorderingSound, RxOff
<1>2. ASSUME ReorderingExpired \/ StatusProhibitExpired \/ StatusDoesNotFit
             \/ \E k, st : BuildStatusPdu(k, st)
      PROVE  RxInv'
  BY <1>0, <1>2, ReorderingExpiredPreserves, StatusStepsPreserve
<1>3. ASSUME NEW i \in 1 .. MaxInFlight, LinkWrite(i)
      PROVE  RxInv'
  <2> DEFINE pdu == data[i].pdu
  <2>1. pdu \in Pdu
    BY <1>0, <1>3, UnderWay DEF LinkWrite
  <2>2. pdu.sn \in SN /\ pdu.p \in BOOLEAN
    BY <2>1 DEF Pdu
  <2>3. \/ WritePdu(pdu.sn, pdu.p, pdu.cells) \/ WriteOldSegment(pdu.sn, pdu.p)
        \/ WriteFirstSegment(pdu.sn, pdu) \/ WriteNextSegment(pdu.sn, pdu)
    BY <1>3 DEF LinkWrite
  <2> HIDE DEF pdu
  <2>4. CASE WritePdu(pdu.sn, pdu.p, pdu.cells)
    BY <1>0, <2>2, <2>4, WholePduPreserves
  <2>5. CASE WriteOldSegment(pdu.sn, pdu.p)
    BY <1>0, <2>2, <2>5, OldSegmentPreserves
  <2>6. CASE WriteFirstSegment(pdu.sn, pdu)
    BY <1>0, <2>2, <2>6, FirstSegmentPreserves
  <2>7. CASE WriteNextSegment(pdu.sn, pdu)
    BY <1>0, <2>2, <2>7, NextSegmentPreserves
  <2> QED
    BY <2>3, <2>4, <2>5, <2>6, <2>7
<1>4. CASE UNCHANGED linkVars
  BY <1>1, <1>4 DEF linkVars
<1>5. CASE LinkStep
  <2>1. ASSUME NEW n \in 0 .. MaxGrant, LinkRead(n) PROVE RxInv'
    BY <1>1, <2>1 DEF LinkRead
  <2>2. ASSUME NEW k \in 0 .. W, LinkReadStatus(k) PROVE RxInv'
    BY <1>2, <2>2 DEF LinkReadStatus
  <2>3. ASSUME LinkLose PROVE RxInv'
    BY <1>1, <1>2, <2>3 DEF LinkLose
  <2>4. ASSUME LinkControl PROVE RxInv'
    BY <1>1, <2>4 DEF LinkControl
  <2>5. ASSUME \/ TxStep(WriteSdu) \/ \E s \in Discardable : TxStep(DiscardSdu(s))
               \/ TxStep(ControlStep) \/ TxStep(PollRetxExpires) \/ TxStep(PollRetxCallback)
        PROVE  RxInv'
    BY <1>1, <2>5 DEF TxStep
  <2> QED
    BY <1>2, <1>3, <1>5, <2>1, <2>2, <2>3, <2>4, <2>5 DEF LinkStep, LinkNext, RxStep
<1> QED
  BY <1>4, <1>5

\* And what the two ends know of each other.
LEMMA LinkBothEnds ==
  ASSUME LinkInv, [LinkStep]_linkVars, Slack'
  PROVE  BothEnds'
<1>0. TxInv /\ RxInv /\ BothEnds
  BY DEF LinkInv
<1>1. CASE UNCHANGED linkVars
  <2>1. UNCHANGED txVars /\ UNCHANGED <<rxVars, data, control>>
    BY <1>1 DEF linkVars, channelVars
  <2> QED
    BY <1>0, <2>1, LinkTxQuiet
<1>2. CASE LinkStep
  <2>1. ASSUME NEW n \in 0 .. MaxGrant, LinkRead(n) PROVE BothEnds'
    <3>1. n \in Nat
      BY TxAssumption
    <3> QED
      BY <1>0, <1>2, <2>1, <3>1, LinkReads DEF LinkStep
  <2>2. ASSUME NEW i \in 1 .. MaxInFlight, LinkWrite(i) PROVE BothEnds'
    BY <1>0, <2>2, LinkArrives
  <2>3. ASSUME NEW k \in 0 .. W, LinkReadStatus(k) PROVE BothEnds'
    BY <1>0, <2>3, LinkReadsStatus
  <2>4. ASSUME LinkLose PROVE BothEnds'
    BY <1>0, <2>4, LinkLoses
  <2>5. ASSUME LinkControl \/ TxStep(ControlStep) PROVE BothEnds'
    BY <1>0, <2>5, LinkControls
  <2>6. ASSUME \/ TxStep(WriteSdu) \/ \E s \in Discardable : TxStep(DiscardSdu(s))
               \/ TxStep(PollRetxExpires) \/ TxStep(PollRetxCallback)
        PROVE  BothEnds'
    <3>1. WriteSdu \/ (\E s : DiscardSdu(s)) \/ PollRetxExpires \/ PollRetxCallback
      BY <2>6 DEF TxStep
    <3>2. UNCHANGED <<rxVars, data, control>>
      BY <2>6 DEF TxStep, channelVars
    <3> QED
      BY <1>0, <3>1, <3>2, LinkTxQuiet
  <2>7. ASSUME RxStep(ReorderingExpired) \/ RxStep(StatusProhibitExpired) PROVE BothEnds'
    <3>1. ReorderingExpired \/ StatusProhibitExpired
      BY <2>7 DEF RxStep
    <3>2. UNCHANGED <<txVars, data, control>>
      BY <2>7 DEF RxStep, channelVars
    <3> QED
      BY <1>0, <3>1, <3>2, LinkRxQuiet
  <2> QED
    BY <1>2, <2>1, <2>2, <2>3, <2>4, <2>5, <2>6, <2>7 DEF LinkStep, LinkNext
<1> QED
  BY <1>1, <1>2

\* handle_control_pdu and the two windows agree on the PDUs within reach.
LEMMA LinkInvShows ==
  ASSUME LinkInv
  PROVE  WindowsAgree /\ NoProtocolFailure
<1>1. PICK lo, mid, hi, got, cont, vd, vc, p : Link(lo, mid, hi, got, cont, vd, vc, p)
  BY DEF LinkInv, BothEnds
<1>2. /\ lo \in Nat /\ mid \in Nat /\ hi \in Nat /\ lo <= mid /\ mid <= hi
      /\ hi + MaxOvertaken <= lo + W /\ vt_a = lo % MOD /\ vr_r = mid % MOD /\ vt_s = hi % MOD
      /\ mid + RxOff(vr_h) <= hi
      /\ Held(rx_window, rx_segments, mid, hi, got, cont) /\ Sent(tx_window, lo, hi, got, cont)
      /\ NoProtocolFailure
  BY <1>1 DEF Link
<1>3. /\ MOD \in Nat /\ W \in Nat /\ MOD = W + W /\ W >= 2 /\ SN = 0 .. MOD - 1
      /\ hi <= lo + W /\ TxOff(vt_s) = hi - lo
      /\ \A v \in Nat : lo <= v /\ v < lo + MOD => TxOff(v % MOD) = v - lo
  BY <1>2, Offsets
<1>4. /\ vr_r \in SN /\ vr_h \in SN /\ DOMAIN rx_window \subseteq SN
  BY DEF LinkInv, RxInv, RxTypeOK
<1>5. lo \in Nat /\ mid \in Nat /\ hi \in Nat
  BY <1>2
<1> HIDE DEF MOD
<1>6. ASSUME NEW v \in Nat, mid <= v, v <= hi
      PROVE  TxOff(v % MOD) <= TxOff(vt_s)
  <2>1. lo <= v /\ v < lo + MOD /\ v - lo <= hi - lo
    <3>1. lo <= mid
      BY <1>2
    <3> QED
      BY <1>3, <1>5, <1>6, <3>1
  <2> QED
    BY <1>3, <2>1
<1>7. TxOff(vr_r) <= TxOff(vt_s)
  <2>1. mid <= mid /\ mid <= hi
    BY <1>2
  <2> QED
    BY <1>2, <1>5, <1>6, <2>1
<1>8. TxOff(vr_h) <= TxOff(vt_s)
  <2> DEFINE v == mid + RxOff(vr_h)
  <2>1. v \in Nat /\ mid <= v /\ v % MOD = vr_h
    BY <1>2, <1>4, <1>5, UnwrappedAt DEF RxOff
  <2>2. v <= hi
    BY <1>2
  <2> HIDE DEF v
  <2> QED
    BY <1>6, <2>1, <2>2
<1>9. ASSUME NEW sn \in DOMAIN rx_window \cap DOMAIN tx_window
      PROVE  rx_window[sn] = tx_window[sn].cells
  <2> DEFINE v == mid + RxOff(sn)
  <2>1. v \in Nat /\ mid <= v /\ v < mid + MOD /\ v % MOD = sn
    BY <1>2, <1>4, <1>5, UnwrappedAt DEF RxOff
  <2> HIDE DEF v
  <2>2. v \in mid .. mid + MOD - 1
    BY <1>3, <1>5, <2>1
  <2>3. v \in got /\ rx_window[sn] = cont[v] /\ got \subseteq 0 .. hi - 1
    BY <1>2, <2>1, <2>2 DEF Held
  <2>4. v \in lo .. hi - 1
    <3>1. lo <= mid
      BY <1>2
    <3>2. v < hi
      BY <1>5, <2>1, <2>3
    <3> QED
      BY <1>5, <2>1, <3>1, <3>2
  <2>5. tx_window[sn].cells = cont[v]
    BY <1>2, <2>1, <2>4 DEF Sent
  <2> QED
    BY <2>3, <2>5
<1> QED
  BY <1>2, <1>7, <1>8, <1>9 DEF WindowsAgree

-----------------------------------------------------------------------------
(* What PDCP is told.                                                          *)

\* What the transmitter knows of its SDUs, the peer holding RxCells.
NotifyInv == /\ HeldBack(undelivered, tx_sdu, tx_window, RxCells)
             /\ ToldHas(Told, RxCells)

\* A PDU that handle_control_pdu finds acknowledged has reached the peer, and its cells
\* are still there.
LEMMA AckedReceived ==
  ASSUME NEW lo, NEW mid, NEW hi, NEW got, NEW cont, NEW vd, NEW vc, NEW p,
         Link(lo, mid, hi, got, cont, vd, vc, p), TxInv,
         ControlAck, stack.i \in DOMAIN tx_window
  PROVE  \A c \in DOMAIN tx_window[stack.i].cells : tx_window[stack.i].cells[c] \in RxCells
<1> DEFINE i == stack.i
           st == stack.status
<1>1. /\ lo \in Nat /\ mid \in Nat /\ hi \in Nat /\ lo <= mid /\ mid <= hi
      /\ vt_a = lo % MOD
      /\ Held(rx_window, rx_segments, mid, hi, got, cont)
      /\ Kept(rx_sdu, pdcp_rx, rx_window, got, cont)
      /\ Sent(tx_window, lo, hi, got, cont)
      /\ Applying(stack, p, vc, lo, mid, hi, got, tx_window)
  BY DEF Link
<1>2. stack.pc = "control" /\ TxOff(i) < TxOff(st.ack_sn) /\ i \notin st.nacks
  BY DEF ControlAck, ControlMore
<1>3. /\ TxOff(i) = p.i - lo /\ TxOff(st.ack_sn) = p.a - lo
      /\ p.r \in Nat /\ p.a \in Nat /\ p.i \in Nat
      /\ lo <= p.r /\ lo <= p.i /\ p.r <= p.a /\ p.a <= hi /\ i = p.i % MOD /\ p.r <= mid
  <2>1. p.s \in Nat /\ p.a <= p.s /\ p.s <= hi
    BY <1>2, LoopOffsets
  <2> QED
    BY <1>1, <1>2, <2>1, LoopOffsets
<1>4. p.i < p.a /\ p.i < hi
  BY <1>1, <1>2, <1>3
<1>5. Report(st, p, lo, mid, hi, got, tx_window)
  BY <1>1, <1>2 DEF Applying
<1> HIDE DEF i, st, MOD
<1>6. p.i \in got
  <2>1. CASE p.i < p.r
    <3>1. p.i \in 0 .. mid - 1
      BY <1>1, <1>3, <2>1
    <3> QED
      BY <1>1, <3>1 DEF Held
  <2>2. CASE ~(p.i < p.r)
    <3>1. p.i \in p.r .. p.a - 1
      BY <1>3, <1>4, <2>2
    <3> QED
      BY <1>2, <1>3, <1>5, <3>1 DEF Report
  <2> QED
    BY <2>1, <2>2
<1>7. tx_window[i].cells = cont[p.i]
  <2>1. p.i \in lo .. hi - 1
    BY <1>1, <1>3, <1>4
  <2>2. p.i % MOD \in DOMAIN tx_window
    BY <1>3 DEF i
  <2> QED
    BY <1>1, <1>3, <2>1, <2>2 DEF Sent
<1>8. Cells(cont[p.i]) \subseteq RxCells
  BY <1>1, <1>6 DEF Kept, RxCells
<1>9. \A c \in DOMAIN cont[p.i] : cont[p.i][c] \in RxCells
  BY <1>8 DEF Cells
<1> QED
  BY <1>7, <1>9 DEF i

\* What has reached the receiver stays: reassembly passes the cells of the PDUs on, and
\* no other step touches them.
LEMMA ReceivedGrows ==
  ASSUME LinkInv, [LinkStep]_linkVars
  PROVE  RxCells \subseteq RxCells'
<1>0. TxInv /\ RxInv /\ BothEnds
  BY DEF LinkInv
<1>1. CASE UNCHANGED <<rx_sdu, pdcp_rx, rx_window>>
  BY <1>1 DEF RxCells
<1>2. CASE UNCHANGED rxVars
  BY <1>1, <1>2 DEF rxVars
<1>3. CASE UNCHANGED linkVars
  BY <1>2, <1>3 DEF linkVars
<1>4. CASE LinkStep
  <2>1. ASSUME NEW i \in 1 .. MaxInFlight, LinkWrite(i) PROVE RxCells \subseteq RxCells'
    BY <1>0, <2>1, LinkArrives
  <2>2. ASSUME NEW n \in 0 .. MaxGrant, LinkRead(n) PROVE RxCells \subseteq RxCells'
    BY <1>2, <2>2 DEF LinkRead
  <2>3. ASSUME NEW k \in 0 .. W, LinkReadStatus(k) PROVE RxCells \subseteq RxCells'
    BY <1>1, <2>3 DEF LinkReadStatus, BuildStatusPdu
  <2>4. ASSUME LinkLose PROVE RxCells \subseteq RxCells'
    BY <1>1, <1>2, <2>4 DEF LinkLose, StatusDoesNotFit
  <2>5. ASSUME LinkControl PROVE RxCells \subseteq RxCells'
    BY <1>2, <2>5 DEF LinkControl
  <2>6. ASSUME RxStep(ReorderingExpired) \/ RxStep(StatusProhibitExpired)
        PROVE  RxCells \subseteq RxCells'
    BY <1>1, <2>6 DEF RxStep, ReorderingExpired, StatusProhibitExpired
  <2>7. ASSUME \/ TxStep(WriteSdu) \/ \E s \in Discardable : TxStep(DiscardSdu(s))
               \/ TxStep(ControlStep) \/ TxStep(PollRetxExpires) \/ TxStep(PollRetxCallback)
        PROVE  RxCells \subseteq RxCells'
    BY <1>2, <2>7 DEF TxStep
  <2> QED
    BY <1>4, <2>1, <2>2, <2>3, <2>4, <2>5, <2>6, <2>7 DEF LinkStep, LinkNext
<1> QED
  BY <1>3, <1>4

\* The steps of the transmitter, the peer holding recv.
LEMMA NotifySteps ==
  ASSUME LinkInv, [LinkStep]_linkVars, NEW recv, recv = RxCells,
         HeldBack(undelivered, tx_sdu, tx_window, recv), ToldHas(Told, recv)
  PROVE  HeldBack(undelivered', tx_sdu', tx_window', recv) /\ ToldHas(Told', recv)
<1> DEFINE Kept2 == HeldBack(undelivered', tx_sdu', tx_window', recv) /\ ToldHas(Told', recv)
<1>0. TxInv /\ BothEnds
  BY DEF LinkInv
<1>1. ASSUME \/ WriteSdu \/ \E s : DiscardSdu(s) \/ PollRetxExpires \/ PollRetxCallback
             \/ \E n : ReadRetx(n) \/ ReadNothing(n)
             \/ \E status : ControlStart(status)
             \/ ControlNack \/ ControlDone
             \/ UNCHANGED txVars
      PROVE  Kept2
  <2>1. SameCells(tx_window', tx_window) /\ UNCHANGED <<undelivered, tx_sdu>> /\ Told' = Told
    BY <1>0, <1>1, TellKept
  <2>2. HeldBack(undelivered, tx_sdu, tx_window', recv)
    BY <2>1, HeldSame
  <2> QED
    BY <2>1, <2>2
<1>2. ASSUME NEW n \in 0 .. MaxGrant, ReadData(n), InWindow' PROVE Kept2
  <2>1. n \in Nat
    BY TxAssumption
  <2>2. HeldBack(undelivered', tx_sdu', tx_window', recv) /\ Told' = Told
    BY <1>0, <1>2, <2>1, TellRead
  <2> QED
    BY <2>2
<1>3. ASSUME ControlAck PROVE Kept2
  <2>1. PICK lo, mid, hi, got, cont, vd, vc, p : Link(lo, mid, hi, got, cont, vd, vc, p)
    BY <1>0 DEF BothEnds
  <2>2. stack.i \in DOMAIN tx_window =>
          \A c \in DOMAIN tx_window[stack.i].cells : tx_window[stack.i].cells[c] \in recv
    BY <1>0, <1>3, <2>1, AckedReceived
  <2> QED
    BY <1>0, <1>3, <2>2, TellAcked
<1> HIDE DEF Kept2
<1>4. CASE UNCHANGED linkVars
  <2>1. UNCHANGED txVars
    BY <1>4 DEF linkVars
  <2> QED
    BY <1>1, <2>1 DEF Kept2
<1>5. CASE LinkStep
  <2>1. ASSUME NEW n \in 0 .. MaxGrant, LinkRead(n) PROVE Kept2
    BY <1>1, <1>2, <1>5, <2>1 DEF LinkRead, LinkStep
  <2>2. ASSUME LinkControl PROVE Kept2
    BY <1>1, <2>2 DEF LinkControl, ControlDropped
  <2>3. ASSUME TxStep(ControlStep) PROVE Kept2
    BY <1>1, <1>3, <2>3 DEF TxStep, ControlStep
  <2>4. ASSUME \/ TxStep(WriteSdu) \/ \E s \in Discardable : TxStep(DiscardSdu(s))
               \/ TxStep(PollRetxExpires) \/ TxStep(PollRetxCallback)
        PROVE  Kept2
    BY <1>1, <2>4 DEF TxStep
  <2>5. ASSUME UNCHANGED txVars PROVE Kept2
    BY <1>1, <2>5
  <2>6. ASSUME NEW i \in 1 .. MaxInFlight, LinkWrite(i) PROVE Kept2
    BY <2>5, <2>6 DEF LinkWrite
  <2>7. ASSUME NEW k \in 0 .. W, LinkReadStatus(k) PROVE Kept2
    BY <2>5, <2>7 DEF LinkReadStatus
  <2>8. ASSUME LinkLose \/ RxStep(ReorderingExpired) \/ RxStep(StatusProhibitExpired)
        PROVE  Kept2
    BY <2>5, <2>8 DEF LinkLose, RxStep
  <2> QED
    BY <1>5, <2>1, <2>2, <2>3, <2>4, <2>6, <2>7, <2>8 DEF LinkStep, LinkNext, Kept2
<1> QED
  BY <1>4, <1>5

\* No step breaks what is known of the SDUs.
LEMMA NotifyStep ==
  ASSUME LinkInv, NotifyInv, [LinkStep]_linkVars
  PROVE  NotifyInv'
<1> DEFINE recv == RxCells
           recv2 == RxCells'
<1>1. recv \subseteq recv2
  BY ReceivedGrows
<1>2. recv = RxCells /\ recv2 = RxCells'
  OBVIOUS
<1>3. HeldBack(undelivered', tx_sdu', tx_window', recv) /\ ToldHas(Told', recv)
  BY NotifySteps DEF NotifyInv
<1> HIDE DEF recv, recv2
<1>4. HeldBack(undelivered', tx_sdu', tx_window', recv2)
  BY <1>1, <1>3 DEF HeldBack
<1>5. ToldHas(Told', recv2)
  BY <1>1, <1>3 DEF ToldHas
<1> QED
  BY <1>2, <1>4, <1>5 DEF NotifyInv

\* A new bearer has told nothing and sent nothing.
LEMMA NotifyInit ==
  ASSUME LinkInit
  PROVE  NotifyInv
<1>1. undelivered = NoEntries /\ notify_info_vec = << >> /\ notified = << >>
  BY DEF LinkInit, TxQuiet
<1>2. Told = << >>
  <2>1. << >> \in Seq(Nat)
    OBVIOUS
  <2> QED
    BY <1>1, <2>1, ConcatEmptySeq DEF Told
<1>3. DOMAIN NoEntries = {} /\ DOMAIN << >> = {}
  BY DEF NoEntries
<1> QED
  BY <1>1, <1>2, <1>3 DEF NotifyInv, HeldBack, ToldHas

\* The SDUs that notify_delivery was called for are the first that PDCP is told of.
LEMMA NotifyShows ==
  ASSUME LinkInv, NotifyInv
  PROVE  NotifiedReceived
<1>1. Received = RxCells
  <2> DEFINE st == [sdu |-> rx_sdu, out |-> pdcp_rx]
             o == UNION {Cells(pdcp_rx[i]) : i \in DOMAIN pdcp_rx}
             w == UNION {Cells(rx_window[sn]) : sn \in DOMAIN rx_window}
  <2>1. st.sdu = rx_sdu /\ st.out = pdcp_rx
    OBVIOUS
  <2>2. RxCells = InState(st) \cup w
    BY DEF RxCells, Contents
  <2>3. Received = o \cup Cells(rx_sdu) \cup w
    BY Zenon DEF Received, Cells
  <2> HIDE DEF st
  <2>4. InState(st) = Cells(rx_sdu) \cup o
    <3>1. InState(st) = Cells(st.sdu) \cup UNION {Cells(st.out[i]) : i \in DOMAIN st.out}
      BY DEF InState
    <3> QED
      BY <2>1, <3>1, Zenon
  <2> HIDE DEF w, o
  <2> QED
    BY <2>2, <2>3, <2>4
<1>2. notified \in Seq(1 .. NSdu) /\ notify_info_vec \in Seq(1 .. NSdu)
  BY DEF LinkInv, TxInv, SduTypes
<1>3. ASSUME NEW i \in DOMAIN notified, NEW k \in 1 .. SduLen[notified[i]]
      PROVE  SduCells(notified[i])[k] \in RxCells
  <2>1. i \in DOMAIN Told /\ Told[i] = notified[i]
    BY <1>2, <1>3, ConcatProperties DEF Told
  <2>2. SduCell(notified[i], k) \in RxCells
    BY <2>1, <1>3 DEF NotifyInv, ToldHas
  <2>3. SduCells(notified[i])[k] = SduCell(notified[i], k)
    BY <1>3 DEF SduCells, SduCell
  <2> QED
    BY <2>2, <2>3
<1> QED
  BY <1>1, <1>3 DEF NotifiedReceived

\* Between MACs that do not reorder, the window of the transmitter is all the room there
\* has to be.
LEMMA InOrderSlack ==
  ASSUME MaxOvertaken = 0, TxInv
  PROVE  Slack
<1>1. TxOff(vt_s) <= W /\ vt_a \in SN /\ vt_s \in SN
  BY DEF TxInv, RetxInv
<1>2. TxOff(vt_s) \in Nat
  <2>1. TxOff(vt_s) \in SN
    BY <1>1, ModBaseValue DEF TxOff
  <2> QED
    BY <2>1, WindowAssumption DEF SN
<1> QED
  BY <1>1, <1>2 DEF Slack

\* The invariant holds in every state the two ends reach.
LEMMA LinkInvHolds == LinkBoundedSpec /\ []Slack => []LinkInv
<1>1. LinkInit /\ Slack => LinkInv
  BY LinkInvInit
<1>2. LinkInv /\ [LinkStep]_linkVars /\ Slack' => LinkInv'
  BY LinkTxInv, LinkRxInv, LinkBothEnds DEF LinkInv
<1> QED
  BY <1>1, <1>2, PTL DEF LinkBoundedSpec, LinkStep

\* ... and in all of them when no PDU overtakes another, whatever the room above VT(S).
LEMMA LinkInvInOrder ==
  ASSUME MaxOvertaken = 0
  PROVE  LinkBoundedSpec => []LinkInv
<1>1. LinkInit => LinkInv
  <2>1. LinkInit => TxInv
    BY TxInvInit DEF LinkInit, TxInit
  <2> QED
    BY <2>1, InOrderSlack, LinkInvInit
<1>2. LinkInv /\ [LinkStep]_linkVars => LinkInv'
  <2> SUFFICES ASSUME LinkInv, [LinkStep]_linkVars PROVE LinkInv'
    OBVIOUS
  <2>1. TxInv' /\ RxInv'
    BY LinkTxInv, LinkRxInv
  <2>2. Slack'
    <3>1. (TxOff(vt_s) <= W /\ vt_a \in SN /\ vt_s \in SN)'
      BY <2>1 DEF TxInv, RetxInv
    <3>2. TxOff(vt_s)' \in Nat
      <4>1. TxOff(vt_s)' \in SN
        BY <3>1, ModBaseValue DEF TxOff
      <4> QED
        BY <4>1, WindowAssumption DEF SN
    <3> QED
      BY <3>1, <3>2 DEF Slack
  <2> QED
    BY <2>1, <2>2, LinkBothEnds DEF LinkInv
<1> QED
  BY <1>1, <1>2, PTL DEF LinkBoundedSpec, LinkStep

-----------------------------------------------------------------------------
(* Theorems.                                                                   *)

\* VT(A) <= VR(R) <= VR(H) <= VT(S), and a sequence number that both ends hold is the
\* same PDU at both: for every window size, any loss, repetition and resegmentation, and
\* PDUs overtaken by as many others as there is room for above VT(S).
THEOREM WindowsAgreeHolds == LinkBoundedSpec /\ []Slack => []WindowsAgree
BY LinkInvHolds, LinkInvShows, PTL

\* handle_control_pdu never reports a protocol failure to RRC, under the same conditions.
THEOREM NoProtocolFailureHolds == LinkBoundedSpec /\ []Slack => []NoProtocolFailure
BY LinkInvHolds, LinkInvShows, PTL

\* notify_delivery is called only for SDUs that the peer has completely, under the same
\* conditions: no acknowledgement is applied to another PDU than the one received.
THEOREM NotifiedReceivedHolds == LinkBoundedSpec /\ []Slack => []NotifiedReceived
<1>1. LinkInit => NotifyInv
  BY NotifyInit
<1>2. LinkInv /\ NotifyInv /\ [LinkStep]_linkVars => NotifyInv'
  BY NotifyStep
<1>3. LinkInv /\ NotifyInv => NotifiedReceived
  BY NotifyShows
<1>4. LinkBoundedSpec /\ []Slack => []LinkInv
  BY LinkInvHolds
<1> QED
  BY <1>1, <1>2, <1>3, <1>4, PTL DEF LinkBoundedSpec, LinkStep

\* Between MACs that keep the order of PDUs, none of them needs a condition.
THEOREM InOrderHolds ==
  ASSUME MaxOvertaken = 0
  PROVE  LinkBoundedSpec => [](WindowsAgree /\ NoProtocolFailure /\ NotifiedReceived)
<1>1. LinkInit => NotifyInv
  BY NotifyInit
<1>2. LinkInv /\ NotifyInv /\ [LinkStep]_linkVars => NotifyInv'
  BY NotifyStep
<1>3. LinkInv /\ NotifyInv => WindowsAgree /\ NoProtocolFailure /\ NotifiedReceived
  BY LinkInvShows, NotifyShows
<1>4. LinkBoundedSpec => []LinkInv
  BY LinkInvInOrder
<1> QED
  BY <1>1, <1>2, <1>3, <1>4, PTL DEF LinkBoundedSpec, LinkStep
=============================================================================
