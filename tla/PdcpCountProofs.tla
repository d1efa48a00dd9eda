--------------------------- MODULE PdcpCountProofs ---------------------------
(***************************************************************************)
(* Proofs that the two ends of a PDCP bearer agree on every COUNT, and     *)
(* that SDUs come out once and in order, for every size of the SN space.   *)
(*                                                                         *)
(* They hold if fewer SNs are lost than half of the SN space, if the       *)
(* undelivered SDUs span at most half of it, and if no handover happens    *)
(* while they straddle the wrap; these are hypotheses of the theorems.     *)
(*                                                                         *)
(* A PDU, an SDU forwarded in a handover and a copy kept for it are looked *)
(* at as pairs of a COUNT and an SDU.  The invariant orders these pairs    *)
(* against the next COUNT of each end: what lies below that of the         *)
(* receiver has been delivered, and what is missing from there up to that  *)
(* of the sender has been counted as dropped.                              *)
(***************************************************************************)
EXTENDS PdcpProofs, SequenceTheorems

-----------------------------------------------------------------------------
(* The invariant.                                                              *)

NextTxCount == COUNT(tx_hfn, next_pdcp_tx_sn)

\* The COUNT of the SDU that undelivered_sdus holds under sn.
CopyCount(sn) == NextTxCount - ((next_pdcp_tx_sn - sn) % NofSns)

Pairs(q) == {<<q[i].tx_count, q[i].sdu>> : i \in DOMAIN q}

Sent == Pairs(air) \cup Pairs(rlc_queue)

Again == {<<COUNT(tx_hfn, forwarded[i][1]), forwarded[i][2]>> : i \in DOMAIN forwarded}

\* The queue of an entity of the base station; a UE's SDUs are not forwarded.
Copies == IF uplink THEN {}
          ELSE {<<CopyCount(sn), undelivered_sdus.sdus[sn]>> : sn \in DOMAIN undelivered_sdus.sdus}

Known == Sent \cup Again \cup Copies

\* COUNTs that the receiver waits for in vain.
Missing == {c \in NextRxCount .. NextTxCount - 1 : \A x \in Sent \cup Again : x[1] # c}

\* PDUs are in the order of their COUNTs, which have the SN as remainder.
Numbered(q) ==
  \A i \in DOMAIN q :
    /\ \E hfn \in Nat : q[i].tx_count = COUNT(hfn, q[i].sn)
    /\ \A j \in DOMAIN q : i < j => q[i].tx_count < q[j].tx_count

InLine ==
  /\ Numbered(air) /\ Numbered(rlc_queue)
  /\ \A i, j \in DOMAIN forwarded : i < j => forwarded[i][1] < forwarded[j][1]
  /\ \A i \in DOMAIN forwarded : forwarded[i][1] < next_pdcp_tx_sn
  /\ \A x \in Pairs(air), y \in Pairs(rlc_queue) : x[1] < y[1]
  /\ \A x \in Sent, y \in Again : x[1] < y[1]

InRange ==
  /\ NextRxCount <= NextTxCount
  /\ \A x \in Known : /\ NextRxCount - H <= x[1] /\ x[1] < NextTxCount
                      /\ uplink => NextRxCount <= x[1]
  /\ \A x \in Copies \cup Again : NextTxCount - H <= x[1]

FewMissing == IsFiniteSet(Missing) /\ Cardinality(Missing) <= drops

Accepted == {pdcp_accepted[i] : i \in DOMAIN pdcp_accepted}

\* A copy of an SDU not yet received belongs to a PDU under way.
SdusOK ==
  /\ \A x, y \in Known : (x[1] < y[1] => x[2] < y[2]) /\ (x[1] = y[1] => x[2] = y[2])
  /\ \A x \in Known : /\ x[2] \in Accepted
                      /\ x[1] < NextRxCount => x[2] \in Delivered
                      /\ x[1] >= NextRxCount => \A d \in Delivered : d < x[2]
  /\ \A x \in Copies : x[1] >= NextRxCount => x \in Sent

HistoryOK ==
  /\ uplink \in BOOLEAN /\ (bearer # "am" => uplink) /\ (uplink => forwarded = << >>)
  /\ pdcp_accepted \in Seq(Nat) /\ \A s \in Accepted : s <= pdcp_written
  /\ Delivered \subseteq Accepted
  /\ \A i, j \in DOMAIN pdcp_delivered :
       i < j => pdcp_delivered[i].sdu < pdcp_delivered[j].sdu
  /\ drops \in Nat /\ drops <= MaxDrops

-----------------------------------------------------------------------------
(* COUNTs and their SNs.                                                       *)

\* hfn * 2^sn_len + sn, also one turn before the first.
LEMMA CountOf ==
  ASSUME NEW hfn \in Int, NEW sn \in PdcpSN
  PROVE  /\ COUNT(hfn, sn) \in Int /\ COUNT(hfn, sn) % NofSns = sn
         /\ COUNT(hfn - 1, sn) = COUNT(hfn, sn) - NofSns
         /\ COUNT(hfn, sn) = COUNT(hfn, 0) + sn /\ COUNT(hfn, 0) \in Int
<1> DEFINE x == hfn * NofSns
           y == (hfn - 1) * NofSns
<1>1. x \in Int /\ y = x - NofSns
  BY SnSpace
<1>2. COUNT(hfn, sn) = x + sn /\ COUNT(hfn - 1, sn) = y + sn /\ COUNT(hfn, 0) = x + 0
  BY DEF COUNT
<1>3. sn \in 0 .. NofSns - 1 /\ sn \in Int /\ NofSns \in Nat \ {0}
  BY SnSpace
<1>4. (x + sn) % NofSns = sn
  BY <1>1, <1>3, ModUnique
<1> HIDE DEF x, y
<1> QED
  BY <1>1, <1>2, <1>3, <1>4

\* How far an SN lies above another one says how far their COUNTs lie apart, if they
\* are less than a turn apart.
LEMMA SamePlace ==
  ASSUME NEW c \in Int, NEW r \in Int, c - r < NofSns, r - c <= NofSns,
         NEW sn \in PdcpSN, NEW next \in PdcpSN, c % NofSns = sn, r % NofSns = next
  PROVE  (sn - next) % NofSns = IF c >= r THEN c - r ELSE c - r + NofSns
<1> DEFINE n == NofSns
           p == c \div n
           q == r \div n
           d == (sn - next) % n
<1>1. n \in Nat \ {0}
  BY SnSpace
<1>2. c = p * n + sn /\ p \in Int /\ r = q * n + next /\ q \in Int
  BY <1>1, DivMod
<1>3. d = (IF sn >= next THEN sn - next ELSE sn - next + n) /\ d \in Nat /\ d < n
  BY SnDistance, SnSpace
<1>4. sn \in Int /\ next \in Int
  BY SnSpace
<1> HIDE DEF n, p, q, d
<1>5. PICK m \in Int : c - r = m * n + d
  <2>1. CASE sn >= next
    <3>1. (p - q) * n = p * n - q * n
      BY <1>1, <1>2
    <3>2. p - q \in Int /\ c - r = (p - q) * n + d
      BY <1>1, <1>2, <1>3, <1>4, <2>1, <3>1
    <3> QED
      BY <3>2
  <2>2. CASE ~(sn >= next)
    <3>1. (p - q - 1) * n = p * n - q * n - n
      BY <1>1, <1>2
    <3>2. p - q - 1 \in Int /\ c - r = (p - q - 1) * n + d
      BY <1>1, <1>2, <1>3, <1>4, <2>2, <3>1
    <3> QED
      BY <3>2
  <2> QED
    BY <2>1, <2>2
<1>6. m * n \in Int /\ (m + 1) * n = m * n + n /\ m + 1 \in Int
  BY <1>1
<1>7. c - r < n /\ r - c <= n
  BY DEF n
<1>8. ~(m >= 1)
  <2>1. m >= 1 => m * n >= n
    BY <1>1, Multiple
  <2> QED
    BY <1>1, <1>3, <1>5, <1>6, <1>7, <2>1
<1>9. ~(m + 1 <= -1)
  <2>1. m + 1 <= -1 => (m + 1) * n <= -n
    BY <1>1, <1>6, Multiple
  <2> QED
    BY <1>1, <1>3, <1>5, <1>6, <1>7, <2>1
<1>10. m = 0 \/ m = -1
  BY <1>8, <1>9
<1>11. CASE m = 0
  <2>1. m * n = 0
    BY <1>1, <1>11
  <2> QED
    BY <1>3, <1>5, <2>1 DEF n, d
<1>12. CASE m = -1
  <2>1. m * n = -n
    BY <1>1, <1>12
  <2>2. ~(c >= r) /\ d = c - r + n
    BY <1>1, <1>3, <1>5, <2>1
  <2> QED
    BY <2>2 DEF n, d
<1> QED
  BY <1>10, <1>11, <1>12

\* The COUNT of a copy has its SN; it is that of the present HFN if SNs have not
\* wrapped around since.
LEMMA CopyPlace ==
  ASSUME tx_hfn \in Nat, next_pdcp_tx_sn \in PdcpSN, NEW sn \in PdcpSN
  PROVE  /\ CopyCount(sn) \in Int /\ CopyCount(sn) % NofSns = sn
         /\ sn <= next_pdcp_tx_sn => CopyCount(sn) = COUNT(tx_hfn, sn)
         /\ NextTxCount \in Nat /\ NextTxCount % NofSns = next_pdcp_tx_sn
<1> DEFINE next == next_pdcp_tx_sn
           d == (next - sn) % NofSns
<1>1. d = (IF next >= sn THEN next - sn ELSE next - sn + NofSns) /\ d \in Int
  BY SnDistance, SnSpace
<1>2. NextTxCount \in Nat /\ NextTxCount = COUNT(tx_hfn, 0) + next
  BY NextTurn DEF NextTxCount
<1>3. NextTxCount % NofSns = next
  BY CountOf DEF NextTxCount
<1>4. /\ COUNT(tx_hfn, sn) = COUNT(tx_hfn, 0) + sn /\ COUNT(tx_hfn, 0) \in Int
      /\ COUNT(tx_hfn, sn) \in Int /\ COUNT(tx_hfn, sn) % NofSns = sn
      /\ COUNT(tx_hfn - 1, sn) = COUNT(tx_hfn, sn) - NofSns
  BY CountOf
<1>5. COUNT(tx_hfn - 1, sn) \in Int /\ COUNT(tx_hfn - 1, sn) % NofSns = sn
  BY CountOf
<1>6. CopyCount(sn) = NextTxCount - d
  BY DEF CopyCount
<1>7. next \in Int /\ sn \in Int /\ NofSns \in Int
  BY SnSpace
<1> HIDE DEF d
<1>8. CASE next >= sn
  <2>1. CopyCount(sn) = COUNT(tx_hfn, sn)
    BY <1>1, <1>2, <1>4, <1>6, <1>7, <1>8
  <2> QED
    BY <1>2, <1>3, <1>4, <2>1
<1>9. CASE ~(next >= sn)
  <2>1. CopyCount(sn) = COUNT(tx_hfn - 1, sn)
    BY <1>1, <1>2, <1>4, <1>6, <1>7, <1>9
  <2> QED
    BY <1>2, <1>3, <1>5, <1>7, <1>9, <2>1
<1> QED
  BY <1>8, <1>9

-----------------------------------------------------------------------------
(* PDUs in RLC.                                                                *)

\* A pair of a PDU under way.
LEMMA PairOfPdu ==
  ASSUME NEW q, NEW x \in Pairs(q)
  PROVE  \E i \in DOMAIN q : x = <<q[i].tx_count, q[i].sdu>>
BY DEF Pairs

\* COUNTs and SDUs are numbers.
LEMMA PairTypes ==
  ASSUME NEW q \in Seq(Pdu), NEW x \in Pairs(q)
  PROVE  x[1] \in Nat /\ x[2] \in Nat
<1>1. PICK i \in DOMAIN q : x = <<q[i].tx_count, q[i].sdu>>
  BY PairOfPdu
<1>2. q[i] \in Pdu
  BY <1>1
<1> QED
  BY <1>1, <1>2 DEF Pdu

\* RLC takes the first PDU out of its queue, or the first one under way arrives.
LEMMA TailOf ==
  ASSUME NEW q \in Seq(Pdu), q # << >>, Numbered(q)
  PROVE  /\ Head(q) \in Pdu /\ Tail(q) \in Seq(Pdu) /\ Numbered(Tail(q))
         /\ Pairs(q) = Pairs(Tail(q)) \cup {<<Head(q).tx_count, Head(q).sdu>>}
         /\ \A x \in Pairs(Tail(q)) : Head(q).tx_count < x[1]
         /\ \E hfn \in Nat : Head(q).tx_count = COUNT(hfn, Head(q).sn)
<1> DEFINE t == Tail(q)
           n == Len(q)
<1>1. n \in Nat /\ n >= 1 /\ DOMAIN q = 1 .. n
  OBVIOUS
<1>2. t \in Seq(Pdu) /\ Len(t) = n - 1 /\ DOMAIN t = 1 .. n - 1
  OBVIOUS
<1>3. \A i \in 1 .. n - 1 : t[i] = q[i + 1]
  OBVIOUS
<1>4. Head(q) = q[1] /\ q[1] \in Pdu
  OBVIOUS
<1> HIDE DEF t, n
<1>5. Numbered(t)
  <2>1. ASSUME NEW i \in DOMAIN t
        PROVE  /\ \E hfn \in Nat : t[i].tx_count = COUNT(hfn, t[i].sn)
               /\ \A j \in DOMAIN t : i < j => t[i].tx_count < t[j].tx_count
    <3>1. i + 1 \in DOMAIN q /\ t[i] = q[i + 1]
      BY <1>1, <1>2, <1>3
    <3>2. ASSUME NEW j \in DOMAIN t, i < j PROVE t[i].tx_count < t[j].tx_count
      <4>1. j + 1 \in DOMAIN q /\ t[j] = q[j + 1] /\ i + 1 < j + 1
        BY <1>1, <1>2, <1>3, <3>2
      <4> QED
        BY <3>1, <4>1 DEF Numbered
    <3> QED
      BY <3>1, <3>2 DEF Numbered
  <2> QED
    BY <2>1 DEF Numbered
<1>6. ASSUME NEW x \in Pairs(t) PROVE x \in Pairs(q) /\ Head(q).tx_count < x[1]
  <2>1. PICK i \in DOMAIN t : x = <<t[i].tx_count, t[i].sdu>>
    BY <1>6, PairOfPdu
  <2>2. i + 1 \in DOMAIN q /\ t[i] = q[i + 1] /\ 1 \in DOMAIN q /\ 1 < i + 1
    BY <1>1, <1>2, <1>3
  <2>3. q[1].tx_count < q[i + 1].tx_count
    BY <2>2 DEF Numbered
  <2> QED
    BY <1>4, <2>1, <2>2, <2>3 DEF Pairs
<1>7. ASSUME NEW x \in Pairs(q) PROVE x \in Pairs(t) \/ x = <<Head(q).tx_count, Head(q).sdu>>
  <2>1. PICK i \in DOMAIN q : x = <<q[i].tx_count, q[i].sdu>>
    BY <1>7, PairOfPdu
  <2>2. CASE i = 1
    BY <1>4, <2>1, <2>2
  <2>3. CASE i # 1
    <3>1. i - 1 \in DOMAIN t /\ t[i - 1] = q[i]
      BY <1>1, <1>2, <1>3, <2>1, <2>3
    <3> QED
      BY <2>1, <3>1 DEF Pairs
  <2> QED
    BY <2>2, <2>3
<1>8. <<Head(q).tx_count, Head(q).sdu>> \in Pairs(q)
  BY <1>1, <1>4 DEF Pairs
<1>9. \E hfn \in Nat : q[1].tx_count = COUNT(hfn, q[1].sn)
  BY <1>1 DEF Numbered
<1> QED
  BY <1>2, <1>4, <1>5, <1>6, <1>7, <1>8, <1>9 DEF t

\* A PDU goes behind those that are there.
LEMMA AppendTo ==
  ASSUME NEW q \in Seq(Pdu), Numbered(q), NEW pdu \in Pdu,
         \E hfn \in Nat : pdu.tx_count = COUNT(hfn, pdu.sn),
         \A x \in Pairs(q) : x[1] < pdu.tx_count
  PROVE  /\ Numbered(Append(q, pdu)) /\ Append(q, pdu) \in Seq(Pdu)
         /\ Pairs(Append(q, pdu)) = Pairs(q) \cup {<<pdu.tx_count, pdu.sdu>>}
<1> DEFINE t == Append(q, pdu)
           n == Len(q)
<1>1. n \in Nat /\ DOMAIN q = 1 .. n
  OBVIOUS
<1>2. t \in Seq(Pdu) /\ DOMAIN t = 1 .. n + 1 /\ t[n + 1] = pdu
  OBVIOUS
<1>3. \A i \in 1 .. n : t[i] = q[i]
  OBVIOUS
<1> HIDE DEF t, n
<1>4. Numbered(t)
  <2>1. ASSUME NEW i \in DOMAIN t
        PROVE  /\ \E hfn \in Nat : t[i].tx_count = COUNT(hfn, t[i].sn)
               /\ \A j \in DOMAIN t : i < j => t[i].tx_count < t[j].tx_count
    <3>1. CASE i = n + 1
      <4>1. \A j \in DOMAIN t : ~(i < j)
        BY <1>1, <1>2, <3>1
      <4> QED
        BY <1>2, <3>1, <4>1
    <3>2. CASE i # n + 1
      <4>1. i \in DOMAIN q /\ t[i] = q[i]
        BY <1>1, <1>2, <1>3, <3>2
      <4>2. ASSUME NEW j \in DOMAIN t, i < j PROVE t[i].tx_count < t[j].tx_count
        <5>1. CASE j = n + 1
          <6>1. <<q[i].tx_count, q[i].sdu>> \in Pairs(q)
            BY <4>1 DEF Pairs
          <6> QED
            BY <1>2, <4>1, <5>1, <6>1
        <5>2. CASE j # n + 1
          <6>1. j \in DOMAIN q /\ t[j] = q[j]
            BY <1>1, <1>2, <1>3, <5>2
          <6> QED
            BY <4>1, <4>2, <6>1 DEF Numbered
        <5> QED
          BY <5>1, <5>2
      <4> QED
        BY <4>1, <4>2 DEF Numbered
    <3> QED
      BY <3>1, <3>2
  <2> QED
    BY <2>1 DEF Numbered
<1>5. ASSUME NEW x PROVE x \in Pairs(t) <=> x \in Pairs(q) \/ x = <<pdu.tx_count, pdu.sdu>>
  <2>1. ASSUME x \in Pairs(t) PROVE x \in Pairs(q) \/ x = <<pdu.tx_count, pdu.sdu>>
    <3>1. PICK i \in DOMAIN t : x = <<t[i].tx_count, t[i].sdu>>
      BY <2>1, PairOfPdu
    <3>2. i = n + 1 \/ (i \in DOMAIN q /\ t[i] = q[i])
      BY <1>1, <1>2, <1>3
    <3> QED
      BY <1>2, <3>1, <3>2 DEF Pairs
  <2>2. ASSUME x \in Pairs(q) PROVE x \in Pairs(t)
    <3>1. PICK i \in DOMAIN q : x = <<q[i].tx_count, q[i].sdu>>
      BY <2>2, PairOfPdu
    <3>2. i \in DOMAIN t /\ t[i] = q[i]
      BY <1>1, <1>2, <1>3
    <3> QED
      BY <3>1, <3>2 DEF Pairs
  <2>3. <<pdu.tx_count, pdu.sdu>> \in Pairs(t)
    <3>1. n + 1 \in DOMAIN t
      BY <1>1, <1>2
    <3> QED
      BY <1>2, <3>1 DEF Pairs
  <2> QED
    BY <2>1, <2>2, <2>3
<1> QED
  BY <1>2, <1>4, <1>5 DEF t

\* Nothing is under way.
LEMMA EmptyLine ==
  /\ Pairs(<< >>) = {} /\ Numbered(<< >>)
BY DEF Pairs, Numbered

-----------------------------------------------------------------------------
(* What is dropped is counted.                                                 *)

CountsAt(q, I) == {q[i].tx_count : i \in I}

\* There are not more COUNTs than PDUs that carry them.
LEMMA CountsFew ==
  ASSUME NEW q, NEW I, IsFiniteSet(I)
  PROVE  /\ IsFiniteSet(CountsAt(q, I)) /\ Cardinality(CountsAt(q, I)) <= Cardinality(I)
         /\ Cardinality(CountsAt(q, I)) \in Nat
<1> DEFINE T == CountsAt(q, I)
           f == [i \in I |-> q[i].tx_count]
<1>1. f \in Surjection(I, T)
  BY DEF Surjection, CountsAt
<1> HIDE DEF f, T
<1>2. IsFiniteSet(T) /\ Cardinality(T) <= Cardinality(I)
  BY <1>1, FS_Surjection
<1>3. Cardinality(T) \in Nat
  BY <1>2, FS_CardinalityType
<1> QED
  BY <1>2, <1>3 DEF T

\* When PDUs or forwarded SDUs go, the COUNTs missing afterwards were so before or are
\* those that went; drops must grow by as many.
LEMMA LossCounted ==
  ASSUME FewMissing, drops \in Nat, NEW lost, IsFiniteSet(lost), drops' \in Nat,
         drops' >= drops + Cardinality(lost),
         NextRxCount' = NextRxCount, NextTxCount' = NextTxCount,
         \A x \in Sent \cup Again : x[1] \in lost \/ \E y \in (Sent \cup Again)' : y[1] = x[1]
  PROVE  FewMissing'
<1>1. ASSUME NEW c \in Missing' PROVE c \in Missing \cup lost
  <2>1. /\ c \in NextRxCount .. NextTxCount - 1
        /\ \A y \in (Sent \cup Again)' : y[1] # c
    BY <1>1 DEF Missing
  <2>2. ASSUME c \notin lost PROVE \A x \in Sent \cup Again : x[1] # c
    BY <2>1, <2>2
  <2> QED
    BY <2>1, <2>2 DEF Missing
<1> DEFINE M == Missing
           N == Missing'
<1>2. N \in SUBSET (M \cup lost)
  BY <1>1
<1>3. IsFiniteSet(M) /\ Cardinality(M) <= drops
  BY DEF FewMissing
<1> HIDE DEF M, N
<1>4. /\ IsFiniteSet(M \cup lost)
      /\ Cardinality(M \cup lost) = Cardinality(M) + Cardinality(lost) - Cardinality(M \cap lost)
  BY <1>3, FS_Union
<1>5. IsFiniteSet(M \cap lost)
  BY <1>3, FS_Subset
<1>6. /\ Cardinality(M) \in Nat /\ Cardinality(lost) \in Nat
      /\ Cardinality(M \cap lost) \in Nat /\ Cardinality(M \cup lost) \in Nat
  BY <1>3, <1>4, <1>5, FS_CardinalityType
<1>7. IsFiniteSet(N) /\ Cardinality(N) <= Cardinality(M \cup lost)
  BY <1>2, <1>4, FS_Subset
<1>8. Cardinality(N) \in Nat
  BY <1>7, FS_CardinalityType
<1>9. Cardinality(N) <= drops'
  BY <1>3, <1>4, <1>6, <1>7, <1>8
<1> QED
  BY <1>7, <1>9 DEF N, FewMissing

\* Nothing goes.
LEMMA NothingLost ==
  ASSUME FewMissing, drops \in Nat, drops' = drops,
         NextRxCount' = NextRxCount, NextTxCount' = NextTxCount,
         \A x \in Sent \cup Again : \E y \in (Sent \cup Again)' : y[1] = x[1]
  PROVE  FewMissing'
<1> DEFINE lost == {}
<1>1. IsFiniteSet(lost) /\ Cardinality(lost) = 0
  BY FS_EmptySet
<1> HIDE DEF lost
<1>2. drops' \in Nat /\ drops' >= drops + Cardinality(lost)
  BY <1>1
<1> QED
  BY <1>1, <1>2, LossCounted

\* No COUNT more is missing.
LEMMA FewerMissing ==
  ASSUME FewMissing, drops \in Nat, drops' = drops, Missing' \subseteq Missing
  PROVE  FewMissing'
<1> DEFINE M == Missing
           N == Missing'
<1>1. N \in SUBSET M /\ IsFiniteSet(M) /\ Cardinality(M) <= drops
  BY DEF FewMissing
<1> HIDE DEF M, N
<1>2. IsFiniteSet(N) /\ Cardinality(N) <= Cardinality(M)
  BY <1>1, FS_Subset
<1>3. Cardinality(N) \in Nat /\ Cardinality(M) \in Nat
  BY <1>1, <1>2, FS_CardinalityType
<1>4. Cardinality(N) <= drops'
  BY <1>1, <1>2, <1>3
<1> QED
  BY <1>2, <1>4 DEF FewMissing, N

-----------------------------------------------------------------------------
(* Pairs of COUNTs and SDUs.                                                   *)

\* COUNTs are integers and SDUs numbers.
LEMMA KnownTypes ==
  ASSUME TxInv, NEW x \in Known
  PROVE  x[1] \in Int /\ x[2] \in Nat
<1>1. CASE x \in Sent
  BY <1>1, PairTypes DEF Sent, TxInv
<1>2. CASE x \in Again
  <2>1. PICK i \in DOMAIN forwarded : x = <<COUNT(tx_hfn, forwarded[i][1]), forwarded[i][2]>>
    BY <1>2 DEF Again
  <2>2. forwarded[i] \in PdcpSN \X Nat
    BY <2>1 DEF TxInv
  <2>3. forwarded[i][1] \in PdcpSN /\ forwarded[i][2] \in Nat
    BY <2>2
  <2>4. COUNT(tx_hfn, forwarded[i][1]) \in Nat
    BY <2>3, NextTurn DEF TxInv
  <2> QED
    BY <2>1, <2>3, <2>4
<1>3. CASE x \in Copies
  <2>1. PICK sn \in DOMAIN undelivered_sdus.sdus :
          x = <<CopyCount(sn), undelivered_sdus.sdus[sn]>>
    BY <1>3 DEF Copies
  <2>2. sn \in PdcpSN /\ undelivered_sdus.sdus[sn] \in Nat
    BY <2>1 DEF TxInv, QueueOK
  <2>3. CopyCount(sn) \in Int
    BY <2>2, CopyPlace DEF TxInv
  <2> QED
    BY <2>1, <2>2, <2>3
<1> QED
  BY <1>1, <1>2, <1>3 DEF Known

\* PDUs, forwarded SDUs and copies go, or one takes the place of another.
LEMMA PairsGo ==
  ASSUME InRange, SdusOK, Known' \subseteq Known,
         Copies' \cup Again' \subseteq Copies \cup Again,
         \A x \in Copies' : x[1] >= NextRxCount => x \in Sent',
         NextRxCount' = NextRxCount, NextTxCount' = NextTxCount, uplink' = uplink,
         Accepted' = Accepted, Delivered' = Delivered
  PROVE  InRange' /\ SdusOK'
<1>1. InRange'
  BY DEF InRange
<1>2. SdusOK'
  BY DEF SdusOK
<1> QED
  BY <1>1, <1>2

\* write_sdu: a PDU, and perhaps a copy, with the next COUNT.
LEMMA PairComes ==
  ASSUME TxInv, InRange, SdusOK, NextRxCount \in Nat, NextTxCount \in Nat, pdcp_written \in Nat,
         \A s \in Accepted : s <= pdcp_written, Accepted \subseteq Nat,
         Delivered \subseteq Accepted,
         NEW x, x = <<NextTxCount, pdcp_written + 1>>,
         Sent' = Sent \cup {x}, Again = {}, Again' = {}, Copies' \subseteq Copies \cup {x},
         \A y \in Copies : NextTxCount + 1 - H <= y[1],
         NextRxCount' = NextRxCount, NextTxCount' = NextTxCount + 1, uplink' = uplink,
         Accepted' = Accepted \cup {pdcp_written + 1}, Delivered' = Delivered
  PROVE  InRange' /\ SdusOK'
<1> DEFINE r == NextRxCount
           t == NextTxCount
           s == pdcp_written + 1
<1>1. x[1] = t /\ x[2] = s /\ r \in Nat /\ t \in Nat /\ s \in Nat /\ H \in Nat /\ H >= 1
  BY SnSpace
<1>2. ASSUME NEW y \in Known' PROVE y \in Known \/ y = x
  BY <1>2 DEF Known
<1>3. ASSUME NEW y \in Known
      PROVE  /\ y[1] \in Int /\ y[2] \in Nat /\ r - H <= y[1] /\ y[1] < t /\ y[2] < s
             /\ uplink => r <= y[1]
             /\ y[2] \in Accepted
             /\ y[1] < r => y[2] \in Delivered
             /\ y[1] >= r => \A d \in Delivered : d < y[2]
  <2>1. y[1] \in Int /\ y[2] \in Nat
    BY KnownTypes
  <2>2. y[2] \in Accepted /\ y[2] <= pdcp_written
    BY DEF SdusOK
  <2> QED
    BY <2>1, <2>2 DEF InRange, SdusOK
<1>4. r <= t
  BY DEF InRange
<1>5. \A d \in Delivered : d \in Nat /\ d < s
  <2>1. ASSUME NEW d \in Delivered PROVE d \in Nat /\ d <= pdcp_written
    OBVIOUS
  <2> QED
    BY <2>1
<1>6. \A y, z \in Known : (y[1] < z[1] => y[2] < z[2]) /\ (y[1] = z[1] => y[2] = z[2])
  BY DEF SdusOK
<1>7. NextRxCount' = r /\ NextTxCount' = t + 1 /\ uplink' = uplink /\ Again' = {}
      /\ Accepted' = Accepted \cup {s} /\ Delivered' = Delivered
  OBVIOUS
<1>8. \A y \in Copies : y \in Known /\ t + 1 - H <= y[1] /\ (y[1] >= r => y \in Sent)
  BY DEF SdusOK, Known
<1>9. \A y \in Copies' : y \in Copies \/ y = x
  OBVIOUS
<1>10. x \in Sent' /\ Sent \subseteq Sent'
  OBVIOUS
<1> HIDE DEF r, t, s
<1>11. InRange'
  <2>1. NextRxCount' <= NextTxCount'
    BY <1>1, <1>4, <1>7
  <2>2. ASSUME NEW y \in Known'
        PROVE  /\ NextRxCount' - H <= y[1] /\ y[1] < NextTxCount'
               /\ uplink' => NextRxCount' <= y[1]
    <3>1. CASE y \in Known
      <4>1. y[1] \in Int /\ r - H <= y[1] /\ y[1] < t /\ (uplink => r <= y[1])
        BY <1>3, <3>1
      <4> QED
        BY <1>1, <1>7, <4>1
    <3>2. CASE y = x
      BY <1>1, <1>4, <1>7, <3>2
    <3> QED
      BY <1>2, <3>1, <3>2
  <2>3. ASSUME NEW y \in (Copies \cup Again)' PROVE NextTxCount' - H <= y[1]
    <3>1. y \in Copies \/ y = x
      BY <1>7, <1>9
    <3> QED
      BY <1>1, <1>7, <1>8, <3>1
  <2> QED
    BY <2>1, <2>2, <2>3 DEF InRange
<1>12. SdusOK'
  <2>1. ASSUME NEW y \in Known', NEW z \in Known'
        PROVE  (y[1] < z[1] => y[2] < z[2]) /\ (y[1] = z[1] => y[2] = z[2])
    <3>1. CASE y \in Known /\ z \in Known
      BY <1>6, <3>1
    <3>2. CASE y \in Known /\ z = x
      BY <1>1, <1>3, <3>2
    <3>3. CASE y = x /\ z \in Known
      <4>1. z[1] \in Int /\ z[1] < t
        BY <1>3, <3>3
      <4> QED
        BY <1>1, <3>3, <4>1
    <3>4. CASE y = x /\ z = x
      BY <1>1, <3>4
    <3> QED
      BY <1>2, <3>1, <3>2, <3>3, <3>4
  <2>2. ASSUME NEW y \in Known'
        PROVE  /\ y[2] \in Accepted'
               /\ y[1] < NextRxCount' => y[2] \in Delivered'
               /\ y[1] >= NextRxCount' => \A d \in Delivered' : d < y[2]
    <3>1. CASE y \in Known
      BY <1>3, <1>7, <3>1
    <3>2. CASE y = x
      BY <1>1, <1>4, <1>5, <1>7, <3>2
    <3> QED
      BY <1>2, <3>1, <3>2
  <2>3. \A y \in Copies' : y[1] >= NextRxCount' => y \in Sent'
    BY <1>7, <1>8, <1>9, <1>10
  <2> QED
    BY <2>1, <2>2, <2>3 DEF SdusOK
<1> QED
  BY <1>11, <1>12

\* The first PDU under way is not far above the next COUNT: what lies between is missing.
LEMMA NotFar ==
  ASSUME TxInv, InRange, FewMissing, NextRxCount \in Nat, NEW x \in Sent,
         \A y \in Sent \cup Again : x[1] <= y[1], drops \in Nat
  PROVE  x[1] - NextRxCount <= drops
<1> DEFINE r == NextRxCount
           c == x[1]
           S == r .. c - 1
<1>1. c \in Int /\ c < NextTxCount /\ NextTxCount \in Nat
  <2>1. x \in Known
    BY DEF Known
  <2>2. NextTxCount \in Nat
    BY NextTurn DEF NextTxCount, TxInv
  <2> QED
    BY <2>1, <2>2, KnownTypes DEF InRange
<1>2. S \in SUBSET Missing
  <2>1. ASSUME NEW k \in S PROVE k \in Missing
    <3>1. k \in r .. NextTxCount - 1
      BY <1>1
    <3>2. ASSUME NEW y \in Sent \cup Again PROVE y[1] # k
      <4>1. y \in Known /\ c <= y[1]
        BY DEF Known
      <4>2. y[1] \in Int
        BY <4>1, KnownTypes
      <4> QED
        BY <1>1, <4>1, <4>2
    <3> QED
      BY <3>1, <3>2 DEF Missing
  <2> QED
    BY <2>1
<1>3. IsFiniteSet(Missing) /\ Cardinality(Missing) <= drops
  BY DEF FewMissing
<1> HIDE DEF r, c
<1>4. r \in Nat
  BY DEF r
<1>5. Cardinality(S) = IF r > c - 1 THEN 0 ELSE c - 1 - r + 1
  BY <1>1, <1>4, FS_Interval
<1>6. Cardinality(S) <= Cardinality(Missing)
  BY <1>2, <1>3, FS_Subset
<1>7. Cardinality(Missing) \in Nat
  BY <1>3, FS_CardinalityType
<1>8. c - r <= drops
  BY <1>1, <1>3, <1>4, <1>5, <1>6, <1>7
<1> QED
  BY <1>8 DEF c, r

\* write_pdu delivers it, and the next COUNT is the one after it.
LEMMA PairArrives ==
  ASSUME TxInv, InRange, SdusOK, FewMissing, NextRxCount \in Nat, NEW x \in Sent,
         x[1] >= NextRxCount,
         Sent' \subseteq Sent, \A y \in Sent : y = x \/ y \in Sent',
         \A y \in Sent' \cup Again : x[1] < y[1],
         Again' = Again, Copies' = Copies, uplink => Copies = {}, drops \in Nat,
         NextRxCount' = x[1] + 1, NextTxCount' = NextTxCount, uplink' = uplink,
         Accepted' = Accepted, Delivered' = Delivered \cup {x[2]}, drops' = drops
  PROVE  InRange' /\ SdusOK' /\ FewMissing'
<1> DEFINE r == NextRxCount
           t == NextTxCount
           c == x[1]
           s == x[2]
<1>1. x \in Known /\ Known' \subseteq Known
  BY DEF Known
<1>2. r \in Nat /\ c \in Int /\ s \in Nat /\ c >= r /\ H \in Nat /\ t \in Nat /\ c < t
  <2>1. t \in Nat
    BY NextTurn DEF NextTxCount, TxInv
  <2>2. c < t
    BY <1>1 DEF InRange
  <2> QED
    BY <1>1, <2>1, <2>2, KnownTypes, SnSpace
<1>3. /\ NextRxCount' = c + 1 /\ NextTxCount' = t /\ uplink' = uplink /\ Accepted' = Accepted
      /\ Delivered' = Delivered \cup {s} /\ Copies' = Copies /\ Again' = Again
  OBVIOUS
<1>4. ASSUME NEW y \in Known'
      PROVE  /\ y[1] \in Int /\ y[2] \in Nat /\ y[1] < t /\ y[2] \in Accepted
             /\ y[1] > c => s < y[2] /\ \A d \in Delivered : d < y[2]
  <2>1. y \in Known
    BY <1>1
  <2>2. y[1] \in Int /\ y[2] \in Nat
    BY <2>1, KnownTypes
  <2>3. y[1] < t /\ y[2] \in Accepted
    BY <2>1 DEF InRange, SdusOK
  <2>4. ASSUME y[1] > c PROVE s < y[2] /\ \A d \in Delivered : d < y[2]
    <3>1. c < y[1] /\ y[1] >= r
      BY <1>2, <2>2, <2>4
    <3>2. s < y[2]
      BY <1>1, <2>1, <3>1 DEF SdusOK
    <3> QED
      BY <2>1, <3>1, <3>2 DEF SdusOK
  <2> QED
    BY <2>2, <2>3, <2>4
<1>5. ASSUME NEW y \in Copies
      PROVE  /\ y \in Known /\ y[1] \in Int /\ t - H <= y[1] /\ ~uplink
             /\ y[1] < r => y[2] \in Delivered
             /\ y[1] >= r /\ y[1] <= c => y[2] = s
             /\ y[1] > c => y \in Sent'
  <2>1. y \in Known
    BY DEF Known
  <2>2. y[1] \in Int
    BY <2>1, KnownTypes
  <2>3. t - H <= y[1] /\ (y[1] >= r => y \in Sent) /\ (y[1] < r => y[2] \in Delivered)
    BY <2>1 DEF InRange, SdusOK
  <2>4. ASSUME y[1] >= r, y[1] <= c PROVE y[2] = s
    <3>1. y \in Sent
      BY <2>3, <2>4
    <3>2. ~(c < y[1])
      BY <1>2, <2>2, <2>4
    <3> QED
      BY <3>1, <3>2
  <2>5. ASSUME y[1] > c PROVE y \in Sent'
    <3>1. y[1] >= r /\ y # x
      BY <1>2, <2>2, <2>5
    <3> QED
      BY <2>3, <3>1
  <2> QED
    BY <2>1, <2>2, <2>3, <2>4, <2>5
<1>6. \A y \in Sent' \cup Again : c < y[1]
  OBVIOUS
<1>7. \A y \in Again : t - H <= y[1]
  BY DEF InRange
<1>8. Known' = Sent' \cup Again \cup Copies
  BY DEF Known
<1> HIDE DEF r, t, c, s
<1>9. InRange'
  <2>1. NextRxCount' <= NextTxCount'
    BY <1>2, <1>3
  <2>2. ASSUME NEW y \in Known'
        PROVE  /\ NextRxCount' - H <= y[1] /\ y[1] < NextTxCount'
               /\ uplink' => NextRxCount' <= y[1]
    <3>1. y[1] \in Int /\ y[1] < t
      BY <1>4
    <3>2. CASE y \in Sent' \cup Again
      <4>1. c < y[1]
        BY <1>6, <3>2
      <4> QED
        BY <1>2, <1>3, <3>1, <4>1
    <3>3. CASE y \in Copies
      <4>1. t - H <= y[1] /\ ~uplink
        BY <1>5, <3>3
      <4> QED
        BY <1>2, <1>3, <3>1, <4>1
    <3> QED
      BY <1>8, <3>2, <3>3
  <2>3. \A y \in (Copies \cup Again)' : NextTxCount' - H <= y[1]
    BY <1>3, <1>5, <1>7
  <2> QED
    BY <2>1, <2>2, <2>3 DEF InRange
<1>10. SdusOK'
  <2>1. \A y, z \in Known' : (y[1] < z[1] => y[2] < z[2]) /\ (y[1] = z[1] => y[2] = z[2])
    BY <1>1 DEF SdusOK
  <2>2. ASSUME NEW y \in Known'
        PROVE  /\ y[2] \in Accepted'
               /\ y[1] < NextRxCount' => y[2] \in Delivered'
               /\ y[1] >= NextRxCount' => \A d \in Delivered' : d < y[2]
    <3>1. y[1] \in Int /\ y[2] \in Accepted
      BY <1>4
    <3>2. ASSUME y[1] < NextRxCount' PROVE y[2] \in Delivered'
      <4>1. ~(c < y[1])
        BY <1>2, <1>3, <3>1, <3>2
      <4>2. y \in Copies
        BY <1>6, <1>8, <4>1
      <4> QED
        BY <1>2, <1>3, <1>5, <3>1, <4>1, <4>2
    <3>3. ASSUME y[1] >= NextRxCount' PROVE \A d \in Delivered' : d < y[2]
      <4>1. y[1] > c
        BY <1>2, <1>3, <3>1, <3>3
      <4> QED
        BY <1>3, <1>4, <4>1
    <3> QED
      BY <1>3, <3>1, <3>2, <3>3
  <2>3. ASSUME NEW y \in Copies', y[1] >= NextRxCount' PROVE y \in Sent'
    <3>1. y \in Copies /\ y[1] \in Int
      BY <1>3, <1>5
    <3>2. y[1] > c
      BY <1>2, <1>3, <2>3, <3>1
    <3> QED
      BY <1>5, <3>1, <3>2
  <2> QED
    BY <2>1, <2>2, <2>3 DEF SdusOK
<1>11. FewMissing'
  <2>1. ASSUME NEW k \in Missing' PROVE k \in Missing
    <3>1. /\ k \in c + 1 .. t - 1
          /\ \A y \in Sent' \cup Again : y[1] # k
      BY <1>3 DEF Missing
    <3>2. k \in r .. t - 1 /\ k # c
      BY <1>2, <3>1
    <3>3. \A y \in Sent \cup Again : y[1] # k
      BY <3>1, <3>2 DEF c
    <3> QED
      BY <3>2, <3>3 DEF Missing, r, t
  <2> QED
    BY <2>1, FewerMissing
<1> QED
  BY <1>9, <1>10, <1>11

-----------------------------------------------------------------------------
(* The receiver.                                                               *)

\* What the bounds of the run say: fewer PDUs are dropped than half of the SNs, the
\* base station has at most half of them in use, and none is forwarded after a wrap.
Bounded == MaxDrops < H /\ MaxSpan <= H /\ ~SplitMoves

Agreement ==
  /\ HistoryOK /\ InLine /\ InRange /\ SdusOK /\ FewMissing
  /\ CountsAgree /\ OnlyDuplicatesRefused

CountInv == PdcpInv /\ Agreement

\* The next COUNT of the receiver has the next SN.
LEMMA NextRxPlace ==
  ASSUME RxInv
  PROVE  NextRxCount \in Nat /\ NextRxCount % NofSns = next_pdcp_rx_sn
<1>1. rx_hfn \in Nat /\ rx_hfn \in Int /\ next_pdcp_rx_sn \in PdcpSN
  BY DEF RxInv
<1>2. COUNT(rx_hfn, next_pdcp_rx_sn) \in Nat
  BY <1>1, NextTurn
<1>3. COUNT(rx_hfn, next_pdcp_rx_sn) % NofSns = next_pdcp_rx_sn
  BY <1>1, CountOf
<1> QED
  BY <1>2, <1>3 DEF NextRxCount

\* handle_srb_pdu and handle_um_drb_pdu find the COUNT of a PDU that is less than a
\* turn ahead.
LEMMA InOrderCounted ==
  ASSUME RxInv, NEW sn \in PdcpSN, NEW c \in Nat, c % NofSns = sn,
         c >= NextRxCount, c - NextRxCount < NofSns
  PROVE  /\ COUNT(HfnOf(sn), sn) = c
         /\ COUNT(IF sn = NofSns - 1 THEN HfnOf(sn) + 1 ELSE HfnOf(sn), increment_sn(sn)) = c + 1
<1> DEFINE next == next_pdcp_rx_sn
           r == NextRxCount
           d == (sn - next) % NofSns
           h == HfnOf(sn)
<1>1. r \in Nat /\ r % NofSns = next /\ next \in PdcpSN /\ rx_hfn \in Nat
  BY NextRxPlace DEF RxInv
<1>2. d = c - r
  <2>1. r - c <= NofSns
    BY <1>1, SnSpace
  <2> QED
    BY <1>1, <2>1, SamePlace
<1>3. d = IF sn >= next THEN sn - next ELSE sn - next + NofSns
  BY <1>1, SnDistance
<1>4. /\ COUNT(rx_hfn, sn) = COUNT(rx_hfn, 0) + sn /\ r = COUNT(rx_hfn, 0) + next
      /\ COUNT(rx_hfn + 1, sn) = COUNT(rx_hfn, sn) + NofSns /\ COUNT(rx_hfn, 0) \in Int
  BY <1>1, NextTurn, CountOf DEF NextRxCount
<1>5. h = (IF sn < next THEN rx_hfn + 1 ELSE rx_hfn) /\ h \in Nat
  BY <1>1 DEF HfnOf
<1>6. sn \in Int /\ next \in Int /\ NofSns \in Nat /\ 0 \in PdcpSN
  BY <1>1, SnSpace
<1> HIDE DEF d, r, h
<1>7. COUNT(h, sn) = c
  <2>1. CASE sn < next
    BY <1>2, <1>3, <1>4, <1>5, <1>6, <2>1
  <2>2. CASE ~(sn < next)
    BY <1>2, <1>3, <1>4, <1>5, <1>6, <2>2
  <2> QED
    BY <2>1, <2>2
<1>8. COUNT(IF sn = NofSns - 1 THEN h + 1 ELSE h, increment_sn(sn)) = c + 1
  <2>1. increment_sn(sn) = IF sn = NofSns - 1 THEN 0 ELSE sn + 1
    BY NextSn
  <2>2. COUNT(h, sn) = COUNT(h, 0) + sn /\ COUNT(h, 0) \in Nat
    BY <1>5, <1>6, NextTurn
  <2>3. CASE sn = NofSns - 1
    <3>1. COUNT(h + 1, 0) = COUNT(h, 0) + NofSns
      BY <1>5, <1>6, NextTurn
    <3> QED
      BY <1>6, <1>7, <2>1, <2>2, <2>3, <3>1
  <2>4. CASE sn # NofSns - 1
    <3>1. increment_sn(sn) = sn + 1 /\ sn + 1 \in PdcpSN
      BY <2>1, <2>4, NextSn
    <3>2. COUNT(h, sn + 1) = COUNT(h, 0) + (sn + 1)
      BY <1>5, <3>1, NextTurn
    <3> QED
      BY <1>6, <1>7, <2>2, <2>4, <3>1, <3>2
  <2> QED
    BY <2>3, <2>4
<1> QED
  BY <1>7, <1>8 DEF h

\* write_pdu takes the PDU for what it is: it is refused if its COUNT lies below the
\* next one, else delivered with its COUNT.
LEMMA Recognized ==
  ASSUME RxInv, bearer \in {"srb", "um", "am"}, bearer' = bearer, NEW pdu \in Pdu,
         pdu.tx_count % NofSns = pdu.sn, WritePdu(pdu),
         NextRxCount - H <= pdu.tx_count, pdu.tx_count - NextRxCount < H,
         bearer # "am" => NextRxCount <= pdu.tx_count
  PROVE  \/ /\ pdu.tx_count < NextRxCount
            /\ pdcp_refused' = pdcp_refused \cup {pdu.sdu}
            /\ UNCHANGED <<rx_hfn, next_pdcp_rx_sn, pdcp_delivered>>
         \/ /\ pdu.tx_count >= NextRxCount
            /\ NextRxCount' = pdu.tx_count + 1 /\ UNCHANGED pdcp_refused
            /\ pdcp_delivered' = Append(pdcp_delivered,
                 [sdu |-> pdu.sdu, count |-> pdu.tx_count, tx_count |-> pdu.tx_count])
<1> DEFINE r == NextRxCount
           c == pdu.tx_count
           sn == pdu.sn
           next == next_pdcp_rx_sn
           d == (sn - next) % NofSns
<1>1. c \in Nat /\ sn \in PdcpSN /\ r \in Nat /\ r % NofSns = next /\ next \in PdcpSN
  BY NextRxPlace DEF Pdu, RxInv
<1>2. H \in Nat /\ NofSns = 2 * H /\ H > 0 /\ c - r < H /\ r - H <= c /\ c % NofSns = sn
  BY SnSpace
<1>3. c - r < NofSns /\ r - c <= NofSns
  BY <1>1, <1>2
<1>4. CASE bearer = "am"
  <2>1. d = IF c >= r THEN c - r ELSE c - r + NofSns
    <3>1. c \in Int /\ r \in Int
      BY <1>1
    <3>2. c % NofSns = sn
      BY <1>2
    <3> HIDE DEF c, r, sn
    <3> QED
      BY <1>1, <1>3, <3>1, <3>2, SamePlace
  <2>2. AlreadySubmitted(sn) <=> d >= H
    <3>1. /\ last_submitted_pdcp_rx_sn \in PdcpSN
          /\ next_pdcp_rx_sn = increment_sn(last_submitted_pdcp_rx_sn)
      BY <1>4 DEF RxInv
    <3> QED
      BY <1>1, <3>1, Judged
  <2>3. HandleAmDrbPdu(pdu)
    BY <1>4 DEF WritePdu
  <2> HIDE DEF r, c, sn, d
  <2>4. d >= H <=> c < r
    BY <1>1, <1>2, <2>1
  <2>5. CASE c < r
    <3>1. AlreadySubmitted(pdu.sn)
      BY <2>2, <2>4, <2>5 DEF sn
    <3> QED
      BY <2>3, <2>5, <3>1 DEF HandleAmDrbPdu, c, r
  <2>6. CASE ~(c < r)
    <3>1. ~AlreadySubmitted(pdu.sn)
      BY <2>2, <2>4, <2>6 DEF sn
    <3>2. PICK k \in Nat : /\ k = NextRxCount + ((pdu.sn - next_pdcp_rx_sn) % NofSns)
                           /\ NextRxCount' = k + 1
                           /\ pdcp_delivered' = Append(pdcp_delivered,
                                [sdu |-> pdu.sdu, count |-> k, tx_count |-> pdu.tx_count])
      BY <1>4, <2>3, <3>1, AmPduKept
    <3>3. k = r + d
      BY <3>2 DEF r, d, sn
    <3>4. c >= r /\ k = c
      BY <1>1, <2>1, <2>6, <3>3
    <3>5. pdcp_refused' = pdcp_refused
      BY <2>3, <3>1 DEF HandleAmDrbPdu
    <3> QED
      BY <3>2, <3>4, <3>5 DEF c, r
  <2> QED
    BY <2>5, <2>6
<1>5. CASE bearer # "am"
  <2>1. c >= r
    BY <1>1, <1>5
  <2>2. /\ COUNT(HfnOf(sn), sn) = c
        /\ COUNT(IF sn = NofSns - 1 THEN HfnOf(sn) + 1 ELSE HfnOf(sn), increment_sn(sn)) = c + 1
    BY <1>1, <1>2, <1>3, <2>1, InOrderCounted
  <2>3. InOrderPdu(pdu)
    BY <1>5, <2>2 DEF WritePdu, HandleSrbPdu
  <2>4. NextRxCount' = c + 1
    BY <2>2, <2>3 DEF InOrderPdu, NextRxCount, COUNT
  <2>5. /\ pdcp_refused' = pdcp_refused
        /\ pdcp_delivered' = Append(pdcp_delivered,
              [sdu |-> pdu.sdu, count |-> c, tx_count |-> c])
    BY <2>2, <2>3 DEF InOrderPdu
  <2> QED
    BY <2>1, <2>4, <2>5
<1> QED
  BY <1>4, <1>5

\* One SDU more is delivered.
LEMMA OneMore ==
  ASSUME RxInv, CountsAgree, NEW s \in Nat, NEW c \in Nat,
         pdcp_delivered' = Append(pdcp_delivered, [sdu |-> s, count |-> c, tx_count |-> c]),
         \A i, j \in DOMAIN pdcp_delivered :
           i < j => pdcp_delivered[i].sdu < pdcp_delivered[j].sdu,
         \A d \in Delivered : d < s
  PROVE  /\ Delivered' = Delivered \cup {s} /\ CountsAgree'
         /\ \A i, j \in DOMAIN pdcp_delivered' :
              i < j => pdcp_delivered'[i].sdu < pdcp_delivered'[j].sdu
<1> DEFINE q == pdcp_delivered
           t == pdcp_delivered'
           n == Len(pdcp_delivered)
           e == [sdu |-> s, count |-> c, tx_count |-> c]
           D == [sdu : Nat, count : Nat, tx_count : Nat]
<1>1. q \in Seq(D) /\ e \in D /\ t = Append(q, e)
  BY DEF RxInv
<1>2. e.sdu = s /\ e.count = e.tx_count
  OBVIOUS
<1>3. /\ \A d \in Delivered : \E i \in DOMAIN q : d = q[i].sdu
      /\ \A i \in DOMAIN q : q[i].sdu \in Delivered
  BY DEF Delivered, DeliveredSdus
<1>4. /\ \A d \in Delivered' : \E i \in DOMAIN t : d = t[i].sdu
      /\ \A i \in DOMAIN t : t[i].sdu \in Delivered'
  BY DEF Delivered, DeliveredSdus
<1>5. \A i \in DOMAIN q : q[i].count = q[i].tx_count
  BY DEF CountsAgree
<1>6. \A i, j \in DOMAIN q : i < j => q[i].sdu < q[j].sdu
  OBVIOUS
<1> HIDE DEF q, t, e, D
<1>7. n \in Nat /\ DOMAIN q = 1 .. n /\ DOMAIN t = 1 .. n + 1 /\ t[n + 1] = e
  BY <1>1 DEF q
<1>8. \A i \in 1 .. n : t[i] = q[i]
  BY <1>1 DEF q
<1> HIDE DEF n
<1>9. ASSUME NEW i \in DOMAIN t PROVE (i \in DOMAIN q /\ t[i] = q[i]) \/ (i = n + 1 /\ t[i] = e)
  BY <1>7, <1>8
<1>10. Delivered' = Delivered \cup {s}
  <2>1. ASSUME NEW d \in Delivered' PROVE d \in Delivered \cup {s}
    BY <1>2, <1>3, <1>4, <1>9
  <2>2. ASSUME NEW d \in Delivered PROVE d \in Delivered'
    <3>1. PICK i \in DOMAIN q : d = q[i].sdu
      BY <1>3
    <3>2. i \in DOMAIN t /\ t[i] = q[i]
      BY <1>7, <1>8
    <3> QED
      BY <1>4, <3>1, <3>2
  <2>3. s \in Delivered'
    <3>1. n + 1 \in DOMAIN t
      BY <1>7
    <3> QED
      BY <1>2, <1>4, <1>7, <3>1
  <2> QED
    BY <2>1, <2>2, <2>3
<1>11. \A i \in DOMAIN t : t[i].count = t[i].tx_count
  BY <1>2, <1>5, <1>9
<1>12. ASSUME NEW i \in DOMAIN t, NEW j \in DOMAIN t, i < j PROVE t[i].sdu < t[j].sdu
  <2>1. i \in DOMAIN q /\ t[i] = q[i]
    BY <1>7, <1>8, <1>12
  <2>2. CASE j = n + 1
    BY <1>2, <1>3, <1>7, <2>1, <2>2
  <2>3. CASE j # n + 1
    <3>1. j \in DOMAIN q /\ t[j] = q[j]
      BY <1>9, <2>3
    <3> QED
      BY <1>6, <1>12, <2>1, <3>1
  <2> QED
    BY <2>2, <2>3
<1> QED
  BY <1>10, <1>11, <1>12 DEF CountsAgree, t

-----------------------------------------------------------------------------
(* The steps.                                                                  *)

\* A step of the sender leaves the receiver's view as it is.
LEMMA RxSame ==
  ASSUME CountsAgree, OnlyDuplicatesRefused,
         UNCHANGED <<rx_hfn, next_pdcp_rx_sn, pdcp_delivered, pdcp_refused>>
  PROVE  /\ NextRxCount' = NextRxCount /\ Delivered' = Delivered
         /\ CountsAgree' /\ OnlyDuplicatesRefused'
<1>1. NextRxCount' = NextRxCount
  BY DEF NextRxCount, COUNT
<1>2. Delivered' = Delivered
  BY DEF Delivered, DeliveredSdus
<1>3. CountsAgree' /\ OnlyDuplicatesRefused'
  BY <1>2 DEF CountsAgree, OnlyDuplicatesRefused
<1> QED
  BY <1>1, <1>2, <1>3

\* COUNTs stay what they are while next_pdcp_tx_sn and tx_hfn do.
LEMMA TxSame ==
  ASSUME UNCHANGED <<tx_hfn, next_pdcp_tx_sn>>
  PROVE  /\ NextTxCount' = NextTxCount /\ \A sn : CopyCount(sn)' = CopyCount(sn)
         /\ forwarded' = forwarded => Again' = Again
         /\ undelivered_sdus' = undelivered_sdus /\ uplink' = uplink => Copies' = Copies
<1>1. NextTxCount' = NextTxCount
  BY DEF NextTxCount, COUNT
<1>2. \A sn : CopyCount(sn)' = CopyCount(sn)
  BY <1>1 DEF CopyCount
<1>3. ASSUME forwarded' = forwarded PROVE Again' = Again
  BY <1>3 DEF Again, COUNT
<1>4. ASSUME undelivered_sdus' = undelivered_sdus, uplink' = uplink PROVE Copies' = Copies
  BY <1>1, <1>4 DEF Copies, CopyCount
<1> QED
  BY <1>1, <1>2, <1>3, <1>4

\* What the steps of the sender and of RLC between them leave alone.
senderHistory == <<bearer, uplink, pdcp_written, pdcp_accepted>>
receiverState == <<rx_hfn, next_pdcp_rx_sn, pdcp_delivered, pdcp_refused>>

\* Notifications, reports and the steps that do not touch any of this: copies go.
LEMMA CopiesGo ==
  ASSUME Agreement, UNCHANGED <<bearer, uplink, pdcp_accepted>>, UNCHANGED receiverState,
         \A s \in Accepted : s <= pdcp_written',
         UNCHANGED <<air, rlc_queue, forwarded, tx_hfn, next_pdcp_tx_sn, drops>>,
         Copies' \subseteq Copies
  PROVE  Agreement'
<1>1. /\ HistoryOK /\ InLine /\ InRange /\ SdusOK /\ FewMissing
      /\ CountsAgree /\ OnlyDuplicatesRefused
  BY DEF Agreement
<1>2. /\ NextRxCount' = NextRxCount /\ Delivered' = Delivered
      /\ CountsAgree' /\ OnlyDuplicatesRefused'
  BY <1>1, RxSame DEF receiverState
<1>3. NextTxCount' = NextTxCount /\ Again' = Again
  BY TxSame
<1>4. Sent' = Sent /\ Accepted' = Accepted
  BY DEF Sent, Pairs, Accepted
<1>5. HistoryOK'
  BY <1>1, <1>2, <1>4 DEF HistoryOK, receiverState
<1>6. InLine'
  BY <1>1, <1>3, <1>4 DEF InLine, Numbered, Pairs
<1>7. InRange' /\ SdusOK'
  <2>1. Known' \subseteq Known /\ Copies' \cup Again' \subseteq Copies \cup Again
    BY <1>3, <1>4 DEF Known
  <2>2. \A x \in Copies' : x[1] >= NextRxCount => x \in Sent'
    BY <1>1, <1>4 DEF SdusOK
  <2>3. uplink' = uplink
    OBVIOUS
  <2> QED
    BY <1>1, <1>2, <1>3, <1>4, <2>1, <2>2, <2>3, PairsGo
<1>8. FewMissing'
  <2>1. \A x \in Sent \cup Again : \E y \in (Sent \cup Again)' : y[1] = x[1]
    BY <1>3, <1>4
  <2>2. drops \in Nat
    BY <1>1 DEF HistoryOK
  <2> QED
    BY <1>1, <1>2, <1>3, <2>1, <2>2, NothingLost
<1> QED
  BY <1>2, <1>5, <1>6, <1>7, <1>8 DEF Agreement

\* clear_sdu takes copies out.
LEMMA Cleared ==
  ASSUME TxInv, UNCHANGED <<tx_hfn, next_pdcp_tx_sn, uplink>>,
         NEW sns, undelivered_sdus' = ClearSdus(undelivered_sdus, sns)
  PROVE  /\ Copies' \subseteq Copies
         /\ \A x \in Copies' : \E sn \in DOMAIN undelivered_sdus.sdus \ sns :
              x = <<CopyCount(sn), undelivered_sdus.sdus[sn]>>
<1> DEFINE u == undelivered_sdus
           v == undelivered_sdus'
<1>1. /\ DOMAIN v.sdus = DOMAIN u.sdus \ sns
      /\ \A sn \in DOMAIN u.sdus \ sns : v.sdus[sn] = u.sdus[sn]
  BY ClearKeepsQueue DEF TxInv
<1>2. \A sn : CopyCount(sn)' = CopyCount(sn)
  BY TxSame
<1>3. ASSUME NEW x \in Copies'
      PROVE  /\ ~uplink
             /\ \E sn \in DOMAIN u.sdus \ sns : x = <<CopyCount(sn), u.sdus[sn]>>
  <2>1. ~uplink
    BY <1>3 DEF Copies
  <2>2. PICK sn \in DOMAIN v.sdus : x = <<CopyCount(sn)', v.sdus[sn]>>
    BY <1>3 DEF Copies
  <2> HIDE DEF u, v
  <2>3. sn \in DOMAIN u.sdus \ sns /\ x = <<CopyCount(sn), u.sdus[sn]>>
    BY <1>1, <1>2, <2>2
  <2> QED
    BY <2>1, <2>3
<1>4. ASSUME NEW x \in Copies' PROVE x \in Copies
  BY <1>3 DEF Copies
<1> QED
  BY <1>3, <1>4

\* RLC starts to send a PDU.
LEMMA StartKeeps ==
  ASSUME CountInv, RlcStart
  PROVE  Agreement'
<1>1. /\ HistoryOK /\ InLine /\ InRange /\ SdusOK /\ FewMissing
      /\ CountsAgree /\ OnlyDuplicatesRefused /\ TxInv
  BY DEF CountInv, Agreement, PdcpInv
<1>2. /\ rlc_queue # << >> /\ rlc_queue' = Tail(rlc_queue) /\ air' = Append(air, Head(rlc_queue))
      /\ UNCHANGED senderHistory /\ UNCHANGED receiverState
      /\ UNCHANGED <<forwarded, undelivered_sdus, tx_hfn, next_pdcp_tx_sn, drops>>
  BY DEF RlcStart, pdcpRxVars, pdcpHistory, senderHistory, receiverState
<1>3. /\ NextRxCount' = NextRxCount /\ Delivered' = Delivered
      /\ CountsAgree' /\ OnlyDuplicatesRefused'
  BY <1>1, <1>2, RxSame DEF receiverState
<1>4. uplink' = uplink /\ Accepted' = Accepted
  BY <1>2 DEF Accepted, senderHistory
<1>5. NextTxCount' = NextTxCount /\ Again' = Again /\ Copies' = Copies
  BY <1>2, <1>4, TxSame
<1> DEFINE p == Head(rlc_queue)
           x == <<p.tx_count, p.sdu>>
<1>6. /\ p \in Pdu /\ Numbered(Tail(rlc_queue))
      /\ Pairs(rlc_queue) = Pairs(Tail(rlc_queue)) \cup {x}
      /\ \A y \in Pairs(Tail(rlc_queue)) : p.tx_count < y[1]
      /\ \E hfn \in Nat : p.tx_count = COUNT(hfn, p.sn)
  BY <1>1, <1>2, TailOf DEF InLine, TxInv
<1>7. \A y \in Pairs(air) : y[1] < p.tx_count
  <2>1. x \in Pairs(rlc_queue) /\ x[1] = p.tx_count
    BY <1>6
  <2> QED
    BY <1>1, <2>1 DEF InLine
<1>8. Numbered(Append(air, p)) /\ Pairs(Append(air, p)) = Pairs(air) \cup {x}
  BY <1>1, <1>6, <1>7, AppendTo DEF InLine, TxInv
<1>9. /\ Numbered(air') /\ Numbered(rlc_queue') /\ Pairs(air') = Pairs(air) \cup {x}
      /\ Pairs(rlc_queue') = Pairs(Tail(rlc_queue)) /\ x[1] = p.tx_count
  BY <1>2, <1>6, <1>8
<1> HIDE DEF p, x
<1>10. Sent' = Sent
  <2>1. Sent' = Pairs(air') \cup Pairs(rlc_queue')
    BY DEF Sent, Pairs
  <2> QED
    BY <1>6, <1>9, <2>1 DEF Sent
<1>11. InLine'
  <2>1. ASSUME NEW y \in Pairs(air'), NEW z \in Pairs(rlc_queue') PROVE y[1] < z[1]
    <3>1. z \in Pairs(rlc_queue) /\ p.tx_count < z[1]
      BY <1>6, <1>9
    <3>2. CASE y = x
      BY <1>9, <3>1, <3>2
    <3>3. CASE y \in Pairs(air)
      BY <1>1, <3>1, <3>3 DEF InLine
    <3> QED
      BY <1>9, <3>2, <3>3
  <2> QED
    BY <1>1, <1>2, <1>5, <1>9, <1>10, <2>1 DEF InLine, Pairs, Numbered
<1>12. HistoryOK'
  BY <1>1, <1>2, <1>3, <1>4 DEF HistoryOK, senderHistory, receiverState
<1>13. InRange' /\ SdusOK'
  <2>1. Known' \subseteq Known /\ Copies' \cup Again' \subseteq Copies \cup Again
    BY <1>5, <1>10 DEF Known
  <2>2. \A y \in Copies' : y[1] >= NextRxCount => y \in Sent'
    BY <1>1, <1>5, <1>10 DEF SdusOK
  <2> QED
    BY <1>1, <1>3, <1>4, <1>5, <2>1, <2>2, PairsGo
<1>14. FewMissing'
  <2>1. \A y \in Sent \cup Again : \E z \in (Sent \cup Again)' : z[1] = y[1]
    BY <1>5, <1>10
  <2>2. drops \in Nat /\ drops' = drops
    BY <1>1, <1>2 DEF HistoryOK
  <2> QED
    BY <1>1, <1>3, <1>5, <2>1, <2>2, NothingLost
<1> QED
  BY <1>3, <1>11, <1>12, <1>13, <1>14 DEF Agreement

\* RLC's notifications and the peer's status reports only take copies out, and sending
\* a report not even that.
LEMMA NotifyKeeps ==
  ASSUME CountInv,
         \/ RlcNotifies \/ RlcFails \/ ReceiveStatusReport \/ SendStatusReport
         \/ UNCHANGED pdcpLinkVars
  PROVE  Agreement'
<1>1. TxInv /\ Agreement /\ \A s \in Accepted : s <= pdcp_written
  BY DEF CountInv, PdcpInv, Agreement, HistoryOK
<1> USE DEF pdcpTxVars, pdcpRxVars, pdcpRlcVars, pdcpHistory, receiverState
<1>2. ASSUME NEW sns, Notify(sns), UNCHANGED pdcpHistory, UNCHANGED pdcpRxVars,
             UNCHANGED <<air, forwarded, drops>>
      PROVE  Agreement'
  <2>1. /\ UNCHANGED <<bearer, uplink, pdcp_accepted, pdcp_written>> /\ UNCHANGED receiverState
        /\ UNCHANGED <<air, rlc_queue, forwarded, tx_hfn, next_pdcp_tx_sn, drops>>
        /\ undelivered_sdus' = ClearSdus(undelivered_sdus, sns)
    BY <1>2 DEF Notify
  <2>2. Copies' \subseteq Copies
    BY <1>1, <2>1, Cleared
  <2> QED
    BY <1>1, <2>1, <2>2, CopiesGo
<1>3. CASE RlcNotifies
  BY <1>2, <1>3 DEF RlcNotifies
<1>4. CASE RlcFails
  BY <1>2, <1>4 DEF RlcFails
<1>5. CASE ReceiveStatusReport
  BY <1>2, <1>5 DEF ReceiveStatusReport, HandleStatusReport
<1>6. CASE SendStatusReport \/ UNCHANGED pdcpLinkVars
  <2>1. /\ UNCHANGED <<bearer, uplink, pdcp_accepted, pdcp_written>> /\ UNCHANGED receiverState
        /\ UNCHANGED <<air, rlc_queue, forwarded, tx_hfn, next_pdcp_tx_sn, drops>>
        /\ undelivered_sdus' = undelivered_sdus
    BY <1>6 DEF SendStatusReport, pdcpLinkVars
  <2>2. Copies' \subseteq Copies
    BY <2>1, TxSame
  <2> QED
    BY <1>1, <2>1, <2>2, CopiesGo
<1> QED
  BY <1>3, <1>4, <1>5, <1>6

\* The rest of RLC's and of the sender's steps take PDUs and SDUs to be sent again away
\* or move them; what gets lost in this is counted.
LEMMA PdusGo ==
  ASSUME Agreement, UNCHANGED senderHistory, UNCHANGED receiverState,
         UNCHANGED <<tx_hfn, next_pdcp_tx_sn>>, InLine', uplink => forwarded' = << >>,
         Known' \subseteq Known, Copies' \cup Again' \subseteq Copies \cup Again,
         \A x \in Copies' : x[1] >= NextRxCount => x \in Sent',
         drops' \in Nat, drops' <= MaxDrops,
         NEW lost, IsFiniteSet(lost), drops' >= drops + Cardinality(lost),
         \A x \in Sent \cup Again : x[1] \in lost \/ \E y \in (Sent \cup Again)' : y[1] = x[1]
  PROVE  Agreement'
<1>1. /\ HistoryOK /\ InLine /\ InRange /\ SdusOK /\ FewMissing
      /\ CountsAgree /\ OnlyDuplicatesRefused
  BY DEF Agreement
<1>2. /\ NextRxCount' = NextRxCount /\ Delivered' = Delivered
      /\ CountsAgree' /\ OnlyDuplicatesRefused'
  BY <1>1, RxSame DEF receiverState
<1>3. NextTxCount' = NextTxCount
  BY TxSame
<1>4. Accepted' = Accepted /\ uplink' = uplink
  BY DEF Accepted, senderHistory
<1>5. HistoryOK'
  BY <1>1, <1>2, <1>4 DEF HistoryOK, senderHistory, receiverState
<1>6. InRange' /\ SdusOK'
  BY <1>1, <1>2, <1>3, <1>4, PairsGo
<1>7. FewMissing'
  <2>1. drops \in Nat
    BY <1>1 DEF HistoryOK
  <2> QED
    BY <1>1, <1>2, <1>3, <2>1, LossCounted
<1> QED
  BY <1>2, <1>5, <1>6, <1>7 DEF Agreement

\* RLC UM loses the first PDU under way.
LEMMA LossKeeps ==
  ASSUME CountInv, RlcUmLoses
  PROVE  Agreement'
<1>1. HistoryOK /\ InLine /\ InRange /\ SdusOK /\ FewMissing /\ TxInv /\ Agreement
  BY DEF CountInv, Agreement, PdcpInv
<1>2. /\ air # << >> /\ air' = Tail(air) /\ drops' = drops + 1 /\ drops < MaxDrops
      /\ bearer = "um" /\ UNCHANGED senderHistory /\ UNCHANGED receiverState
      /\ UNCHANGED <<rlc_queue, forwarded, undelivered_sdus, tx_hfn, next_pdcp_tx_sn>>
  BY DEF RlcUmLoses, pdcpTxVars, pdcpRxVars, pdcpHistory, senderHistory, receiverState
<1> DEFINE p == Head(air)
           c == p.tx_count
           x == <<c, p.sdu>>
           lost == {c}
<1>3. /\ Numbered(air') /\ Pairs(air) = Pairs(air') \cup {x}
  BY <1>1, <1>2, TailOf DEF InLine, TxInv
<1>4. uplink /\ uplink' = uplink
  BY <1>1, <1>2 DEF HistoryOK, senderHistory
<1>5. Copies = {} /\ Copies' = {}
  BY <1>4 DEF Copies
<1>6. Again' = Again
  BY <1>2, TxSame
<1>7. x[1] = c
  OBVIOUS
<1>8. IsFiniteSet(lost) /\ Cardinality(lost) = 1
  BY FS_Singleton
<1>9. drops \in Nat /\ MaxDrops \in Nat
  BY <1>1, PdcpLinkAssumption DEF HistoryOK
<1>10. drops' \in Nat /\ drops' <= MaxDrops /\ drops' >= drops + Cardinality(lost)
  BY <1>2, <1>8, <1>9
<1>11. c \in lost
  OBVIOUS
<1> HIDE DEF x, c, lost
<1>12. /\ Sent = Pairs(air') \cup {x} \cup Pairs(rlc_queue)
       /\ Sent' = Pairs(air') \cup Pairs(rlc_queue)
  BY <1>2, <1>3 DEF Sent, Pairs
<1>13. Known' \subseteq Known /\ Sent' \subseteq Sent
  BY <1>5, <1>6, <1>12 DEF Known
<1>14. InLine'
  <2>1. Pairs(air') \subseteq Pairs(air) /\ rlc_queue' = rlc_queue
    BY <1>2, <1>3
  <2>2. \A y \in Pairs(air'), z \in Pairs(rlc_queue') : y[1] < z[1]
    BY <1>1, <2>1 DEF InLine
  <2>3. \A y \in Sent', z \in Again' : y[1] < z[1]
    BY <1>1, <1>6, <1>13 DEF InLine
  <2>4. Numbered(rlc_queue')
    BY <1>1, <2>1 DEF InLine
  <2> QED
    BY <1>1, <1>2, <1>3, <2>2, <2>3, <2>4 DEF InLine, Pairs, Numbered
<1>15. \A y \in Sent \cup Again : y[1] \in lost \/ \E z \in (Sent \cup Again)' : z[1] = y[1]
  BY <1>6, <1>7, <1>11, <1>12
<1>16. uplink => forwarded' = << >>
  BY <1>1, <1>2 DEF HistoryOK
<1>17. /\ Copies' \cup Again' \subseteq Copies \cup Again
       /\ \A y \in Copies' : y[1] >= NextRxCount => y \in Sent'
  BY <1>5, <1>6
<1> QED
  BY <1>1, <1>2, <1>8, <1>10, <1>13, <1>14, <1>15, <1>16, <1>17, PdusGo

\* A PDU arrives: write_pdu delivers it with the COUNT it was sent with, or discards one
\* whose SDU it has delivered before a handover.
LEMMA ArriveKeeps ==
  ASSUME CountInv, Bounded, RlcArrive
  PROVE  Agreement'
<1>1. /\ HistoryOK /\ InLine /\ InRange /\ SdusOK /\ FewMissing
      /\ CountsAgree /\ OnlyDuplicatesRefused /\ TxInv /\ RxInv
  BY DEF CountInv, Agreement, PdcpInv
<1>2. /\ air # << >> /\ air' = Tail(air) /\ WritePdu(Head(air)) /\ UNCHANGED senderHistory
      /\ UNCHANGED <<rlc_queue, forwarded, undelivered_sdus, tx_hfn, next_pdcp_tx_sn, drops>>
  BY DEF RlcArrive, pdcpTxVars, pdcpHistory, senderHistory
<1> DEFINE p == Head(air)
           c == p.tx_count
           x == <<c, p.sdu>>
           r == NextRxCount
<1>3. /\ p \in Pdu /\ Numbered(air') /\ Pairs(air) = Pairs(air') \cup {x}
      /\ \A y \in Pairs(air') : c < y[1]
      /\ \E hfn \in Nat : c = COUNT(hfn, p.sn)
  BY <1>1, <1>2, TailOf DEF InLine, TxInv
<1>4. p.sn \in PdcpSN /\ p.sdu \in Nat /\ c \in Nat /\ c % NofSns = p.sn
  <2>1. p.sn \in PdcpSN /\ p.sdu \in Nat /\ c \in Nat
    BY <1>3 DEF Pdu
  <2>2. PICK hfn \in Nat : c = COUNT(hfn, p.sn)
    BY <1>3
  <2>3. COUNT(hfn, p.sn) % NofSns = p.sn
    BY <2>1, CountOf
  <2> QED
    BY <2>1, <2>2, <2>3
<1>5. x[1] = c /\ x[2] = p.sdu /\ WritePdu(p)
  BY <1>2
<1> HIDE DEF p, c, x
<1>6. /\ NextTxCount' = NextTxCount /\ Again' = Again /\ Copies' = Copies
      /\ uplink' = uplink /\ Accepted' = Accepted /\ bearer' = bearer
  <2>1. uplink' = uplink /\ Accepted' = Accepted /\ bearer' = bearer
    BY <1>2 DEF Accepted, senderHistory
  <2> QED
    BY <1>2, <2>1, TxSame
<1>7. /\ Sent = Pairs(air') \cup {x} \cup Pairs(rlc_queue)
      /\ Sent' = Pairs(air') \cup Pairs(rlc_queue)
  BY <1>2, <1>3 DEF Sent, Pairs
<1>8. x \in Sent /\ x \in Known /\ Sent' \subseteq Sent /\ \A y \in Sent : y = x \/ y \in Sent'
  BY <1>7 DEF Known
<1>9. \A y \in Sent' \cup Again : c < y[1]
  <2>1. x \in Pairs(air)
    BY <1>3
  <2>2. \A y \in Pairs(rlc_queue) : c < y[1]
    BY <1>1, <1>5, <2>1 DEF InLine
  <2>3. \A y \in Again : c < y[1]
    BY <1>1, <1>5, <1>8 DEF InLine
  <2> QED
    BY <1>3, <1>7, <2>2, <2>3
<1>10. r \in Nat /\ drops \in Nat /\ drops' = drops /\ drops <= MaxDrops /\ MaxDrops < H
       /\ MaxDrops \in Nat /\ H \in Nat
  BY <1>1, <1>2, NextRxPlace, PdcpLinkAssumption, SnSpace DEF HistoryOK, Bounded
<1>11. c - r <= drops
  <2>1. ASSUME NEW y \in Sent \cup Again PROVE x[1] <= y[1]
    <3>1. y \in Known
      BY DEF Known
    <3>2. y[1] \in Int
      BY <1>1, <3>1, KnownTypes
    <3>3. y = x \/ c < y[1]
      BY <1>8, <1>9
    <3> QED
      BY <1>4, <1>5, <3>2, <3>3
  <2> QED
    BY <1>1, <1>5, <1>8, <1>10, <2>1, NotFar
<1>12. c - r < H
  BY <1>4, <1>10, <1>11
<1>13. r - H <= c /\ (uplink => r <= c) /\ (bearer # "am" => r <= c)
  BY <1>1, <1>5, <1>8 DEF InRange, HistoryOK
<1>14. InLine'
  <2>1. Pairs(air') \subseteq Pairs(air) /\ rlc_queue' = rlc_queue
    BY <1>2, <1>3
  <2>2. \A y \in Pairs(air'), z \in Pairs(rlc_queue') : y[1] < z[1]
    BY <1>1, <2>1 DEF InLine
  <2>3. \A y \in Sent', z \in Again' : y[1] < z[1]
    BY <1>1, <1>6, <1>8 DEF InLine
  <2>4. Numbered(rlc_queue')
    BY <1>1, <2>1 DEF InLine
  <2> QED
    BY <1>1, <1>2, <1>3, <2>2, <2>3, <2>4 DEF InLine, Pairs, Numbered
<1>15. \/ /\ c < r
          /\ pdcp_refused' = pdcp_refused \cup {p.sdu}
          /\ UNCHANGED <<rx_hfn, next_pdcp_rx_sn, pdcp_delivered>>
       \/ /\ c >= r
          /\ NextRxCount' = c + 1 /\ UNCHANGED pdcp_refused
          /\ pdcp_delivered' = Append(pdcp_delivered,
               [sdu |-> p.sdu, count |-> c, tx_count |-> c])
  <2>1. bearer \in {"srb", "um", "am"} /\ p.tx_count % NofSns = p.sn
    BY <1>1, <1>4 DEF TxInv, c
  <2>2. /\ NextRxCount - H <= p.tx_count /\ p.tx_count - NextRxCount < H
        /\ bearer # "am" => NextRxCount <= p.tx_count
    BY <1>12, <1>13 DEF c
  <2> QED
    BY <1>1, <1>3, <1>5, <1>6, <2>1, <2>2, Recognized DEF c
<1>16. CASE /\ c < r
            /\ pdcp_refused' = pdcp_refused \cup {p.sdu}
            /\ UNCHANGED <<rx_hfn, next_pdcp_rx_sn, pdcp_delivered>>
  <2>1. NextRxCount' = NextRxCount /\ Delivered' = Delivered /\ CountsAgree'
    BY <1>1, <1>16 DEF NextRxCount, COUNT, Delivered, DeliveredSdus, CountsAgree
  <2>2. OnlyDuplicatesRefused'
    <3>1. p.sdu \in Delivered
      BY <1>1, <1>5, <1>8, <1>16 DEF SdusOK
    <3> QED
      BY <1>1, <1>16, <2>1, <3>1 DEF OnlyDuplicatesRefused
  <2>3. HistoryOK'
    BY <1>1, <1>2, <1>6, <1>16, <2>1 DEF HistoryOK, senderHistory
  <2>4. ASSUME NEW y \in Copies', y[1] >= NextRxCount PROVE y \in Sent'
    <3>1. y \in Sent
      BY <1>1, <1>6, <2>4 DEF SdusOK
    <3>2. ~(x[1] >= NextRxCount)
      BY <1>4, <1>5, <1>10, <1>16
    <3> QED
      BY <1>8, <2>4, <3>1, <3>2
  <2>5. Known' \subseteq Known /\ Copies' \cup Again' \subseteq Copies \cup Again
    BY <1>6, <1>8 DEF Known
  <2>6. InRange' /\ SdusOK'
    BY <1>1, <1>6, <2>1, <2>4, <2>5, PairsGo
  <2>7. FewMissing'
    <3>1. ASSUME NEW k \in Missing' PROVE k \in Missing
      <4>1. /\ k \in NextRxCount .. NextTxCount - 1
            /\ \A y \in Sent' \cup Again : y[1] # k
        BY <1>6, <2>1 DEF Missing
      <4>2. k # x[1]
        BY <1>4, <1>5, <1>10, <1>16, <4>1
      <4>3. \A y \in Sent \cup Again : y[1] # k
        BY <1>8, <4>1, <4>2
      <4> QED
        BY <4>1, <4>3 DEF Missing
    <3> QED
      BY <1>1, <1>10, <3>1, FewerMissing
  <2> QED
    BY <1>14, <2>1, <2>2, <2>3, <2>6, <2>7 DEF Agreement
<1>17. CASE /\ c >= r
            /\ NextRxCount' = c + 1 /\ UNCHANGED pdcp_refused
            /\ pdcp_delivered' = Append(pdcp_delivered,
                 [sdu |-> p.sdu, count |-> c, tx_count |-> c])
  <2>1. \A d \in Delivered : d < p.sdu
    BY <1>1, <1>5, <1>8, <1>17 DEF SdusOK
  <2>2. /\ Delivered' = Delivered \cup {p.sdu} /\ CountsAgree'
        /\ \A i, j \in DOMAIN pdcp_delivered' :
             i < j => pdcp_delivered'[i].sdu < pdcp_delivered'[j].sdu
    BY <1>1, <1>4, <1>17, <2>1, OneMore DEF HistoryOK
  <2>3. OnlyDuplicatesRefused'
    BY <1>1, <1>17, <2>2 DEF OnlyDuplicatesRefused
  <2>4. p.sdu \in Accepted
    BY <1>1, <1>5, <1>8 DEF SdusOK
  <2>5. HistoryOK'
    BY <1>1, <1>2, <1>6, <2>2, <2>4 DEF HistoryOK, senderHistory
  <2>6. uplink => Copies = {}
    BY DEF Copies
  <2>7. InRange' /\ SdusOK' /\ FewMissing'
    BY <1>1, <1>5, <1>6, <1>8, <1>9, <1>10, <1>17, <2>2, <2>6, PairArrives
  <2> QED
    BY <1>14, <2>2, <2>3, <2>5, <2>7 DEF Agreement
<1> QED
  BY <1>15, <1>16, <1>17

\* The list of a set has all of its members.
LEMMA AllListed ==
  ASSUME NEW ns, IsFiniteSet(ns), NEW l \in Ascending(ns), NEW n \in ns
  PROVE  \E i \in DOMAIN l : l[i] = n
<1> DEFINE D == 1 .. Cardinality(ns)
<1>1. Cardinality(ns) \in Nat
  BY FS_CardinalityType
<1>2. l \in [D -> ns] /\ \A i, j \in D : i # j => l[i] # l[j]
  BY DEF Ascending, SetToSeqs
<1>3. IsFiniteSet(D) /\ Cardinality(D) = Cardinality(ns)
  BY <1>1, FS_Interval
<1> HIDE DEF D
<1>4. l \in Injection(D, ns)
  BY <1>2 DEF Injection, IsInjective
<1>5. l \in Surjection(D, ns)
  BY <1>3, <1>4, FS_Injection
<1> QED
  BY <1>2, <1>5 DEF Surjection

\* All PDUs of a list, and their number.
LEMMA AllCounts ==
  ASSUME NEW q \in Seq(Pdu)
  PROVE  /\ IsFiniteSet(CountsAt(q, DOMAIN q)) /\ Cardinality(CountsAt(q, DOMAIN q)) <= Len(q)
         /\ Cardinality(CountsAt(q, DOMAIN q)) \in Nat /\ Len(q) \in Nat
         /\ \A x \in Pairs(q) : x[1] \in CountsAt(q, DOMAIN q)
<1>1. Len(q) \in Nat /\ DOMAIN q = 1 .. Len(q)
  OBVIOUS
<1>2. IsFiniteSet(DOMAIN q) /\ Cardinality(DOMAIN q) = Len(q)
  <2> DEFINE n == Len(q)
  <2>1. n \in Nat
    BY <1>1
  <2> HIDE DEF n
  <2>2. IsFiniteSet(1 .. n) /\ Cardinality(1 .. n) = n
    BY <2>1, FS_Interval
  <2> QED
    BY <1>1, <2>2 DEF n
<1>3. \A x \in Pairs(q) : x[1] \in CountsAt(q, DOMAIN q)
  BY DEF Pairs, CountsAt
<1> QED
  BY <1>1, <1>2, <1>3, CountsFew

\* set_bearer_state after a re-establishment: both RLCs start afresh, and nobody sends
\* again what was under way.
LEMMA FreshKeeps ==
  ASSUME CountInv, ReplaceReceiver \/ ReestablishSender
  PROVE  Agreement'
<1>1. HistoryOK /\ InLine /\ InRange /\ SdusOK /\ FewMissing /\ TxInv /\ Agreement
  BY DEF CountInv, Agreement, PdcpInv
<1>2. /\ air' = << >> /\ rlc_queue' = << >> /\ forwarded = << >> /\ forwarded' = << >>
      /\ drops' = drops + Len(rlc_queue) + Len(air) /\ drops' <= MaxDrops
      /\ UNCHANGED senderHistory /\ UNCHANGED receiverState
      /\ UNCHANGED <<tx_hfn, next_pdcp_tx_sn>>
  BY DEF ReplaceReceiver, ReestablishSender, Replace, TxSetBearerState, RxSetBearerState,
         pdcpRxVars, pdcpHistory, senderHistory, receiverState
<1>3. uplink' = uplink /\ (uplink \/ undelivered_sdus' = NoSdus)
  BY DEF ReplaceReceiver, ReestablishSender, TxSetBearerState, pdcpHistory
<1>4. Copies' = {}
  BY <1>3 DEF Copies, NoSdus
<1>5. Again = {} /\ Again' = {}
  BY <1>2 DEF Again
<1>6. Sent' = {}
  BY <1>2, EmptyLine DEF Sent, Pairs
<1> DEFINE A == CountsAt(air, DOMAIN air)
           Q == CountsAt(rlc_queue, DOMAIN rlc_queue)
           lost == A \cup Q
<1>7. /\ IsFiniteSet(A) /\ Cardinality(A) <= Len(air) /\ Cardinality(A) \in Nat
      /\ Len(air) \in Nat /\ \A x \in Pairs(air) : x[1] \in A
  BY <1>1, AllCounts DEF TxInv
<1>8. /\ IsFiniteSet(Q) /\ Cardinality(Q) <= Len(rlc_queue) /\ Cardinality(Q) \in Nat
      /\ Len(rlc_queue) \in Nat /\ \A x \in Pairs(rlc_queue) : x[1] \in Q
  BY <1>1, AllCounts DEF TxInv
<1>9. \A x \in Sent \cup Again : x[1] \in lost
  BY <1>5, <1>7, <1>8 DEF Sent
<1> HIDE DEF A, Q
<1>10. /\ IsFiniteSet(lost)
       /\ Cardinality(lost) = Cardinality(A) + Cardinality(Q) - Cardinality(A \cap Q)
  BY <1>7, <1>8, FS_Union
<1>11. Cardinality(A \cap Q) \in Nat
  <2>1. A \cap Q \in SUBSET A
    OBVIOUS
  <2>2. IsFiniteSet(A \cap Q)
    BY <1>7, <2>1, FS_Subset
  <2> QED
    BY <2>2, FS_CardinalityType
<1>12. drops \in Nat
  BY <1>1 DEF HistoryOK
<1> HIDE DEF lost
<1>13. drops' \in Nat /\ drops' >= drops + Cardinality(lost)
  <2> DEFINE a == Len(air)
             q == Len(rlc_queue)
             d == drops'
             k == Cardinality(A)
             l == Cardinality(Q)
             m == Cardinality(A \cap Q)
             n == Cardinality(lost)
  <2>1. /\ a \in Nat /\ q \in Nat /\ k \in Nat /\ l \in Nat /\ m \in Nat
        /\ k <= a /\ l <= q /\ n = k + l - m /\ d = drops + q + a
    BY <1>2, <1>7, <1>8, <1>10, <1>11
  <2> HIDE DEF a, q, d, k, l, m, n
  <2>2. d \in Nat /\ d >= drops + n
    BY <1>12, <2>1
  <2> QED
    BY <2>2 DEF d, n
<1>14. InLine'
  BY <1>2, <1>5, <1>6, EmptyLine DEF InLine, Pairs, Numbered
<1>15. /\ Known' \subseteq Known /\ Copies' \cup Again' \subseteq Copies \cup Again
       /\ \A x \in Copies' : x[1] >= NextRxCount => x \in Sent'
  BY <1>4, <1>5, <1>6 DEF Known
<1> QED
  BY <1>1, <1>2, <1>9, <1>10, <1>13, <1>14, <1>15, PdusGo

\* reestablish of an SRB or a DRB on RLC UM: both ends start again from COUNT 0.
LEMMA ReestablishKeeps ==
  ASSUME CountInv, ReestablishBoth
  PROVE  Agreement'
<1>1. /\ HistoryOK /\ CountsAgree /\ OnlyDuplicatesRefused
  BY DEF CountInv, Agreement
<1>2. /\ bearer # "am" /\ air' = << >> /\ rlc_queue' = << >> /\ UNCHANGED senderHistory
      /\ UNCHANGED <<forwarded, drops, pdcp_delivered, pdcp_refused>>
      /\ next_pdcp_tx_sn' = 0 /\ tx_hfn' = 0 /\ next_pdcp_rx_sn' = 0 /\ rx_hfn' = 0
  BY DEF ReestablishBoth, TxReestablish, RxReestablish, pdcpHistory, senderHistory
<1>3. uplink' /\ forwarded' = << >> /\ drops' \in Nat
  BY <1>1, <1>2 DEF HistoryOK, senderHistory
<1>4. Copies' = {} /\ Again' = {} /\ Sent' = {}
  BY <1>2, <1>3, EmptyLine DEF Copies, Again, Sent, Pairs
<1>5. Known' = {}
  BY <1>4 DEF Known
<1>6. NextTxCount' = 0 /\ NextRxCount' = 0
  <2>1. 0 * NofSns + 0 = 0
    BY SnSpace
  <2> QED
    BY <1>2, <2>1 DEF NextTxCount, NextRxCount, COUNT
<1>7. InLine'
  BY <1>2, <1>3, <1>4, EmptyLine DEF InLine, Pairs, Numbered
<1>8. InRange' /\ SdusOK'
  BY <1>4, <1>5, <1>6 DEF InRange, SdusOK
<1>9. FewMissing'
  <2>1. Missing' = {}
    BY <1>6 DEF Missing
  <2>2. IsFiniteSet({}) /\ Cardinality({}) = 0
    BY FS_EmptySet, Zenon
  <2> QED
    BY <1>3, <2>1, <2>2 DEF FewMissing
<1>10. Accepted' = Accepted /\ Delivered' = Delivered
  BY <1>2 DEF Accepted, Delivered, DeliveredSdus, senderHistory
<1>11. HistoryOK'
  BY <1>1, <1>2, <1>10 DEF HistoryOK, senderHistory
<1>12. CountsAgree' /\ OnlyDuplicatesRefused'
  BY <1>1, <1>2, <1>10 DEF CountsAgree, OnlyDuplicatesRefused
<1> QED
  BY <1>7, <1>8, <1>9, <1>11, <1>12 DEF Agreement

\* PDUs under way and PDUs queued in one list.
LEMMA OneLine ==
  ASSUME NEW p \in Seq(Pdu), NEW q \in Seq(Pdu)
  PROVE  /\ IsFiniteSet(DOMAIN (p \o q))
         /\ \A x \in Pairs(p) \cup Pairs(q) : \E i \in DOMAIN (p \o q) :
              x = <<(p \o q)[i].tx_count, (p \o q)[i].sdu>>
<1> DEFINE m == Len(p)
           n == Len(q)
           l == p \o q
<1>1. m \in Nat /\ n \in Nat /\ DOMAIN p = 1 .. m /\ DOMAIN q = 1 .. n
  OBVIOUS
<1>2. l \in Seq(Pdu) /\ Len(l) = m + n
  OBVIOUS
<1>3. DOMAIN l = 1 .. m + n
  BY <1>2
<1>4. \A i \in 1 .. m : l[i] = p[i]
  OBVIOUS
<1>5. \A i \in 1 .. n : l[m + i] = q[i]
  OBVIOUS
<1> HIDE DEF l, m, n
<1>6. IsFiniteSet(DOMAIN l)
  <2>1. 1 \in Int /\ m + n \in Int
    BY <1>1
  <2> QED
    BY <1>3, <2>1, FS_Interval
<1>7. ASSUME NEW x \in Pairs(p) PROVE \E i \in DOMAIN l : x = <<l[i].tx_count, l[i].sdu>>
  <2>1. PICK i \in DOMAIN p : x = <<p[i].tx_count, p[i].sdu>>
    BY <1>7, PairOfPdu
  <2>2. i \in DOMAIN l /\ l[i] = p[i]
    BY <1>1, <1>3, <1>4
  <2> QED
    BY <2>1, <2>2
<1>8. ASSUME NEW x \in Pairs(q) PROVE \E i \in DOMAIN l : x = <<l[i].tx_count, l[i].sdu>>
  <2>1. PICK i \in DOMAIN q : x = <<q[i].tx_count, q[i].sdu>>
    BY <1>8, PairOfPdu
  <2>2. m + i \in DOMAIN l /\ l[m + i] = q[i]
    BY <1>1, <1>3, <1>5
  <2> QED
    BY <2>1, <2>2
<1> QED
  BY <1>6, <1>7, <1>8 DEF l

\* Handover: the copies that get_buffered_pdus returns are to be sent again, with the
\* COUNTs they had.  What is under way and has no copy is lost.
LEMMA HandOverKeeps ==
  ASSUME CountInv, Bounded, HandOverSender
  PROVE  Agreement'
<1>1. HistoryOK /\ InLine /\ InRange /\ SdusOK /\ FewMissing /\ TxInv /\ Agreement
  BY DEF CountInv, Agreement, PdcpInv
<1> DEFINE sdus == undelivered_sdus.sdus
           line == air \o rlc_queue
           I == {i \in DOMAIN line : ~Holds(undelivered_sdus, line[i].sdu)}
           lost == CountsAt(line, I)
<1>2. /\ air' = << >> /\ rlc_queue' = << >> /\ forwarded = << >> /\ undelivered_sdus' = NoSdus
      /\ drops' = drops + Cardinality(I) /\ drops' <= MaxDrops /\ ~uplink
      /\ UNCHANGED senderHistory /\ UNCHANGED receiverState
      /\ UNCHANGED <<tx_hfn, next_pdcp_tx_sn>>
  BY DEF HandOverSender, Replace, TxSetBearerState, pdcpRxVars, pdcpHistory, senderHistory,
         receiverState
<1>3. \A sn \in DOMAIN sdus : sn < next_pdcp_tx_sn
  BY DEF HandOverSender, Bounded
<1>4. PICK sns \in Ascending(DOMAIN sdus) :
        forwarded' = [i \in DOMAIN sns |-> <<sns[i], sdus[sns[i]]>>]
  BY DEF HandOverSender
<1>5. DOMAIN sdus \subseteq PdcpSN /\ \A sn \in DOMAIN sdus : sdus[sn] \in Nat
  BY <1>1 DEF TxInv, QueueOK
<1>6. IsFiniteSet(DOMAIN sdus)
  <2>1. IsFiniteSet(PdcpSN)
    BY SnSpace, FS_Interval
  <2> QED
    BY <1>5, <2>1, FS_Subset
<1>7. /\ \A i \in DOMAIN sns : sns[i] \in DOMAIN sdus
      /\ \A i, j \in DOMAIN sns : i < j => sns[i] < sns[j]
      /\ \A sn \in DOMAIN sdus : \E i \in DOMAIN sns : sns[i] = sn
  <2>1. sns \in Seq(DOMAIN sdus) /\ \A i, j \in DOMAIN sns : i < j => sns[i] < sns[j]
    BY <1>6, AscendingList
  <2>2. \A i \in DOMAIN sns : sns[i] \in DOMAIN sdus
    BY <2>1
  <2>3. ASSUME NEW sn \in DOMAIN sdus PROVE \E i \in DOMAIN sns : sns[i] = sn
    BY <1>6, AllListed
  <2> QED
    BY <2>1, <2>2, <2>3
<1>8. tx_hfn' = tx_hfn /\ next_pdcp_tx_sn' = next_pdcp_tx_sn
  BY <1>2
<1>9. \A sn \in DOMAIN sdus : CopyCount(sn) = COUNT(tx_hfn, sn) /\ CopyCount(sn) \in Int
  <2>1. ASSUME NEW sn \in DOMAIN sdus
        PROVE  CopyCount(sn) = COUNT(tx_hfn, sn) /\ CopyCount(sn) \in Int
    <3>1. sn \in PdcpSN /\ sn < next_pdcp_tx_sn /\ next_pdcp_tx_sn \in PdcpSN /\ tx_hfn \in Nat
      BY <1>1, <1>3, <1>5 DEF TxInv
    <3>2. sn <= next_pdcp_tx_sn
      BY <3>1, SnSpace
    <3> QED
      BY <3>1, <3>2, CopyPlace
  <2> QED
    BY <2>1
<1>10. Copies = {<<CopyCount(sn), sdus[sn]>> : sn \in DOMAIN sdus}
  BY <1>2 DEF Copies
<1>11. DOMAIN forwarded' = DOMAIN sns
  BY <1>4
<1>12. \A i \in DOMAIN sns : forwarded'[i][1] = sns[i] /\ forwarded'[i][2] = sdus[sns[i]]
  BY <1>4
<1>13. Again' = {<<COUNT(tx_hfn, sns[i]), sdus[sns[i]]>> : i \in DOMAIN sns}
  BY <1>8, <1>11, <1>12 DEF Again, COUNT
<1> HIDE DEF sdus
<1>14. Again' = Copies
  <2>1. ASSUME NEW x \in Again' PROVE x \in Copies
    <3>1. PICK i \in DOMAIN sns : x = <<COUNT(tx_hfn, sns[i]), sdus[sns[i]]>>
      BY <1>13
    <3> QED
      BY <1>7, <1>9, <1>10, <3>1
  <2>2. ASSUME NEW x \in Copies PROVE x \in Again'
    <3>1. PICK sn \in DOMAIN sdus : x = <<CopyCount(sn), sdus[sn]>>
      BY <1>10
    <3>2. PICK i \in DOMAIN sns : sns[i] = sn
      BY <1>7
    <3>3. x = <<COUNT(tx_hfn, sns[i]), sdus[sns[i]]>>
      BY <1>9, <3>1, <3>2
    <3> QED
      BY <1>13, <3>3
  <2> QED
    BY <2>1, <2>2
<1>15. Copies' = {} /\ Sent' = {} /\ Again = {}
  <2>1. Copies' = {}
    BY <1>2 DEF Copies, NoSdus
  <2>2. Sent' = {}
    BY <1>2, EmptyLine DEF Sent, Pairs
  <2>3. Again = {}
    BY <1>2 DEF Again
  <2> QED
    BY <2>1, <2>2, <2>3
<1>16. InLine'
  <2>1. \A i, j \in DOMAIN forwarded' : i < j => forwarded'[i][1] < forwarded'[j][1]
    BY <1>7, <1>11, <1>12
  <2>2. \A i \in DOMAIN forwarded' : forwarded'[i][1] < next_pdcp_tx_sn'
    BY <1>3, <1>7, <1>8, <1>11, <1>12 DEF sdus
  <2>3. Pairs(air)' = {} /\ Numbered(air)' /\ Numbered(rlc_queue)'
    BY <1>2, EmptyLine DEF Pairs, Numbered
  <2> QED
    BY <1>15, <2>1, <2>2, <2>3 DEF InLine
<1>17. /\ IsFiniteSet(DOMAIN line)
       /\ \A x \in Sent : \E i \in DOMAIN line : x = <<line[i].tx_count, line[i].sdu>>
  BY <1>1, OneLine DEF TxInv, Sent
<1>18. IsFiniteSet(I) /\ Cardinality(I) \in Nat
  <2>1. I \in SUBSET DOMAIN line
    OBVIOUS
  <2>2. IsFiniteSet(I)
    BY <1>17, <2>1, FS_Subset
  <2> QED
    BY <2>2, FS_CardinalityType
<1>19. /\ IsFiniteSet(lost) /\ Cardinality(lost) <= Cardinality(I)
       /\ Cardinality(lost) \in Nat
  BY <1>18, CountsFew
<1> HIDE DEF I, line
<1>20. drops' \in Nat /\ drops' >= drops + Cardinality(lost)
  <2>1. drops \in Nat
    BY <1>1 DEF HistoryOK
  <2> HIDE DEF lost
  <2> QED
    BY <1>2, <1>18, <1>19, <2>1
<1>21. ASSUME NEW x \in Sent PROVE x[1] \in lost \/ \E y \in Again' : y[1] = x[1]
  <2>1. PICK i \in DOMAIN line : x = <<line[i].tx_count, line[i].sdu>>
    BY <1>17
  <2>2. CASE i \in I
    BY <2>1, <2>2 DEF CountsAt
  <2>3. CASE i \notin I
    <3>1. PICK sn \in DOMAIN sdus : sdus[sn] = line[i].sdu
      BY <2>3 DEF I, Holds, sdus
    <3> DEFINE y == <<CopyCount(sn), sdus[sn]>>
    <3>2. y \in Copies /\ y[2] = x[2]
      BY <1>10, <2>1, <3>1
    <3>3. x \in Known /\ y \in Known
      BY <3>2 DEF Known
    <3> HIDE DEF y
    <3>4. x[1] \in Int /\ y[1] \in Int /\ x[2] \in Nat
      BY <1>1, <3>3, KnownTypes
    <3>5. (x[1] < y[1] => x[2] < y[2]) /\ (y[1] < x[1] => y[2] < x[2])
      BY <1>1, <3>3 DEF SdusOK
    <3>6. x[1] = y[1]
      BY <3>2, <3>4, <3>5
    <3> QED
      BY <1>14, <3>2, <3>6
  <2> QED
    BY <2>2, <2>3
<1> HIDE DEF lost
<1>22. \A x \in Sent \cup Again : x[1] \in lost \/ \E y \in (Sent \cup Again)' : y[1] = x[1]
  BY <1>15, <1>21
<1>23. /\ Known' \subseteq Known /\ Copies' \cup Again' \subseteq Copies \cup Again
       /\ \A x \in Copies' : x[1] >= NextRxCount => x \in Sent'
  BY <1>14, <1>15 DEF Known
<1> QED
  BY <1>1, <1>2, <1>16, <1>19, <1>20, <1>22, <1>23, PdusGo

\* discard_sdu of RLC takes the PDUs with one SN out of its queue.
LEMMA DiscardsOne ==
  ASSUME rlc_queue \in Seq(Pdu), Numbered(rlc_queue), NEW sn, RlcDiscards(sn), NEW J,
         J = {i \in DOMAIN rlc_queue : rlc_queue[i].sn = sn}
  PROVE  /\ Numbered(rlc_queue') /\ Pairs(rlc_queue') \subseteq Pairs(rlc_queue)
         /\ \A i \in DOMAIN rlc_queue \ J :
              <<rlc_queue[i].tx_count, rlc_queue[i].sdu>> \in Pairs(rlc_queue')
         /\ IsFiniteSet(J) /\ Cardinality(J) \in Nat
         /\ Len(rlc_queue) \in Nat /\ Len(rlc_queue') \in Nat
         /\ Cardinality(J) = Len(rlc_queue) - Len(rlc_queue')
<1> DEFINE q == rlc_queue
           t == rlc_queue'
           D == DOMAIN q
           I == {i \in D : q[i].sn # sn}
           n == Len(q)
<1>1. PICK f \in Ascending(I) : t = [k \in DOMAIN f |-> q[f[k]]]
  BY DEF RlcDiscards
<1>2. n \in Nat /\ D = 1 .. n
  OBVIOUS
<1> HIDE DEF n
<1>3. IsFiniteSet(D) /\ Cardinality(D) = n
  BY <1>2, FS_Interval
<1>4. I \in SUBSET D /\ J = D \ I /\ D \cap I = I
  OBVIOUS
<1> HIDE DEF I
<1>5. IsFiniteSet(I) /\ Cardinality(I) \in Nat
  BY <1>3, <1>4, FS_Subset, FS_CardinalityType
<1>6. IsFiniteSet(J) /\ Cardinality(J) = n - Cardinality(I)
  <2> HIDE DEF D
  <2>1. IsFiniteSet(D \ I) /\ Cardinality(D \ I) = Cardinality(D) - Cardinality(D \cap I)
    BY <1>3, FS_Difference
  <2> QED
    BY <1>3, <1>4, <2>1
<1>7. Cardinality(J) \in Nat
  BY <1>6, FS_CardinalityType
<1>8. /\ Len(f) = Cardinality(I) /\ Len(f) \in Nat /\ DOMAIN f = 1 .. Len(f) /\ f \in Seq(I)
      /\ \A i, j \in DOMAIN f : i < j => f[i] < f[j]
  BY <1>5, AscendingList
<1>9. \A k \in DOMAIN f : f[k] \in I /\ f[k] \in D
  <2>1. \A k \in DOMAIN f : f[k] \in I
    BY <1>8
  <2> QED
    BY <1>4, <2>1
<1>10. \A i \in I : \E k \in DOMAIN f : f[k] = i
  BY <1>5, AllListed
<1> HIDE DEF q, t, D
<1>11. DOMAIN t = DOMAIN f /\ \A k \in DOMAIN f : t[k] = q[f[k]]
  BY <1>1
<1>12. Len(t) = Cardinality(I)
  <2>1. DOMAIN t = 1 .. Len(f) /\ Len(f) \in Nat
    BY <1>8, <1>11
  <2>2. \A k \in 1 .. Len(f) : q[f[k]] \in Pdu
    BY <1>8, <1>9 DEF q, D
  <2>3. t \in [1 .. Len(f) -> Pdu]
    BY <1>1, <1>8, <2>2
  <2>4. t \in Seq(Pdu)
    BY <2>1, <2>3, SeqDef
  <2>5. Len(t) \in Nat /\ DOMAIN t = 1 .. Len(t)
    BY <2>4, LenProperties
  <2>6. Len(t) = Len(f)
    <3> DEFINE k == Len(t)
               m == Len(f)
    <3>1. k \in Nat /\ m \in Nat /\ 1 .. k = 1 .. m
      BY <2>1, <2>5
    <3> HIDE DEF k, m
    <3>2. k \in 1 .. k => k <= m
      BY <3>1
    <3>3. m \in 1 .. m => m <= k
      BY <3>1
    <3>4. k = m
      BY <3>1, <3>2, <3>3
    <3> QED
      BY <3>4 DEF k, m
  <2> QED
    BY <1>8, <2>6
<1>13. Numbered(t)
  <2>1. ASSUME NEW k \in DOMAIN t
        PROVE  /\ \E hfn \in Nat : t[k].tx_count = COUNT(hfn, t[k].sn)
               /\ \A m \in DOMAIN t : k < m => t[k].tx_count < t[m].tx_count
    <3>1. f[k] \in DOMAIN rlc_queue /\ t[k] = rlc_queue[f[k]]
      BY <1>9, <1>11 DEF D, q
    <3>2. ASSUME NEW m \in DOMAIN t, k < m PROVE t[k].tx_count < t[m].tx_count
      <4>1. f[m] \in DOMAIN rlc_queue /\ t[m] = rlc_queue[f[m]] /\ f[k] < f[m]
        BY <1>8, <1>9, <1>11, <3>2 DEF D, q
      <4> QED
        BY <3>1, <4>1 DEF Numbered
    <3> QED
      BY <3>1, <3>2 DEF Numbered
  <2> QED
    BY <2>1 DEF Numbered
<1>14. Pairs(t) \subseteq Pairs(q)
  BY <1>9, <1>11 DEF Pairs, D
<1>15. ASSUME NEW i \in D \ J PROVE <<q[i].tx_count, q[i].sdu>> \in Pairs(t)
  <2>1. i \in I
    BY <1>4
  <2>2. PICK k \in DOMAIN f : f[k] = i
    BY <1>10, <2>1
  <2>3. k \in DOMAIN t /\ t[k] = q[i]
    BY <1>11, <2>2
  <2> QED
    BY <2>3 DEF Pairs
<1> QED
  BY <1>2, <1>5, <1>6, <1>7, <1>12, <1>13, <1>14, <1>15 DEF q, t, D, n

\* discard_callback: the copy goes, and the PDU if RLC has not begun to send it.
LEMMA DiscardKept ==
  ASSUME CountInv, SduDiscarded
  PROVE  Agreement'
<1>1. HistoryOK /\ InLine /\ InRange /\ SdusOK /\ FewMissing /\ TxInv /\ Agreement
  BY DEF CountInv, Agreement, PdcpInv
<1>2. PICK sn \in DOMAIN undelivered_sdus.sdus :
        /\ RlcDiscards(sn)
        /\ undelivered_sdus' = ClearSdus(undelivered_sdus, {sn})
        /\ UNCHANGED <<bearer, next_pdcp_tx_sn, tx_hfn>>
  BY DEF SduDiscarded, DiscardTimerExpires
<1>3. /\ UNCHANGED senderHistory /\ UNCHANGED receiverState /\ UNCHANGED <<air, forwarded>>
      /\ drops' = drops + Len(rlc_queue) - Len(rlc_queue') /\ drops' <= MaxDrops
  BY <1>2 DEF SduDiscarded, pdcpRxVars, pdcpHistory, senderHistory, receiverState
<1> DEFINE J == {i \in DOMAIN rlc_queue : rlc_queue[i].sn = sn}
           lost == CountsAt(rlc_queue, J)
<1>4. /\ Numbered(rlc_queue') /\ Pairs(rlc_queue') \subseteq Pairs(rlc_queue)
      /\ \A i \in DOMAIN rlc_queue \ J :
           <<rlc_queue[i].tx_count, rlc_queue[i].sdu>> \in Pairs(rlc_queue')
      /\ IsFiniteSet(J) /\ Cardinality(J) \in Nat
      /\ Len(rlc_queue) \in Nat /\ Len(rlc_queue') \in Nat
      /\ Cardinality(J) = Len(rlc_queue) - Len(rlc_queue')
  BY <1>1, <1>2, DiscardsOne DEF InLine, TxInv
<1>5. /\ IsFiniteSet(lost) /\ Cardinality(lost) <= Cardinality(J) /\ Cardinality(lost) \in Nat
  BY <1>4, CountsFew
<1>6. drops' \in Nat /\ drops' >= drops + Cardinality(lost)
  <2> DEFINE a == Len(rlc_queue)
             b == Len(rlc_queue')
             d == drops'
             j == Cardinality(J)
             l == Cardinality(lost)
  <2>1. /\ a \in Nat /\ b \in Nat /\ j \in Nat /\ l \in Nat /\ j = a - b /\ l <= j
        /\ d = drops + a - b /\ drops \in Nat
    BY <1>1, <1>3, <1>4, <1>5 DEF HistoryOK
  <2> HIDE DEF a, b, d, j, l
  <2>2. d \in Nat /\ d >= drops + l
    BY <2>1
  <2> QED
    BY <2>2 DEF d, l
<1>7. /\ Copies' \subseteq Copies
      /\ \A x \in Copies' : \E m \in DOMAIN undelivered_sdus.sdus \ {sn} :
           x = <<CopyCount(m), undelivered_sdus.sdus[m]>>
  <2>1. UNCHANGED <<tx_hfn, next_pdcp_tx_sn, uplink>>
    BY <1>2, <1>3 DEF senderHistory
  <2> QED
    BY <1>1, <1>2, <2>1, Cleared
<1>8. UNCHANGED <<tx_hfn, next_pdcp_tx_sn>> /\ Again' = Again
  BY <1>2, <1>3, TxSame
<1> HIDE DEF J
<1>9. Sent' = Pairs(air) \cup Pairs(rlc_queue') /\ Sent' \subseteq Sent
  <2>1. Sent' = Pairs(air) \cup Pairs(rlc_queue')
    BY <1>3 DEF Sent, Pairs
  <2> QED
    BY <1>4, <2>1 DEF Sent
<1>10. ASSUME NEW x \in Sent PROVE x[1] \in lost \/ x \in Sent'
  <2>1. CASE x \in Pairs(air)
    BY <1>9, <2>1
  <2>2. CASE x \in Pairs(rlc_queue)
    <3>1. PICK i \in DOMAIN rlc_queue : x = <<rlc_queue[i].tx_count, rlc_queue[i].sdu>>
      BY <2>2, PairOfPdu
    <3>2. CASE i \in J
      BY <3>1, <3>2 DEF CountsAt
    <3>3. CASE i \notin J
      BY <1>4, <1>9, <3>1, <3>3
    <3> QED
      BY <3>2, <3>3
  <2> QED
    BY <2>1, <2>2 DEF Sent
<1>11. ASSUME NEW x \in Copies', x[1] >= NextRxCount PROVE x \in Sent'
  <2>1. PICK m \in DOMAIN undelivered_sdus.sdus \ {sn} :
          x = <<CopyCount(m), undelivered_sdus.sdus[m]>>
    BY <1>7, <1>11
  <2>2. x \in Sent
    BY <1>1, <1>7, <1>11 DEF SdusOK
  <2>3. CASE x \in Pairs(air)
    BY <1>9, <2>3
  <2>4. CASE x \in Pairs(rlc_queue)
    <3>1. PICK i \in DOMAIN rlc_queue : x = <<rlc_queue[i].tx_count, rlc_queue[i].sdu>>
      BY <2>4, PairOfPdu
    <3>2. CopyCount(m) = rlc_queue[i].tx_count
      BY <2>1, <3>1
    <3>3. CopyCount(m) % NofSns = m
      <4>1. m \in PdcpSN /\ tx_hfn \in Nat /\ next_pdcp_tx_sn \in PdcpSN
        BY <1>1 DEF TxInv, QueueOK
      <4> QED
        BY <4>1, CopyPlace
    <3>4. rlc_queue[i].tx_count % NofSns = rlc_queue[i].sn
      <4>1. PICK hfn \in Nat : rlc_queue[i].tx_count = COUNT(hfn, rlc_queue[i].sn)
        BY <1>1 DEF InLine, Numbered
      <4>2. rlc_queue[i] \in Pdu
        BY <1>1 DEF TxInv
      <4>3. rlc_queue[i].sn \in PdcpSN
        BY <4>2 DEF Pdu
      <4>4. COUNT(hfn, rlc_queue[i].sn) % NofSns = rlc_queue[i].sn
        BY <4>3, CountOf
      <4> QED
        BY <4>1, <4>4
    <3>5. rlc_queue[i].sn = m /\ m # sn
      BY <3>2, <3>3, <3>4
    <3>6. i \notin J
      BY <3>5 DEF J
    <3> QED
      BY <1>4, <1>9, <3>1, <3>6
  <2> QED
    BY <2>2, <2>3, <2>4 DEF Sent
<1>12. InLine'
  <2>1. \A x \in Pairs(air'), y \in Pairs(rlc_queue') : x[1] < y[1]
    BY <1>1, <1>3, <1>4 DEF InLine
  <2>2. \A x \in Sent', y \in Again' : x[1] < y[1]
    BY <1>1, <1>8, <1>9 DEF InLine
  <2>3. Numbered(air') /\ Numbered(rlc_queue')
    BY <1>1, <1>3, <1>4 DEF InLine
  <2> QED
    BY <1>1, <1>2, <1>3, <2>1, <2>2, <2>3 DEF InLine, Pairs, Numbered
<1> HIDE DEF lost
<1>13. \A x \in Sent \cup Again : x[1] \in lost \/ \E y \in (Sent \cup Again)' : y[1] = x[1]
  BY <1>8, <1>10
<1>14. Known' \subseteq Known /\ Copies' \cup Again' \subseteq Copies \cup Again
  BY <1>7, <1>8, <1>9 DEF Known
<1>15. uplink => forwarded' = << >>
  BY <1>1, <1>3 DEF HistoryOK
<1> QED
  BY <1>1, <1>3, <1>5, <1>6, <1>8, <1>11, <1>12, <1>13, <1>14, <1>15, PdusGo

\* Copies within the span keep their COUNTs when an SN is used, and the next COUNT goes
\* up by one.
LEMMA SnUsed ==
  ASSUME TxInv, UseNextSn
  PROVE  /\ NextTxCount' = NextTxCount + 1 /\ NextTxCount \in Nat
         /\ \A sn \in PdcpSN :
              /\ sn = next_pdcp_tx_sn => CopyCount(sn)' = NextTxCount
              /\ (next_pdcp_tx_sn - sn) % NofSns < NofSns - 1 => CopyCount(sn)' = CopyCount(sn)
<1> DEFINE next == next_pdcp_tx_sn
           new == next_pdcp_tx_sn'
           t == NextTxCount
<1>1. next \in PdcpSN /\ tx_hfn \in Nat /\ NofSns \in Nat /\ NofSns > 1 /\ 0 \in PdcpSN
      /\ \A a \in PdcpSN : a \in Int /\ a >= 0 /\ a < NofSns
  BY SnSpace DEF TxInv
<1>2. new \in PdcpSN /\ new = IF next = NofSns - 1 THEN 0 ELSE next + 1
  BY <1>1, NextSn DEF UseNextSn
<1>3. t \in Nat /\ t = COUNT(tx_hfn, 0) + next /\ COUNT(tx_hfn, 0) \in Nat
  BY <1>1, NextTurn DEF NextTxCount
<1>4. NextTxCount' = t + 1
  <2>1. CASE next = NofSns - 1
    <3>1. new = 0 /\ tx_hfn' = tx_hfn + 1
      BY <1>2, <2>1 DEF UseNextSn
    <3>2. NextTxCount' = COUNT(tx_hfn + 1, 0)
      BY <3>1 DEF NextTxCount, COUNT
    <3>3. COUNT(tx_hfn + 1, 0) = COUNT(tx_hfn, 0) + NofSns
      BY <1>1, NextTurn
    <3> QED
      BY <1>1, <1>3, <2>1, <3>2, <3>3
  <2>2. CASE next # NofSns - 1
    <3>1. new = next + 1 /\ tx_hfn' = tx_hfn
      BY <1>2, <2>2 DEF UseNextSn
    <3>2. NextTxCount' = COUNT(tx_hfn, next + 1)
      BY <3>1 DEF NextTxCount, COUNT
    <3>3. COUNT(tx_hfn, next + 1) = COUNT(tx_hfn, 0) + (next + 1)
      BY <1>1, <1>2, <3>1, NextTurn
    <3> QED
      BY <1>1, <1>3, <3>2, <3>3
  <2> QED
    BY <2>1, <2>2
<1>5. ASSUME NEW sn \in PdcpSN, (next - sn) % NofSns < NofSns - 1
      PROVE  (new - sn) % NofSns = ((next - sn) % NofSns) + 1
  <2> DEFINE d == (next - sn) % NofSns
             e == (new - sn) % NofSns
  <2>1. d = IF next >= sn THEN next - sn ELSE next - sn + NofSns
    BY <1>1, SnDistance
  <2>2. e = IF new >= sn THEN new - sn ELSE new - sn + NofSns
    BY <1>2, SnDistance
  <2>3. d < NofSns - 1 /\ sn \in Int /\ sn >= 0 /\ sn < NofSns /\ next \in Int
    BY <1>1, <1>5
  <2> HIDE DEF d, e
  <2>4. e = d + 1
    BY <1>1, <1>2, <2>1, <2>2, <2>3
  <2> QED
    BY <2>4 DEF d, e
<1>6. (new - next) % NofSns = 1
  <2>1. (new - next) % NofSns = IF new >= next THEN new - next ELSE new - next + NofSns
    BY <1>1, <1>2, SnDistance
  <2> DEFINE e == (new - next) % NofSns
  <2>2. e = IF new >= next THEN new - next ELSE new - next + NofSns
    BY <2>1
  <2> HIDE DEF e
  <2>3. e = 1
    BY <1>1, <1>2, <2>2
  <2> QED
    BY <2>3 DEF e
<1>7. ASSUME NEW sn \in PdcpSN
      PROVE  /\ sn = next => CopyCount(sn)' = t
             /\ (next - sn) % NofSns < NofSns - 1 => CopyCount(sn)' = CopyCount(sn)
  <2> DEFINE d == (next - sn) % NofSns
             e == (new - sn) % NofSns
             k == CopyCount(sn)
             l == CopyCount(sn)'
             u == NextTxCount'
  <2>1. l = u - e /\ k = t - d /\ u = t + 1
    BY <1>4 DEF CopyCount
  <2>2. d < NofSns - 1 => e = d + 1
    BY <1>5
  <2>3. sn = next => e = 1
    BY <1>6
  <2>4. d \in Int
    BY <1>1, SnDistance
  <2> HIDE DEF d, e, k, l, u, t
  <2>5. (sn = next => l = t) /\ (d < NofSns - 1 => l = k)
    BY <1>3, <2>1, <2>2, <2>3, <2>4
  <2> QED
    BY <2>5 DEF d, k, l
<1> QED
  BY <1>3, <1>4, <1>7

\* write_sdu stores a copy: those that are there lie within the span, so that each is
\* less than half of the SN space behind.
LEMMA CopyNear ==
  ASSUME TxInv, Bounded, Span <= MaxSpan, CanStore(undelivered_sdus, next_pdcp_tx_sn),
         NEW sn \in DOMAIN undelivered_sdus.sdus, (next_pdcp_tx_sn - sn) % NofSns <= H
  PROVE  (next_pdcp_tx_sn - sn) % NofSns <= H - 1
<1> DEFINE next == next_pdcp_tx_sn
           fms == undelivered_sdus.fms
           d == (sn - fms) % NofSns
           e == (next - fms) % NofSns
           k == (next - sn) % NofSns
<1>1. /\ next \in PdcpSN /\ fms \in PdcpSN /\ sn \in PdcpSN /\ d <= H
      /\ HasSdu(undelivered_sdus, fms)
  BY DEF TxInv, QueueOK
<1>2. next # fms
  BY <1>1 DEF CanStore
<1>3. 1 + e <= H
  <2>1. Span = 1 + e
    BY DEF Span, IsEmpty
  <2>2. MaxSpan \in Nat /\ MaxSpan <= H /\ H \in Nat
    BY PdcpLinkAssumption, SnSpace DEF Bounded
  <2>3. e \in Int
    BY <1>1, SnDistance, SnSpace
  <2> HIDE DEF e
  <2> QED
    BY <2>1, <2>2, <2>3
<1>4. d = IF sn >= fms THEN sn - fms ELSE sn - fms + NofSns
  BY <1>1, SnDistance
<1>5. e = IF next >= fms THEN next - fms ELSE next - fms + NofSns
  BY <1>1, SnDistance
<1>6. k = IF next >= sn THEN next - sn ELSE next - sn + NofSns
  BY <1>1, SnDistance
<1>7. /\ next \in Int /\ fms \in Int /\ sn \in Int /\ NofSns = 2 * H /\ H \in Nat
      /\ next >= 0 /\ fms >= 0 /\ sn >= 0
      /\ next < NofSns /\ fms < NofSns /\ sn < NofSns /\ k <= H
  BY <1>1, SnSpace
<1> HIDE DEF next, fms, d, e, k
<1>8. k <= H - 1
  BY <1>1, <1>2, <1>3, <1>4, <1>5, <1>6, <1>7
<1> QED
  BY <1>8 DEF k, next

\* write_sdu accepts a new SDU: the copies afterwards.
LEMMA CopyComes ==
  ASSUME TxInv, InRange, Bounded, uplink \/ Span <= MaxSpan, bearer # "am" => uplink,
         uplink' = uplink, Accept(pdcp_written + 1, next_pdcp_tx_sn), UseNextSn
  PROVE  /\ Copies' \subseteq Copies \cup {<<NextTxCount, pdcp_written + 1>>}
         /\ \A y \in Copies : NextTxCount + 1 - H <= y[1]
<1> DEFINE u == undelivered_sdus
           v == undelivered_sdus'
           next == next_pdcp_tx_sn
           s == pdcp_written + 1
<1>1. CASE uplink
  BY <1>1 DEF Copies
<1>2. CASE ~uplink
  <2>1. bearer = "am" /\ Span <= MaxSpan /\ next \in PdcpSN /\ s \in Nat /\ QueueOK(u)
        /\ DOMAIN u.sdus \subseteq PdcpSN
    BY <1>2 DEF TxInv, QueueOK
  <2>2. CanStore(u, next) /\ v = AddSdu(u, next, s)
    BY <2>1 DEF Accept
  <2>3. /\ DOMAIN v.sdus = DOMAIN u.sdus \cup {next} /\ v.sdus[next] = s
        /\ \A sn \in DOMAIN u.sdus : v.sdus[sn] = u.sdus[sn]
    BY <2>1, <2>2, AddKeepsQueue
  <2>4. NextTxCount \in Nat
    BY SnUsed
  <2>5. ASSUME NEW sn \in DOMAIN u.sdus
        PROVE  /\ NextTxCount + 1 - H <= CopyCount(sn) /\ CopyCount(sn)' = CopyCount(sn)
    <3> DEFINE d == (next - sn) % NofSns
               k == CopyCount(sn)
               t == NextTxCount
    <3>1. k = t - d /\ sn \in PdcpSN
      BY <2>1 DEF CopyCount
    <3>2. d \in Int /\ H \in Nat /\ H > 0 /\ NofSns = 2 * H
      BY <2>1, <3>1, SnDistance, SnSpace
    <3>3. t - H <= k
      <4>1. <<CopyCount(sn), u.sdus[sn]>> \in Copies
        BY <1>2 DEF Copies
      <4>2. <<CopyCount(sn), u.sdus[sn]>>[1] = k
        OBVIOUS
      <4> QED
        BY <4>1, <4>2 DEF InRange
    <3>4. d <= H
      <4> HIDE DEF d, k, t
      <4>1. t \in Nat
        BY <2>4 DEF t
      <4> QED
        BY <3>1, <3>2, <3>3, <4>1
    <3>5. d <= H - 1
      BY <2>1, <2>2, <3>4, CopyNear
    <3>6. d < NofSns - 1
      <4> HIDE DEF d
      <4> QED
        BY <3>2, <3>5
    <3>7. CopyCount(sn)' = k
      BY <3>1, <3>6, SnUsed
    <3>8. t + 1 - H <= k
      <4> HIDE DEF d, k, t
      <4>1. t \in Nat
        BY <2>4 DEF t
      <4> QED
        BY <3>1, <3>2, <3>5, <4>1
    <3> QED
      BY <3>7, <3>8
  <2>6. ASSUME NEW y \in Copies' PROVE y \in Copies \cup {<<NextTxCount, s>>}
    <3>1. PICK sn \in DOMAIN v.sdus : y = <<CopyCount(sn)', v.sdus[sn]>>
      BY <1>2, <2>6 DEF Copies
    <3>2. CASE sn = next
      <4>1. CopyCount(sn)' = NextTxCount
        BY <2>1, <3>2, SnUsed
      <4> QED
        BY <2>3, <3>1, <3>2, <4>1
    <3>3. CASE sn \in DOMAIN u.sdus
      <4>1. y = <<CopyCount(sn), u.sdus[sn]>>
        BY <2>3, <2>5, <3>1, <3>3
      <4> QED
        BY <1>2, <3>3, <4>1 DEF Copies
    <3> QED
      BY <2>3, <3>1, <3>2, <3>3
  <2>7. ASSUME NEW y \in Copies PROVE NextTxCount + 1 - H <= y[1]
    <3>1. PICK sn \in DOMAIN u.sdus : y = <<CopyCount(sn), u.sdus[sn]>>
      BY <1>2 DEF Copies
    <3>2. y[1] = CopyCount(sn)
      BY <3>1
    <3> QED
      BY <2>5, <3>2
  <2> QED
    BY <2>6, <2>7
<1> QED
  BY <1>1, <1>2

\* GTP-U writes a new SDU, which write_sdu sends with the next COUNT or drops.
LEMMA OfferKeeps ==
  ASSUME CountInv, Bounded, OfferSdu
  PROVE  Agreement'
<1>1. /\ HistoryOK /\ InLine /\ InRange /\ SdusOK /\ FewMissing
      /\ CountsAgree /\ OnlyDuplicatesRefused /\ TxInv /\ RxInv /\ Agreement
  BY DEF CountInv, Agreement, PdcpInv
<1>2. /\ forwarded = << >> /\ forwarded' = << >> /\ (uplink \/ Span <= MaxSpan)
      /\ pdcp_written' = pdcp_written + 1 /\ uplink' = uplink
      /\ UNCHANGED <<air, forwarded, drops>> /\ UNCHANGED receiverState
  BY DEF OfferSdu, pdcpRxVars, pdcpRlcVars, receiverState
<1>3. pdcp_written \in Nat /\ \A s \in Accepted : s \in Nat /\ s <= pdcp_written
  BY <1>1 DEF TxInv, HistoryOK, Accepted
<1>4. CASE Refuse(next_pdcp_tx_sn) /\ UNCHANGED <<next_pdcp_tx_sn, tx_hfn, pdcp_accepted>>
  <2>1. UNCHANGED <<bearer, undelivered_sdus, rlc_queue>>
    BY <1>4 DEF Refuse
  <2>2. \A s \in Accepted : s <= pdcp_written'
    BY <1>2, <1>3
  <2>3. Copies' \subseteq Copies
    BY <1>2, <1>4, <2>1, TxSame
  <2>4. UNCHANGED <<air, rlc_queue, forwarded, tx_hfn, next_pdcp_tx_sn, drops>>
    BY <1>2, <1>4, <2>1
  <2>5. UNCHANGED <<bearer, uplink, pdcp_accepted>>
    BY <1>2, <1>4, <2>1
  <2> QED
    BY <1>1, <1>2, <2>2, <2>3, <2>4, <2>5, CopiesGo
<1>5. CASE /\ Accept(pdcp_written + 1, next_pdcp_tx_sn) /\ UseNextSn
           /\ pdcp_accepted' = Append(pdcp_accepted, pdcp_written + 1)
  <2> DEFINE s == pdcp_written + 1
             t == NextTxCount
             x == <<t, s>>
             pdu == [sn |-> next_pdcp_tx_sn, sdu |-> s, tx_count |-> t]
  <2>1. NextTxCount' = t + 1 /\ t \in Nat
    BY <1>1, <1>5, SnUsed
  <2>2. rlc_queue' = Append(rlc_queue, pdu) /\ bearer' = bearer
    BY <1>5 DEF Accept, NextTxCount
  <2>3. pdu \in Pdu /\ s \in Nat
    BY <1>1, <1>3, <2>1 DEF Pdu, TxInv
  <2>4. pdu.tx_count = t /\ pdu.sdu = s /\ x[1] = t /\ x[2] = s
    OBVIOUS
  <2>5. \E hfn \in Nat : pdu.tx_count = COUNT(hfn, pdu.sn)
    BY <1>1 DEF TxInv, NextTxCount
  <2>6. \A y \in Sent : y[1] < t
    BY <1>1 DEF InRange, Known
  <2> HIDE DEF x, pdu
  <2>7. Numbered(Append(rlc_queue, pdu)) /\ Pairs(Append(rlc_queue, pdu)) = Pairs(rlc_queue) \cup {x}
    <3>1. \A y \in Pairs(rlc_queue) : y[1] < pdu.tx_count
      BY <2>4, <2>6 DEF Sent
    <3>2. x = <<pdu.tx_count, pdu.sdu>>
      BY <2>4 DEF x
    <3> QED
      BY <1>1, <2>3, <2>5, <3>1, <3>2, AppendTo DEF InLine, TxInv
  <2>8. Sent' = Sent \cup {x}
    BY <1>2, <2>2, <2>7 DEF Sent, Pairs
  <2>9. Again = {} /\ Again' = {}
    BY <1>2 DEF Again
  <2>10. /\ Copies' \subseteq Copies \cup {x}
         /\ \A y \in Copies : NextTxCount + 1 - H <= y[1]
    <3>1. bearer # "am" => uplink
      BY <1>1 DEF HistoryOK
    <3> QED
      BY <1>1, <1>2, <1>5, <3>1, CopyComes DEF x
  <2>11. /\ NextRxCount' = NextRxCount /\ Delivered' = Delivered
         /\ CountsAgree' /\ OnlyDuplicatesRefused'
    BY <1>1, <1>2, RxSame DEF receiverState
  <2>12. Accepted' = Accepted \cup {s} /\ pdcp_accepted' \in Seq(Nat)
    <3> DEFINE a == pdcp_accepted
               b == pdcp_accepted'
               n == Len(pdcp_accepted)
    <3>1. a \in Seq(Nat) /\ b = Append(a, s)
      BY <1>1, <1>5 DEF HistoryOK
    <3>2. b \in Seq(Nat) /\ n \in Nat /\ DOMAIN a = 1 .. n /\ DOMAIN b = 1 .. n + 1 /\ b[n + 1] = s
      BY <2>3, <3>1
    <3>3. \A i \in 1 .. n : b[i] = a[i]
      BY <2>3, <3>1
    <3>4. Accepted = {a[i] : i \in DOMAIN a} /\ Accepted' = {b[i] : i \in DOMAIN b}
      BY DEF Accepted
    <3> HIDE DEF a, b, n, s
    <3>5. ASSUME NEW y \in Accepted' PROVE y \in Accepted \cup {s}
      <4>1. PICK i \in DOMAIN b : y = b[i]
        BY <3>4
      <4>2. i = n + 1 \/ (i \in DOMAIN a /\ b[i] = a[i])
        BY <3>2, <3>3
      <4> QED
        BY <3>2, <3>4, <4>1, <4>2
    <3>6. ASSUME NEW y \in Accepted PROVE y \in Accepted'
      <4>1. PICK i \in DOMAIN a : y = a[i]
        BY <3>4
      <4>2. i \in DOMAIN b /\ b[i] = a[i]
        BY <3>2, <3>3
      <4> QED
        BY <3>4, <4>1, <4>2
    <3>7. s \in Accepted'
      <4>1. n + 1 \in DOMAIN b
        BY <3>2
      <4> QED
        BY <3>2, <3>4, <4>1
    <3> QED
      BY <3>2, <3>5, <3>6, <3>7 DEF b
  <2>13. NextRxCount \in Nat
    BY <1>1, NextRxPlace
  <2>14. InRange' /\ SdusOK'
    <3>1. /\ \A y \in Accepted : y <= pdcp_written
          /\ Accepted \subseteq Nat /\ Delivered \subseteq Accepted
      BY <1>1, <1>3 DEF HistoryOK
    <3>2. x = <<NextTxCount, pdcp_written + 1>>
      BY DEF x
    <3> QED
      BY <1>1, <1>2, <1>3, <2>1, <2>8, <2>9, <2>10, <2>11, <2>12, <2>13, <3>1, <3>2, PairComes
  <2>15. InLine'
    <3>1. \A y \in Pairs(air), z \in Pairs(rlc_queue) \cup {x} : y[1] < z[1]
      <4>1. \A y \in Pairs(air) : y[1] < t
        BY <2>6 DEF Sent
      <4> QED
        BY <1>1, <2>4, <4>1 DEF InLine
    <3>2. Pairs(air)' = Pairs(air) /\ Pairs(rlc_queue)' = Pairs(rlc_queue) \cup {x}
      BY <1>2, <2>2, <2>7 DEF Pairs
    <3>3. Numbered(air)' /\ Numbered(rlc_queue)'
      BY <1>1, <1>2, <2>2, <2>7 DEF InLine, Numbered
    <3>4. DOMAIN forwarded' = {}
      BY <1>2
    <3> QED
      BY <2>9, <3>1, <3>2, <3>3, <3>4 DEF InLine
  <2>16. FewMissing'
    <3>1. ASSUME NEW k \in Missing' PROVE k \in Missing
      <4>1. k \in NextRxCount .. t /\ \A y \in Sent' : y[1] # k
        <5>1. k \in NextRxCount' .. NextTxCount' - 1 /\ \A y \in Sent' : y[1] # k
          BY DEF Missing
        <5>2. NextRxCount' = NextRxCount /\ NextTxCount' - 1 = t
          BY <2>1, <2>11
        <5> QED
          BY <5>1, <5>2
      <4>2. k # t
        BY <2>4, <2>8, <4>1
      <4>3. k \in NextRxCount .. t - 1
        BY <2>1, <2>13, <4>1, <4>2
      <4>4. \A y \in Sent \cup Again : y[1] # k
        BY <2>8, <2>9, <4>1
      <4> QED
        BY <4>3, <4>4 DEF Missing
    <3>2. drops \in Nat /\ drops' = drops
      BY <1>1, <1>2 DEF HistoryOK
    <3> QED
      BY <1>1, <3>1, <3>2, FewerMissing
  <2>17. HistoryOK'
    <3>1. \A y \in Accepted' : y <= pdcp_written'
      BY <1>2, <1>3, <2>12
    <3>2. Delivered' \subseteq Accepted'
      BY <1>1, <2>11, <2>12 DEF HistoryOK
    <3>3. uplink' \in BOOLEAN /\ (bearer' # "am" => uplink') /\ (uplink' => forwarded' = << >>)
      BY <1>1, <1>2, <2>2 DEF HistoryOK
    <3>4. /\ pdcp_delivered' = pdcp_delivered /\ drops' = drops
      BY <1>2 DEF receiverState
    <3> QED
      BY <1>1, <2>12, <3>1, <3>2, <3>3, <3>4 DEF HistoryOK
  <2> QED
    BY <2>11, <2>14, <2>15, <2>16, <2>17 DEF Agreement
<1> QED
  BY <1>4, <1>5 DEF OfferSdu

\* The first of the SDUs forwarded.
LEMMA FirstForwarded ==
  ASSUME TxInv, InLine, forwarded # << >>, forwarded' = Tail(forwarded),
         UNCHANGED <<tx_hfn, next_pdcp_tx_sn>>, NEW sn, sn = Head(forwarded)[1],
         NEW x, x = <<COUNT(tx_hfn, sn), Head(forwarded)[2]>>
  PROVE  /\ sn \in PdcpSN /\ Head(forwarded)[2] \in Nat /\ sn < next_pdcp_tx_sn
         /\ Again = Again' \cup {x} /\ \A y \in Again' : x[1] < y[1]
         /\ \A i, j \in DOMAIN forwarded' : i < j => forwarded'[i][1] < forwarded'[j][1]
         /\ \A i \in DOMAIN forwarded' : forwarded'[i][1] < next_pdcp_tx_sn'
<1> DEFINE f == forwarded
           g == forwarded'
           n == Len(forwarded)
           c(k) == COUNT(tx_hfn, k)
<1>1. f \in Seq(PdcpSN \X Nat) /\ f # << >> /\ g = Tail(f) /\ tx_hfn \in Nat
  BY DEF TxInv
<1>2. n \in Nat /\ n >= 1 /\ DOMAIN f = 1 .. n /\ DOMAIN g = 1 .. n - 1 /\ Head(f) = f[1]
  BY <1>1
<1>3. \A i \in 1 .. n - 1 : g[i] = f[i + 1]
  BY <1>1
<1>4. \A i \in DOMAIN f : f[i] \in PdcpSN \X Nat
  BY <1>1
<1>5. \A i \in DOMAIN f : f[i][1] \in PdcpSN /\ f[i][2] \in Nat
  BY <1>4
<1>6. /\ \A i, j \in DOMAIN f : i < j => f[i][1] < f[j][1]
      /\ \A i \in DOMAIN f : f[i][1] < next_pdcp_tx_sn
  BY DEF InLine
<1>7. /\ Again = {<<c(f[i][1]), f[i][2]>> : i \in DOMAIN f}
      /\ Again' = {<<c(g[i][1]), g[i][2]>> : i \in DOMAIN g}
  BY DEF Again, COUNT
<1>8. sn = f[1][1] /\ x = <<c(f[1][1]), f[1][2]>> /\ x[1] = c(f[1][1])
  BY <1>2
<1>9. ASSUME NEW a \in PdcpSN, NEW b \in PdcpSN, a < b PROVE c(a) < c(b)
  <2>1. tx_hfn \in Int
    BY <1>1
  <2>2. c(a) = COUNT(tx_hfn, 0) + a /\ COUNT(tx_hfn, 0) \in Int
    BY <2>1, CountOf
  <2>3. c(b) = COUNT(tx_hfn, 0) + b
    BY <2>1, CountOf
  <2>4. a \in Int /\ b \in Int
    BY SnSpace
  <2> HIDE DEF c
  <2> QED
    BY <1>9, <2>2, <2>3, <2>4
<1> HIDE DEF f, g, n, c
<1>10. 1 \in DOMAIN f /\ \A i \in DOMAIN g : i + 1 \in DOMAIN f /\ g[i] = f[i + 1] /\ 1 < i + 1
  BY <1>2, <1>3
<1>11. Again = Again' \cup {x}
  <2>1. ASSUME NEW y \in Again PROVE y \in Again' \cup {x}
    <3>1. PICK i \in DOMAIN f : y = <<c(f[i][1]), f[i][2]>>
      BY <1>7
    <3>2. CASE i = 1
      BY <1>8, <3>1, <3>2
    <3>3. CASE i # 1
      <4>1. i - 1 \in DOMAIN g /\ g[i - 1] = f[i]
        BY <1>2, <1>3, <3>3
      <4> QED
        BY <1>7, <3>1, <4>1
    <3> QED
      BY <3>2, <3>3
  <2>2. ASSUME NEW y \in Again' PROVE y \in Again
    BY <1>7, <1>10
  <2>3. x \in Again
    BY <1>7, <1>8, <1>10
  <2> QED
    BY <2>1, <2>2, <2>3
<1>12. ASSUME NEW y \in Again' PROVE x[1] < y[1]
  <2>1. PICK i \in DOMAIN g : y = <<c(g[i][1]), g[i][2]>>
    BY <1>7
  <2>2. f[1][1] < g[i][1] /\ f[1][1] \in PdcpSN /\ g[i][1] \in PdcpSN
    BY <1>5, <1>6, <1>10
  <2>3. c(f[1][1]) < c(g[i][1])
    BY <1>9, <2>2
  <2>4. y[1] = c(g[i][1])
    BY <2>1
  <2> QED
    BY <1>8, <2>3, <2>4
<1>13. ASSUME NEW i \in DOMAIN g, NEW j \in DOMAIN g, i < j PROVE g[i][1] < g[j][1]
  <2>1. i + 1 < j + 1
    BY <1>2, <1>13
  <2> QED
    BY <1>6, <1>10, <2>1
<1>14. \A i \in DOMAIN g : g[i][1] < next_pdcp_tx_sn'
  BY <1>6, <1>10
<1>15. sn \in PdcpSN /\ Head(f)[2] \in Nat /\ sn < next_pdcp_tx_sn
  BY <1>2, <1>5, <1>6, <1>8, <1>10
<1> QED
  BY <1>11, <1>12, <1>13, <1>14, <1>15 DEF f, g

\* GTP-U writes a forwarded SDU with its old SN: write_sdu sends it with its old COUNT, or
\* drops it.
LEMMA ForwardKeeps ==
  ASSUME CountInv, WriteForwarded
  PROVE  Agreement'
<1>1. HistoryOK /\ InLine /\ InRange /\ SdusOK /\ FewMissing /\ TxInv /\ Agreement
  BY DEF CountInv, Agreement, PdcpInv
<1> DEFINE sn == Head(forwarded)[1]
           s == Head(forwarded)[2]
           c == COUNT(tx_hfn, sn)
           x == <<c, s>>
           pdu == [sn |-> sn, sdu |-> s, tx_count |-> c]
<1>2. /\ forwarded # << >> /\ forwarded' = Tail(forwarded) /\ UNCHANGED air
      /\ UNCHANGED receiverState /\ UNCHANGED <<tx_hfn, next_pdcp_tx_sn>>
      /\ UNCHANGED <<uplink, pdcp_written, pdcp_accepted>>
  BY DEF WriteForwarded, pdcpRxVars, pdcpHistory, receiverState
<1>3. ~uplink /\ bearer = "am" /\ drops \in Nat /\ drops <= MaxDrops /\ MaxDrops \in Nat
  BY <1>1, <1>2, PdcpLinkAssumption DEF HistoryOK
<1>4. /\ sn \in PdcpSN /\ s \in Nat /\ sn < next_pdcp_tx_sn
      /\ Again = Again' \cup {x} /\ \A y \in Again' : x[1] < y[1]
      /\ \A i, j \in DOMAIN forwarded' : i < j => forwarded'[i][1] < forwarded'[j][1]
      /\ \A i \in DOMAIN forwarded' : forwarded'[i][1] < next_pdcp_tx_sn'
  BY <1>1, <1>2, FirstForwarded
<1>5. x[1] = c
  OBVIOUS
<1>6. \A y \in Sent : y[1] < c
  BY <1>1, <1>4, <1>5 DEF InLine
<1>7. CASE Accept(s, sn) /\ UNCHANGED drops
  <2>1. rlc_queue' = Append(rlc_queue, pdu) /\ bearer' = bearer
    BY <1>7 DEF Accept
  <2>2. c \in Nat /\ \E hfn \in Nat : c = COUNT(hfn, sn)
    BY <1>1, <1>4, NextTurn DEF TxInv
  <2>3. pdu \in Pdu
    BY <1>4, <2>2 DEF Pdu
  <2>4. pdu.tx_count = c /\ pdu.sdu = s /\ pdu.sn = sn
    OBVIOUS
  <2>5. CanStore(undelivered_sdus, sn)
        /\ undelivered_sdus' = AddSdu(undelivered_sdus, sn, s)
    BY <1>3, <1>7 DEF Accept
  <2> HIDE DEF pdu
  <2>6. Numbered(Append(rlc_queue, pdu)) /\ Pairs(Append(rlc_queue, pdu)) = Pairs(rlc_queue) \cup {x}
    <3>1. \A y \in Pairs(rlc_queue) : y[1] < pdu.tx_count
      BY <1>6, <2>4 DEF Sent
    <3>2. \E hfn \in Nat : pdu.tx_count = COUNT(hfn, pdu.sn)
      BY <2>2, <2>4
    <3>3. x = <<pdu.tx_count, pdu.sdu>>
      BY <2>4
    <3>4. rlc_queue \in Seq(Pdu) /\ Numbered(rlc_queue)
      BY <1>1 DEF InLine, TxInv
    <3> HIDE DEF x
    <3> QED
      BY <2>3, <3>1, <3>2, <3>3, <3>4, AppendTo
  <2> HIDE DEF x
  <2>7. Sent' = Sent \cup {x}
    BY <1>2, <2>1, <2>6 DEF Sent, Pairs
  <2>8. Copies' \subseteq Copies \cup {x}
    <3> DEFINE u == undelivered_sdus
               v == undelivered_sdus'
    <3>1. /\ DOMAIN v.sdus = DOMAIN u.sdus \cup {sn} /\ v.sdus[sn] = s
          /\ \A m \in DOMAIN u.sdus : v.sdus[m] = u.sdus[m]
      BY <1>1, <1>4, <2>5, AddKeepsQueue DEF TxInv
    <3>2. \A m : CopyCount(m)' = CopyCount(m)
      BY <1>2, TxSame
    <3>3. CopyCount(sn) = c
      <4>1. sn <= next_pdcp_tx_sn /\ next_pdcp_tx_sn \in PdcpSN /\ tx_hfn \in Nat
        BY <1>1, <1>4, SnSpace DEF TxInv
      <4> QED
        BY <1>4, <4>1, CopyPlace
    <3>4. ASSUME NEW y \in Copies' PROVE y \in Copies \cup {x}
      <4>1. PICK m \in DOMAIN v.sdus : y = <<CopyCount(m)', v.sdus[m]>>
        BY <3>4 DEF Copies
      <4>2. y = <<CopyCount(m), v.sdus[m]>>
        BY <3>2, <4>1
      <4> HIDE DEF v, sn, s, c
      <4>3. CASE m = sn
        <5>1. y = <<c, s>>
          BY <3>1, <3>3, <4>2, <4>3
        <5> QED
          BY <5>1 DEF x
      <4>4. CASE m \in DOMAIN u.sdus
        <5>1. y = <<CopyCount(m), u.sdus[m]>>
          BY <3>1, <4>2, <4>4
        <5> QED
          BY <1>3, <4>4, <5>1 DEF Copies
      <4> QED
        BY <3>1, <4>1, <4>3, <4>4
    <3> QED
      BY <3>4
  <2>9. InLine'
    <3>1. \A y \in Pairs(air), z \in Pairs(rlc_queue) \cup {x} : y[1] < z[1]
      <4>1. \A y \in Pairs(air) : y[1] < x[1]
        BY <1>5, <1>6 DEF Sent
      <4> QED
        BY <1>1, <4>1 DEF InLine
    <3>2. Pairs(air)' = Pairs(air) /\ Pairs(rlc_queue)' = Pairs(rlc_queue) \cup {x}
      BY <1>2, <2>1, <2>6 DEF Pairs
    <3>3. Numbered(air)' /\ Numbered(rlc_queue)'
      BY <1>1, <1>2, <2>1, <2>6 DEF InLine, Numbered
    <3>4. \A y \in Sent', z \in Again' : y[1] < z[1]
      <4>1. \A y \in Sent, z \in Again : y[1] < z[1]
        BY <1>1 DEF InLine
      <4> QED
        BY <1>4, <2>7, <4>1
    <3> QED
      BY <1>4, <3>1, <3>2, <3>3, <3>4 DEF InLine
  <2> DEFINE lost == {}
  <2>10. IsFiniteSet(lost) /\ Cardinality(lost) = 0
    BY FS_EmptySet, Zenon
  <2> HIDE DEF lost
  <2>11. drops' \in Nat /\ drops' <= MaxDrops /\ drops' >= drops + Cardinality(lost)
    BY <1>3, <1>7, <2>10
  <2>12. \A y \in Sent \cup Again : y[1] \in lost \/ \E z \in (Sent \cup Again)' : z[1] = y[1]
    BY <1>4, <2>7
  <2>13. Known' \subseteq Known /\ Copies' \cup Again' \subseteq Copies \cup Again
    BY <1>4, <2>7, <2>8 DEF Known
  <2>14. \A y \in Copies' : y[1] >= NextRxCount => y \in Sent'
    BY <1>1, <2>7, <2>8 DEF SdusOK
  <2>15. UNCHANGED senderHistory
    BY <1>2, <2>1 DEF senderHistory
  <2> QED
    BY <1>1, <1>2, <1>3, <2>9, <2>10, <2>11, <2>12, <2>13, <2>14, <2>15, PdusGo
<1>8. CASE Refuse(sn) /\ drops < MaxDrops /\ drops' = drops + 1
  <2>1. UNCHANGED <<bearer, undelivered_sdus, rlc_queue>>
    BY <1>8 DEF Refuse
  <2> HIDE DEF x
  <2>2. Sent' = Sent /\ Pairs(air)' = Pairs(air) /\ Pairs(rlc_queue)' = Pairs(rlc_queue)
    BY <1>2, <2>1 DEF Sent, Pairs
  <2>3. Copies' = Copies
    BY <1>2, <2>1, TxSame
  <2>4. InLine'
    <3>1. Numbered(air)' /\ Numbered(rlc_queue)'
      BY <1>1, <1>2, <2>1 DEF InLine, Numbered
    <3>2. \A y \in Sent', z \in Again' : y[1] < z[1]
      BY <1>1, <1>4, <2>2 DEF InLine
    <3> QED
      BY <1>1, <1>4, <2>2, <3>1, <3>2 DEF InLine
  <2> DEFINE lost == {x[1]}
  <2>5. IsFiniteSet(lost) /\ Cardinality(lost) = 1 /\ x[1] \in lost
    BY FS_Singleton
  <2> HIDE DEF lost
  <2>6. drops' \in Nat /\ drops' <= MaxDrops /\ drops' >= drops + Cardinality(lost)
    BY <1>3, <1>8, <2>5
  <2>7. \A y \in Sent \cup Again : y[1] \in lost \/ \E z \in (Sent \cup Again)' : z[1] = y[1]
    BY <1>4, <2>2, <2>5
  <2>8. Known' \subseteq Known /\ Copies' \cup Again' \subseteq Copies \cup Again
    BY <1>4, <2>2, <2>3 DEF Known
  <2>9. \A y \in Copies' : y[1] >= NextRxCount => y \in Sent'
    BY <1>1, <2>2, <2>3 DEF SdusOK
  <2>10. UNCHANGED senderHistory
    BY <1>2, <2>1 DEF senderHistory
  <2> QED
    BY <1>1, <1>2, <1>3, <2>4, <2>5, <2>6, <2>7, <2>8, <2>9, <2>10, PdusGo
<1> QED
  BY <1>7, <1>8 DEF WriteForwarded

-----------------------------------------------------------------------------
(* The invariant is inductive.                                                 *)

\* A bearer whose COUNTs below s are over and done with at both ends.
LEMMA CountInvInit == PdcpLinkInit => CountInv
<1> SUFFICES ASSUME PdcpLinkInit PROVE CountInv
  OBVIOUS
<1>1. PdcpInv
  BY PdcpInvInit
<1>2. PICK s \in PdcpStarts : PdcpTxQuiet(s) /\ PdcpRxQuiet(s)
  BY DEF PdcpLinkInit
<1>3. /\ uplink \in BOOLEAN /\ (bearer # "am" => uplink) /\ pdcp_accepted = << >>
      /\ air = << >> /\ forwarded = << >> /\ drops = 0 /\ rlc_queue = << >>
      /\ pdcp_delivered = << >> /\ pdcp_refused = {} /\ DOMAIN undelivered_sdus.sdus = {}
  <2>1. /\ uplink \in (IF bearer = "am" THEN BOOLEAN ELSE {TRUE}) /\ pdcp_accepted = << >>
        /\ air = << >> /\ forwarded = << >> /\ drops = 0
    BY DEF PdcpLinkInit
  <2>2. uplink \in BOOLEAN /\ (bearer # "am" => uplink)
    BY <2>1
  <2>3. undelivered_sdus = [sdus |-> << >>, fms |-> s % NofSns] /\ rlc_queue = << >>
    BY <1>2 DEF PdcpTxQuiet
  <2>4. DOMAIN undelivered_sdus.sdus = {}
    BY <2>3
  <2>5. pdcp_delivered = << >> /\ pdcp_refused = {}
    BY <1>2 DEF PdcpRxQuiet
  <2> QED
    BY <2>1, <2>2, <2>3, <2>4, <2>5
<1>4. Sent = {} /\ Again = {} /\ Copies = {} /\ Known = {}
  <2>1. Sent = {} /\ Again = {} /\ Copies = {}
    BY <1>3, EmptyLine DEF Sent, Again, Copies
  <2> QED
    BY <2>1 DEF Known
<1>5. Accepted = {} /\ Delivered = {}
  BY <1>3 DEF Accepted, Delivered, DeliveredSdus
<1>6. NextTxCount = s /\ NextRxCount = s /\ s \in Nat
  <2>1. s \in Nat /\ s \in Int /\ NofSns \in Nat \ {0}
    BY PdcpLinkAssumption, SnSpace
  <2>2. s = (s \div NofSns) * NofSns + (s % NofSns)
    BY <2>1, DivMod
  <2> QED
    BY <1>2, <2>1, <2>2 DEF NextTxCount, NextRxCount, COUNT, PdcpTxQuiet, PdcpRxQuiet
<1>7. InLine
  BY <1>3, <1>4, EmptyLine DEF InLine
<1>8. InRange /\ SdusOK
  BY <1>4, <1>6 DEF InRange, SdusOK
<1>9. FewMissing
  <2>1. Missing = {}
    BY <1>6 DEF Missing
  <2>2. IsFiniteSet({}) /\ Cardinality({}) = 0
    BY FS_EmptySet, Zenon
  <2> QED
    BY <1>3, <2>1, <2>2 DEF FewMissing
<1>10. HistoryOK
  BY <1>3, <1>5, PdcpLinkAssumption DEF HistoryOK
<1>11. CountsAgree /\ OnlyDuplicatesRefused
  BY <1>3 DEF CountsAgree, OnlyDuplicatesRefused
<1> QED
  BY <1>1, <1>7, <1>8, <1>9, <1>10, <1>11 DEF CountInv, Agreement

\* Every step keeps the two ends in agreement.
LEMMA CountInvNext ==
  ASSUME Bounded
  PROVE  CountInv /\ [PdcpLinkNext]_pdcpLinkVars => CountInv'
<1> SUFFICES ASSUME CountInv, [PdcpLinkNext]_pdcpLinkVars PROVE CountInv'
  OBVIOUS
<1>1. PdcpInv'
  BY PdcpInvNext DEF CountInv
<1>2. Agreement'
  BY OfferKeeps, ForwardKeeps, StartKeeps, ArriveKeeps, NotifyKeeps, LossKeeps, DiscardKept,
     ReestablishKeeps, FreshKeeps, HandOverKeeps DEF PdcpLinkNext
<1> QED
  BY <1>1, <1>2 DEF CountInv

\* Every PDU is deciphered with the COUNT it was ciphered with: the HFNs that the ends
\* count on their own never come apart, through wraps, losses, discards and handovers.
THEOREM CountsAlwaysAgree ==
  ASSUME Bounded
  PROVE  PdcpLinkSpec => []CountsAgree
<1>1. CountInv => CountsAgree
  BY DEF CountInv, Agreement
<1> QED
  BY <1>1, CountInvInit, CountInvNext, PTL DEF PdcpLinkSpec

\* handle_am_drb_pdu and handle_srb_pdu discard no PDU but one whose SDU was delivered.
THEOREM OnlyDuplicatesAlwaysRefused ==
  ASSUME Bounded
  PROVE  PdcpLinkSpec => []OnlyDuplicatesRefused
<1>1. CountInv => OnlyDuplicatesRefused
  BY DEF CountInv, Agreement
<1> QED
  BY <1>1, CountInvInit, CountInvNext, PTL DEF PdcpLinkSpec

-----------------------------------------------------------------------------
(* What the bearer promises.                                                   *)

\* write_pdu hands at most one SDU to the upper layer.
LEMMA OneAtATime ==
  ASSUME TxInv, RlcArrive
  PROVE  \/ pdcp_delivered' = pdcp_delivered
         \/ \E e : pdcp_delivered' = Append(pdcp_delivered, e)
<1> DEFINE pdu == Head(air)
<1>1. WritePdu(pdu) /\ bearer \in {"srb", "um", "am"}
  BY DEF RlcArrive, TxInv
<1> HIDE DEF pdu
<1>2. CASE bearer = "am"
  BY <1>1, <1>2 DEF WritePdu, HandleAmDrbPdu
<1>3. CASE bearer # "am"
  <2>1. HandleSrbPdu(pdu) \/ InOrderPdu(pdu)
    <3>1. CASE bearer = "srb"
      BY <1>1, <3>1 DEF WritePdu
    <3>2. CASE bearer = "um"
      BY <1>1, <3>2 DEF WritePdu
    <3> QED
      BY <1>1, <1>3, <3>1, <3>2
  <2> QED
    BY <2>1 DEF HandleSrbPdu, InOrderPdu
<1> QED
  BY <1>2, <1>3

\* Only write_pdu delivers, and only write_sdu of a new SDU submits one.
LEMMA OthersQuiet ==
  ASSUME PdcpLinkNext, ~RlcArrive, ~OfferSdu
  PROVE  pdcp_accepted' = pdcp_accepted /\ pdcp_delivered' = pdcp_delivered
<1> USE DEF pdcpHistory, pdcpRxVars
<1>1. CASE WriteForwarded \/ RlcStart \/ RlcNotifies \/ RlcFails \/ RlcUmLoses
  BY <1>1 DEF WriteForwarded, RlcStart, RlcNotifies, RlcFails, RlcUmLoses
<1>2. CASE SduDiscarded \/ ReestablishBoth \/ ReplaceReceiver
  BY <1>2 DEF SduDiscarded, ReestablishBoth, RxReestablish, ReplaceReceiver, RxSetBearerState
<1>3. CASE ReestablishSender \/ HandOverSender \/ SendStatusReport \/ ReceiveStatusReport
  BY <1>3 DEF ReestablishSender, HandOverSender, SendStatusReport, ReceiveStatusReport
<1> QED
  BY <1>1, <1>2, <1>3 DEF PdcpLinkNext

\* The SDUs delivered, as the service sees them.
LEMMA DeliveredList ==
  ASSUME NEW q \in Seq([sdu : Nat, count : Nat, tx_count : Nat]),
         NEW d, d = [i \in DOMAIN q |-> q[i].sdu]
  PROVE  /\ Len(q) \in Nat /\ DOMAIN q = 1 .. Len(q) /\ Len(d) = Len(q)
         /\ DOMAIN d = 1 .. Len(q) /\ d \in Seq(Nat)
         /\ \A i \in 1 .. Len(q) : d[i] = q[i].sdu /\ d[i] \in Nat
<1> DEFINE R == [sdu : Nat, count : Nat, tx_count : Nat]
           n == Len(q)
<1>1. n \in Nat /\ DOMAIN q = 1 .. n
  OBVIOUS
<1>2. \A r \in R : r.sdu \in Nat
  OBVIOUS
<1>3. q \in Seq(R)
  OBVIOUS
<1> HIDE DEF R
<1>4. \A i \in 1 .. n : q[i] \in R
  BY <1>3
<1> HIDE DEF n
<1>5. \A i \in 1 .. n : q[i].sdu \in Nat
  BY <1>2, <1>4
<1>6. d = [i \in 1 .. n |-> q[i].sdu]
  BY <1>1
<1>7. d \in [1 .. n -> Nat]
  BY <1>5, <1>6
<1>8. d \in Seq(Nat) /\ Len(d) = n /\ DOMAIN d = 1 .. n
  <2>1. d \in Seq(Nat)
    BY <1>1, <1>7, SeqDef
  <2>2. Len(d) \in Nat /\ DOMAIN d = 1 .. Len(d) /\ DOMAIN d = 1 .. n
    BY <1>7, <2>1, LenProperties
  <2>3. Len(d) = n
    BY <1>1, <2>2
  <2> QED
    BY <2>1, <2>2, <2>3
<1>9. \A i \in 1 .. n : d[i] = q[i].sdu
  BY <1>6
<1> QED
  BY <1>1, <1>5, <1>8, <1>9 DEF n

\* One SDU comes out, behind those that were there, and it had been accepted.
LEMMA ServiceDelivers ==
  ASSUME RxInv, RxInv', HistoryOK', pdcp_accepted' = pdcp_accepted,
         NEW e, pdcp_delivered' = Append(pdcp_delivered, e)
  PROVE  PdcpService!UmDeliver
<1> DEFINE q == pdcp_delivered
           t == pdcp_delivered'
           c == DeliveredSdus
           d == DeliveredSdus'
           n == Len(pdcp_delivered)
<1>1. /\ n \in Nat /\ DOMAIN q = 1 .. n /\ Len(c) = n /\ DOMAIN c = 1 .. n
      /\ \A i \in 1 .. n : c[i] = q[i].sdu /\ c[i] \in Nat
  <2>1. q \in Seq([sdu : Nat, count : Nat, tx_count : Nat]) /\ c = [i \in DOMAIN q |-> q[i].sdu]
    BY DEF RxInv, DeliveredSdus
  <2> HIDE DEF q, c
  <2> QED
    BY <2>1, DeliveredList DEF q
<1>2. /\ Len(t) \in Nat /\ DOMAIN t = 1 .. Len(t) /\ Len(d) = Len(t) /\ DOMAIN d = 1 .. Len(t)
      /\ \A i \in 1 .. Len(t) : d[i] = t[i].sdu /\ d[i] \in Nat
      /\ d \in Seq(Nat)
  <2>1. t \in Seq([sdu : Nat, count : Nat, tx_count : Nat]) /\ d = [i \in DOMAIN t |-> t[i].sdu]
    BY DEF RxInv, DeliveredSdus
  <2> HIDE DEF t, d
  <2> QED
    BY <2>1, DeliveredList
<1>3. Len(t) = n + 1 /\ \A i \in 1 .. n : t[i] = q[i]
  <2>1. q \in Seq([sdu : Nat, count : Nat, tx_count : Nat])
    BY DEF RxInv
  <2>2. t = Append(q, e)
    OBVIOUS
  <2> HIDE DEF t, q
  <2>3. Len(t) = Len(q) + 1
    BY <2>1, <2>2
  <2>4. \A i \in 1 .. Len(q) : t[i] = q[i]
    BY <2>1, <2>2
  <2> QED
    BY <2>3, <2>4 DEF q
<1>4. /\ \A x \in Delivered' : x \in Accepted'
      /\ \A i, j \in DOMAIN t : i < j => t[i].sdu < t[j].sdu
  BY DEF HistoryOK
<1>5. \A i \in DOMAIN d : d[i] \in Delivered'
  BY DEF Delivered
<1>6. \A x \in Accepted' : \E j \in DOMAIN pdcp_accepted : pdcp_accepted[j] = x
  BY DEF Accepted
<1> HIDE DEF q, t, c, d, n
<1>7. Len(d) > Len(c)
  BY <1>1, <1>2, <1>3
<1>8. SubSeq(d, 1, Len(c)) = c
  <2>1. n <= Len(d)
    BY <1>1, <1>2, <1>3
  <2>2. SubSeq(d, 1, n) = [i \in 1 .. n |-> d[i]]
    BY <1>1, <1>2, <2>1
  <2>3. \A i \in 1 .. n : d[i] = c[i]
    <3>1. ASSUME NEW i \in 1 .. n PROVE d[i] = c[i]
      <4>1. i \in 1 .. Len(t)
        BY <1>1, <1>3
      <4> QED
        BY <1>1, <1>2, <1>3, <4>1
    <3> QED
      BY <3>1
  <2>4. c = [i \in 1 .. n |-> c[i]]
    BY <1>1 DEF c, DeliveredSdus
  <2> QED
    BY <1>1, <2>2, <2>3, <2>4
<1>9. ASSUME NEW i \in DOMAIN d
      PROVE  /\ \E j \in DOMAIN pdcp_accepted : pdcp_accepted[j] = d[i]
             /\ \A j \in 1 .. i - 1 : d[j] < d[i]
  <2>1. \E j \in DOMAIN pdcp_accepted : pdcp_accepted[j] = d[i]
    BY <1>4, <1>5, <1>6
  <2>2. ASSUME NEW j \in 1 .. i - 1 PROVE d[j] < d[i]
    <3>1. i \in 1 .. Len(t) /\ j \in 1 .. Len(t) /\ j < i
      BY <1>2
    <3> QED
      BY <1>2, <1>4, <3>1
  <2> QED
    BY <2>1, <2>2
<1> QED
  BY <1>7, <1>8, <1>9 DEF PdcpService!UmDeliver, c, d

\* A step of the bearer is a step of the service, or none.
LEMMA ServiceStep ==
  ASSUME CountInv, CountInv', [PdcpLinkNext]_pdcpLinkVars
  PROVE  [PdcpService!UmServiceNext]_(PdcpService!umServiceVars)
<1>1. TxInv /\ RxInv /\ RxInv' /\ HistoryOK /\ HistoryOK'
  BY DEF CountInv, PdcpInv, Agreement
<1>2. ASSUME pdcp_accepted' = pdcp_accepted, pdcp_delivered' = pdcp_delivered
      PROVE  UNCHANGED PdcpService!umServiceVars
  BY <1>2 DEF PdcpService!umServiceVars, DeliveredSdus
<1>3. CASE RlcArrive
  <2>1. pdcp_accepted' = pdcp_accepted
    BY <1>3 DEF RlcArrive, pdcpHistory
  <2>2. CASE pdcp_delivered' = pdcp_delivered
    BY <1>2, <2>1, <2>2
  <2>3. CASE \E e : pdcp_delivered' = Append(pdcp_delivered, e)
    <3>1. PICK e : pdcp_delivered' = Append(pdcp_delivered, e)
      BY <2>3
    <3>2. PdcpService!UmDeliver
      BY <1>1, <2>1, <3>1, ServiceDelivers
    <3> QED
      BY <3>2 DEF PdcpService!UmServiceNext
  <2> QED
    BY <1>1, <1>3, <2>2, <2>3, OneAtATime
<1>4. CASE OfferSdu
  <2>1. pdcp_delivered' = pdcp_delivered /\ pdcp_written < NSdu
    BY <1>4 DEF OfferSdu, pdcpRxVars
  <2>2. CASE pdcp_accepted' = pdcp_accepted
    BY <1>2, <2>1, <2>2
  <2>3. CASE pdcp_accepted' = Append(pdcp_accepted, pdcp_written + 1)
    <3> DEFINE s == pdcp_written + 1
    <3>1. pdcp_written \in Nat /\ NSdu \in Nat
      BY <1>1, PdcpLinkAssumption DEF TxInv
    <3>2. s \in 1 .. NSdu
      BY <2>1, <3>1
    <3>3. ASSUME NEW i \in DOMAIN pdcp_accepted PROVE pdcp_accepted[i] < s
      <4>1. pdcp_accepted[i] \in Nat /\ pdcp_accepted[i] <= pdcp_written
        BY <1>1 DEF HistoryOK, Accepted
      <4> QED
        BY <3>1, <4>1
    <3>4. DeliveredSdus' = DeliveredSdus
      BY <2>1 DEF DeliveredSdus
    <3>5. PdcpService!UmSubmit(s)
      BY <2>3, <3>3, <3>4 DEF PdcpService!UmSubmit
    <3> QED
      BY <3>2, <3>5 DEF PdcpService!UmServiceNext
  <2> QED
    BY <1>4, <2>2, <2>3 DEF OfferSdu
<1>5. CASE UNCHANGED pdcpLinkVars
  BY <1>2, <1>5 DEF pdcpLinkVars, pdcpHistory, pdcpRxVars
<1>6. CASE PdcpLinkNext /\ ~RlcArrive /\ ~OfferSdu
  BY <1>2, <1>6, OthersQuiet
<1> QED
  BY <1>3, <1>4, <1>5, <1>6

\* The bearer implements the service: SDUs that come out had been accepted, and come once
\* and in order, also those that a handover sends again.
THEOREM PdcpImplementsService ==
  ASSUME Bounded
  PROVE  PdcpLinkSpec => PdcpServiceImplemented
<1>1. PdcpLinkInit => PdcpService!UmServiceInit
  BY DEF PdcpLinkInit, PdcpRxQuiet, PdcpService!UmServiceInit, DeliveredSdus
<1>2. CountInv /\ CountInv' /\ [PdcpLinkNext]_pdcpLinkVars
        => [PdcpService!UmServiceNext]_(PdcpService!umServiceVars)
  BY ServiceStep
<1> QED
  BY <1>1, <1>2, CountInvInit, CountInvNext, PTL
     DEF PdcpLinkSpec, PdcpServiceImplemented, PdcpService!UmServiceSpec
=============================================================================
