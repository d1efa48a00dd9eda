----------------------------- MODULE PdcpProofs -----------------------------
(***************************************************************************)
(* Proofs about one direction of a PDCP bearer, for every size of the SN   *)
(* space and every bound on what is under way: the types, the queue of     *)
(* undelivered SDUs, and the COUNTs from which status reports are made.    *)
(***************************************************************************)
EXTENDS PdcpLink, TLAPS, FiniteSetTheorems, NaturalsInduction, WellFoundedInduction

-----------------------------------------------------------------------------
(* Division with remainder, by which COUNTs are split into HFN and SN.         *)

\* COUNT = hfn * 2^sn_len + sn for one hfn and one SN.
LEMMA DivMod ==
  ASSUME NEW x \in Int, NEW n \in Nat \ {0}
  PROVE  x = (x \div n) * n + (x % n) /\ x % n \in 0 .. n - 1 /\ x \div n \in Int
<1>1. x = n * (x \div n) + (x % n) /\ x % n \in 0 .. n - 1 /\ x \div n \in Int
  OBVIOUS
<1>2. n * (x \div n) = (x \div n) * n
  BY <1>1
<1> QED
  BY <1>1, <1>2

\* A multiple of n other than 0 is at least n away from it.
LEMMA Multiple ==
  ASSUME NEW d \in Int, NEW n \in Nat \ {0}
  PROVE  (d >= 1 => d * n >= n) /\ (d <= -1 => d * n <= -n) /\ (d >= 2 => d * n >= 2 * n)
OBVIOUS

\* Quotient and remainder are unique.
LEMMA ModUnique ==
  ASSUME NEW n \in Nat \ {0}, NEW q \in Int, NEW r \in 0 .. n - 1, NEW x \in Int,
         x = q * n + r
  PROVE  x % n = r /\ x \div n = q
<1> DEFINE p == x \div n
           s == x % n
<1>1. x = p * n + s /\ s \in 0 .. n - 1 /\ p \in Int
  BY DivMod
<1> HIDE DEF p, s
<1>2. (q - p) * n = q * n - p * n
  BY <1>1
<1>3. (q - p) * n = s - r
  BY <1>1, <1>2
<1>4. ~(q - p >= 1) /\ ~(q - p <= -1)
  BY <1>1, <1>3, Multiple
<1>5. q = p
  BY <1>1, <1>4
<1> QED
  BY <1>1, <1>3, <1>5 DEF p, s

-----------------------------------------------------------------------------
(* Sequence numbers modulo 2 H.                                                *)

\* Sizes of the SN space and of the reordering window (pdcp_entity_lte's constructor).
LEMMA SnSpace ==
  /\ NofSns \in Nat /\ NofSns = 2 * H /\ H \in Nat /\ H > 0 /\ NofSns > 1
  /\ PdcpSN = 0 .. NofSns - 1
BY PdcpAssumption DEF NofSns, PdcpSN

\* The distance from b up to a, as add_sdu tests it by hand.
LEMMA SnDistance ==
  ASSUME NEW a \in PdcpSN, NEW b \in PdcpSN
  PROVE  /\ (a - b) % NofSns = IF a >= b THEN a - b ELSE a - b + NofSns
         /\ (a - b) % NofSns \in PdcpSN
BY PdcpAssumption DEF NofSns, PdcpSN

\* Stepping i SNs up from b, as the loop of update_fms does.
LEMMA SnSteps ==
  ASSUME NEW b \in PdcpSN, NEW i \in PdcpSN
  PROVE  /\ (b + i) % NofSns \in PdcpSN
         /\ (b + i) % NofSns = IF b + i < NofSns THEN b + i ELSE b + i - NofSns
         /\ (((b + i) % NofSns) - b) % NofSns = i
<1>1. /\ (b + i) % NofSns \in PdcpSN
      /\ (b + i) % NofSns = IF b + i < NofSns THEN b + i ELSE b + i - NofSns
  BY PdcpAssumption DEF NofSns, PdcpSN
<1>2. (((b + i) % NofSns) - b) % NofSns
        = IF (b + i) % NofSns >= b THEN ((b + i) % NofSns) - b
                                   ELSE ((b + i) % NofSns) - b + NofSns
  BY <1>1, SnDistance
<1>3. NofSns \in Nat /\ b \in Nat /\ b < NofSns /\ i \in Nat /\ i < NofSns
  BY SnSpace DEF PdcpSN
<1>4. CASE b + i < NofSns
  BY <1>1, <1>2, <1>3, <1>4
<1>5. CASE ~(b + i < NofSns)
  BY <1>1, <1>2, <1>3, <1>5
<1> QED
  BY <1>1, <1>4, <1>5

\* An SN is found again from its distance (the loop of update_fms meets it).
LEMMA SnAtDistance ==
  ASSUME NEW a \in PdcpSN, NEW b \in PdcpSN
  PROVE  (b + ((a - b) % NofSns)) % NofSns = a
<1> DEFINE d == (a - b) % NofSns
<1>1. d \in PdcpSN /\ d = IF a >= b THEN a - b ELSE a - b + NofSns
  BY SnDistance
<1> HIDE DEF d
<1>2. (b + d) % NofSns = IF b + d < NofSns THEN b + d ELSE b + d - NofSns
  BY <1>1, SnSteps
<1>3. (b + d) % NofSns = a
  BY <1>1, <1>2, SnSpace
<1> QED
  BY <1>3 DEF d

\* increment_sn
LEMMA NextSn ==
  ASSUME NEW a \in PdcpSN
  PROVE  /\ increment_sn(a) \in PdcpSN
         /\ increment_sn(a) = IF a = NofSns - 1 THEN 0 ELSE a + 1
BY PdcpAssumption DEF NofSns, PdcpSN, increment_sn

\* A set of distances has a lowest one, at which a loop stops.
LEMMA LowestOf ==
  ASSUME NEW S \in SUBSET Nat, S # {}
  PROVE  \E x \in S : \A y \in S : x <= y
<1> DEFINE LT == {ss \in Nat \X Nat : ss[1] < ss[2]}
<1>1. IsWellFoundedOn(LT, Nat)
  BY NatLessThanWellFounded DEF OpToRel
<1> HIDE DEF LT
<1>2. PICK x \in S : \A y \in S : ~(<<y, x>> \in LT)
  BY <1>1, WFMin
<1>3. \A y \in S : ~(y < x)
  BY <1>2 DEF LT
<1> QED
  BY <1>3

-----------------------------------------------------------------------------
(* The queue of undelivered SDUs.                                              *)

\* It starts at fms and spans at most half of the SNs.
QueueOK(u) ==
  /\ DOMAIN u.sdus \subseteq PdcpSN /\ u.fms \in PdcpSN
  /\ \A sn \in DOMAIN u.sdus : u.sdus[sn] \in Nat
  /\ DOMAIN u.sdus # {} => HasSdu(u, u.fms)
  /\ \A sn \in DOMAIN u.sdus : (sn - u.fms) % NofSns <= H

\* update_fms stops at the first SN that has an SDU.
LEMMA FmsFound ==
  ASSUME NEW sdus, DOMAIN sdus \subseteq PdcpSN, NEW fms \in PdcpSN,
         \A sn \in DOMAIN sdus : (sn - fms) % NofSns \in 1 .. H
  PROVE  /\ UpdateFms(sdus, fms) \in PdcpSN
         /\ DOMAIN sdus # {} =>
              /\ UpdateFms(sdus, fms) \in DOMAIN sdus
              /\ \A sn \in DOMAIN sdus :
                   (UpdateFms(sdus, fms) - fms) % NofSns <= (sn - fms) % NofSns
<1>1. CASE DOMAIN sdus = {}
  BY <1>1, NextSn DEF UpdateFms
<1>2. CASE DOMAIN sdus # {}
  <2> DEFINE S == {(sn - fms) % NofSns : sn \in DOMAIN sdus}
             First(sn) == \E i \in 1 .. H :
                            /\ sn = (fms + i) % NofSns
                            /\ \A j \in 1 .. i - 1 : (fms + j) % NofSns \notin DOMAIN sdus
  <2>0. H \in Nat /\ 1 .. H \subseteq PdcpSN
    BY SnSpace
  <2>1. S \in SUBSET Nat /\ S # {}
    BY <1>2, <2>0
  <2>2. PICK d \in S : \A y \in S : d <= y
    BY <2>1, LowestOf
  <2>3. PICK sn \in DOMAIN sdus : d = (sn - fms) % NofSns
    BY <2>2
  <2>4. d \in 1 .. H /\ d \in PdcpSN
    BY <2>0, <2>3
  <2>5. sn = (fms + d) % NofSns
    BY <2>3, SnAtDistance
  <2>6. ASSUME NEW j \in 1 .. d - 1 PROVE (fms + j) % NofSns \notin DOMAIN sdus
    <3>1. j \in PdcpSN /\ j < d
      BY <2>4, SnSpace
    <3>2. (((fms + j) % NofSns) - fms) % NofSns = j
      BY <3>1, SnSteps
    <3>3. SUFFICES ASSUME (fms + j) % NofSns \in DOMAIN sdus PROVE FALSE
      OBVIOUS
    <3>4. d <= j
      BY <2>2, <3>2, <3>3
    <3> QED
      BY <3>1, <3>4, <2>4, SnSpace
  <2>7. First(sn)
    BY <2>4, <2>5, <2>6
  <2>8. \E i \in 1 .. H : (fms + i) % NofSns \in DOMAIN sdus
    BY <2>3, <2>4, <2>5
  <2> DEFINE new == UpdateFms(sdus, fms)
  <2>9. new = CHOOSE x \in DOMAIN sdus : First(x)
    BY <2>8 DEF UpdateFms
  <2> HIDE DEF First, new
  <2>10. new \in DOMAIN sdus /\ First(new)
    BY <2>3, <2>7, <2>9
  <2>11. PICK i \in 1 .. H : /\ new = (fms + i) % NofSns
                            /\ \A j \in 1 .. i - 1 : (fms + j) % NofSns \notin DOMAIN sdus
    BY <2>10 DEF First
  <2>12. (new - fms) % NofSns = i
    BY <2>0, <2>11, SnSteps
  <2>13. ASSUME NEW x \in DOMAIN sdus PROVE i <= (x - fms) % NofSns
    <3> DEFINE e == (x - fms) % NofSns
    <3>1. e \in 1 .. H /\ (fms + e) % NofSns = x
      BY SnAtDistance
    <3> HIDE DEF e
    <3>2. ~(e \in 1 .. i - 1)
      BY <2>11, <3>1
    <3> QED
      BY <2>0, <2>11, <3>1, <3>2 DEF e
  <2> QED
    BY <2>10, <2>12, <2>13 DEF new
<1> QED
  BY <1>1, <1>2

\* clear_sdu for any set of SNs: notify_delivery, notify_failure, discard_callback
\* and handle_status_report_pdu.
LEMMA ClearKeepsQueue ==
  ASSUME NEW u, QueueOK(u), NEW sns
  PROVE  /\ QueueOK(ClearSdus(u, sns))
         /\ DOMAIN ClearSdus(u, sns).sdus = DOMAIN u.sdus \ sns
         /\ \A sn \in DOMAIN u.sdus \ sns : ClearSdus(u, sns).sdus[sn] = u.sdus[sn]
<1> DEFINE left == [sn \in DOMAIN u.sdus \ sns |-> u.sdus[sn]]
           fms == IF HasSdu(u, u.fms) /\ u.fms \in sns THEN UpdateFms(left, u.fms) ELSE u.fms
           new == ClearSdus(u, sns)
<1>1. new = [sdus |-> left, fms |-> fms]
  BY DEF ClearSdus
<1>2. /\ DOMAIN left = DOMAIN u.sdus \ sns
      /\ \A sn \in DOMAIN u.sdus \ sns : left[sn] = u.sdus[sn]
  OBVIOUS
<1> HIDE DEF left, fms, new
<1>3. new.sdus = left /\ new.fms = fms
  BY <1>1
<1>4. /\ DOMAIN left \subseteq PdcpSN /\ u.fms \in PdcpSN
      /\ \A sn \in DOMAIN left : left[sn] \in Nat
  BY <1>2 DEF QueueOK
<1>5. CASE ~(HasSdu(u, u.fms) /\ u.fms \in sns)
  <2>1. fms = u.fms
    BY <1>5 DEF fms
  <2> QED
    BY <1>2, <1>3, <1>4, <1>5, <2>1 DEF QueueOK, HasSdu, new
<1>6. CASE HasSdu(u, u.fms) /\ u.fms \in sns
  <2>1. fms = UpdateFms(left, u.fms)
    BY <1>6 DEF fms
  <2>2. ASSUME NEW sn \in DOMAIN left PROVE (sn - u.fms) % NofSns \in 1 .. H
    <3>1. sn \in PdcpSN /\ sn # u.fms /\ (sn - u.fms) % NofSns <= H
      BY <1>2, <1>4, <1>6 DEF QueueOK
    <3>2. (sn - u.fms) % NofSns = IF sn >= u.fms THEN sn - u.fms ELSE sn - u.fms + NofSns
      BY <1>4, <3>1, SnDistance
    <3> QED
      BY <1>4, <3>1, <3>2, SnSpace
  <2>3. /\ fms \in PdcpSN
        /\ DOMAIN left # {} =>
             /\ fms \in DOMAIN left
             /\ \A sn \in DOMAIN left : (fms - u.fms) % NofSns <= (sn - u.fms) % NofSns
    BY <1>4, <2>1, <2>2, FmsFound
  <2>4. ASSUME NEW sn \in DOMAIN left PROVE (sn - fms) % NofSns <= H
    <3>1. sn \in PdcpSN /\ fms \in PdcpSN /\ u.fms \in PdcpSN
      BY <1>4, <2>3
    <3> DEFINE x == (sn - fms) % NofSns
               y == (sn - u.fms) % NofSns
               z == (fms - u.fms) % NofSns
               b == u.fms
    <3>2. /\ x = IF sn >= fms THEN sn - fms ELSE sn - fms + NofSns
          /\ y = IF sn >= b THEN sn - b ELSE sn - b + NofSns
          /\ z = IF fms >= b THEN fms - b ELSE fms - b + NofSns
      BY <3>1, SnDistance
    <3>3. z <= y /\ y <= H
      BY <2>2, <2>3, SnSpace
    <3>4. b \in PdcpSN
      BY <3>1
    <3> HIDE DEF x, y, z, b
    <3>5. x <= H
      BY <3>1, <3>2, <3>3, <3>4, SnSpace
    <3> QED
      BY <3>5 DEF x
  <2>5. QueueOK(new)
    BY <1>3, <1>4, <2>3, <2>4 DEF QueueOK, HasSdu
  <2> QED
    BY <1>2, <1>3, <2>5 DEF new
<1> QED
  BY <1>5, <1>6

\* add_sdu after the tests of store_sdu.
LEMMA AddKeepsQueue ==
  ASSUME NEW u, QueueOK(u), NEW sn \in PdcpSN, NEW sdu \in Nat, CanStore(u, sn)
  PROVE  /\ QueueOK(AddSdu(u, sn, sdu))
         /\ DOMAIN AddSdu(u, sn, sdu).sdus = DOMAIN u.sdus \cup {sn}
         /\ AddSdu(u, sn, sdu).sdus[sn] = sdu
         /\ \A x \in DOMAIN u.sdus : AddSdu(u, sn, sdu).sdus[x] = u.sdus[x]
<1> DEFINE sdus == [x \in DOMAIN u.sdus \cup {sn} |-> IF x = sn THEN sdu ELSE u.sdus[x]]
           fms == IF IsEmpty(u) THEN sn ELSE u.fms
           new == AddSdu(u, sn, sdu)
<1>1. new = [sdus |-> sdus, fms |-> fms]
  BY DEF AddSdu
<1>2. /\ DOMAIN sdus = DOMAIN u.sdus \cup {sn} /\ sdus[sn] = sdu
      /\ sn \notin DOMAIN u.sdus
      /\ \A x \in DOMAIN u.sdus : sdus[x] = u.sdus[x]
  BY DEF CanStore, HasSdu
<1> HIDE DEF sdus, fms, new
<1>3. new.sdus = sdus /\ new.fms = fms
  BY <1>1
<1>4. DOMAIN sdus \subseteq PdcpSN /\ \A x \in DOMAIN sdus : sdus[x] \in Nat
  BY <1>2 DEF QueueOK
<1>5. CASE IsEmpty(u)
  <2>1. fms = sn /\ DOMAIN sdus = {sn}
    BY <1>2, <1>5 DEF fms, IsEmpty
  <2>2. (sn - sn) % NofSns <= H
    BY SnDistance, SnSpace
  <2> QED
    BY <1>2, <1>3, <1>4, <2>1, <2>2 DEF QueueOK, HasSdu, new
<1>6. CASE ~IsEmpty(u)
  <2>1. fms = u.fms /\ u.fms \in PdcpSN /\ HasSdu(u, u.fms)
    BY <1>6 DEF fms, IsEmpty, QueueOK
  <2>2. sn - u.fms \in 1 .. H \/ sn - u.fms <= -H
    BY <1>6 DEF CanStore
  <2>3. (sn - u.fms) % NofSns <= H
    <3>1. (sn - u.fms) % NofSns = IF sn >= u.fms THEN sn - u.fms ELSE sn - u.fms + NofSns
      BY <2>1, SnDistance
    <3> QED
      BY <2>1, <2>2, <3>1, SnSpace
  <2> QED
    BY <1>2, <1>3, <1>4, <2>1, <2>3 DEF QueueOK, HasSdu, new
<1> QED
  BY <1>5, <1>6

-----------------------------------------------------------------------------
(* The COUNTs received since the first missing one.                            *)

\* In ascending order, each once, all above f.
AscendingAbove(counts, f) ==
  /\ counts \in Seq(Nat)
  /\ \A i \in DOMAIN counts : counts[i] > f
  /\ \A i, j \in DOMAIN counts : i < j => counts[i] < counts[j]

ElementOf(counts, c) == \E i \in DOMAIN counts : counts[i] = c

\* The loops of update_rx_counts_queue pop a run that ends.
LEMMA RunFound ==
  ASSUME NEW counts \in Seq(Nat), NEW first \in Nat
  PROVE  LET n == RunLength(counts, first) IN
         /\ n \in 0 .. Len(counts)
         /\ \A i \in 1 .. n : counts[i] = first + i - 1
         /\ n < Len(counts) => counts[n + 1] # first + n
<1> DEFINE Run(n) == /\ \A i \in 1 .. n : counts[i] = first + i - 1
                     /\ n < Len(counts) => counts[n + 1] # first + n
           S == {m \in 0 .. Len(counts) : m = Len(counts) \/ counts[m + 1] # first + m}
<1>0. Len(counts) \in Nat
  OBVIOUS
<1>1. S \in SUBSET Nat /\ S # {}
  BY <1>0
<1>2. PICK n \in S : \A y \in S : n <= y
  BY <1>1, LowestOf
<1>3. n \in 0 .. Len(counts) /\ (n = Len(counts) \/ counts[n + 1] # first + n)
  BY <1>2
<1>4. ASSUME NEW i \in 1 .. n PROVE counts[i] = first + i - 1
  <2>1. i - 1 \in 0 .. Len(counts) /\ ~(n <= i - 1) /\ i - 1 # Len(counts)
    BY <1>0, <1>3
  <2>2. i - 1 \notin S
    BY <1>2, <2>1
  <2>3. counts[(i - 1) + 1] = first + (i - 1)
    BY <2>1, <2>2
  <2>4. (i - 1) + 1 = i /\ first + (i - 1) = first + i - 1
    BY <1>3
  <2> QED
    BY <2>3, <2>4
<1>5. Run(n)
  BY <1>0, <1>3, <1>4
<1>6. RunLength(counts, first) = CHOOSE m \in 0 .. Len(counts) : Run(m)
  BY DEF RunLength
<1> HIDE DEF Run
<1>7. RunLength(counts, first) \in 0 .. Len(counts) /\ Run(RunLength(counts, first))
  BY <1>3, <1>5, <1>6
<1> QED
  BY <1>7 DEF Run

\* What is left after a run has been popped is above the new first missing COUNT.
LEMMA PopKeeps ==
  ASSUME NEW counts \in Seq(Nat), NEW first \in Nat, NEW f \in Int,
         AscendingAbove(counts, f), f < first, \A i \in DOMAIN counts : counts[i] >= first
  PROVE  LET new == PopRun(counts, first) IN
         /\ new.fmc \in Nat /\ new.fmc >= first
         /\ AscendingAbove(new.counts, new.fmc)
         /\ \A i \in DOMAIN new.counts : ElementOf(counts, new.counts[i])
<1> DEFINE n == RunLength(counts, first)
           rest == SubSeq(counts, n + 1, Len(counts))
<1>1. /\ n \in 0 .. Len(counts)
      /\ \A i \in 1 .. n : counts[i] = first + i - 1
      /\ n < Len(counts) => counts[n + 1] # first + n
  BY RunFound
<1>2. PopRun(counts, first) = [counts |-> rest, fmc |-> first + n]
  BY DEF PopRun
<1> HIDE DEF n
<1>3. Len(counts) \in Nat /\ DOMAIN counts = 1 .. Len(counts)
  OBVIOUS
<1>4. /\ rest \in Seq(Nat) /\ DOMAIN rest = 1 .. Len(counts) - n
      /\ \A i \in 1 .. Len(counts) - n : rest[i] = counts[n + i]
  BY <1>1, <1>3
<1> HIDE DEF rest
<1>5. \A i \in DOMAIN rest : n + i \in DOMAIN counts
  BY <1>1, <1>3, <1>4
<1>6. ASSUME NEW i, NEW j, i \in DOMAIN rest, j \in DOMAIN rest, i < j
      PROVE  rest[i] < rest[j]
  <2>0. n \in Int /\ i \in Int /\ j \in Int /\ i < j
    BY <1>1, <1>3, <1>4, <1>6
  <2>1. n + i \in DOMAIN counts /\ n + j \in DOMAIN counts /\ n + i < n + j
    BY <1>5, <1>6, <2>0
  <2>2. counts[n + i] < counts[n + j]
    BY <2>1 DEF AscendingAbove
  <2>3. rest[i] = counts[n + i] /\ rest[j] = counts[n + j]
    BY <1>4, <1>6
  <2> QED
    BY <2>2, <2>3
<1>7. ASSUME NEW i \in DOMAIN rest PROVE rest[i] > first + n
  <2>1. n + 1 \in DOMAIN counts /\ n < Len(counts)
    BY <1>1, <1>3, <1>4
  <2>2. counts[n + 1] \in Nat /\ counts[n + 1] # first + n
    BY <1>1, <2>1
  <2>3. counts[n + 1] >= first + n
    <3>1. CASE n = 0
      BY <2>1, <2>2, <3>1
    <3>2. CASE n > 0
      <4>1. n \in DOMAIN counts /\ n < n + 1 /\ n \in 1 .. n
        BY <1>1, <1>3, <3>2
      <4>2. counts[n] < counts[n + 1] /\ counts[n] = first + n - 1
        BY <1>1, <2>1, <4>1 DEF AscendingAbove
      <4> QED
        BY <1>1, <1>3, <2>2, <4>2
    <3> QED
      BY <1>1, <1>3, <3>1, <3>2
  <2>4. rest[i] = counts[n + i] /\ counts[n + i] \in Nat
    BY <1>4, <1>5
  <2>5. counts[n + i] >= counts[n + 1]
    <3>1. CASE i = 1
      BY <2>2, <3>1
    <3>2. CASE i # 1
      <4>1. n + 1 < n + i /\ n + i \in DOMAIN counts
        BY <1>1, <1>3, <1>4, <1>5, <3>2
      <4> QED
        BY <2>1, <2>2, <2>4, <4>1 DEF AscendingAbove
    <3> QED
      BY <3>1, <3>2
  <2> DEFINE a == counts[n + 1]
             b == counts[n + i]
             m == first + n
  <2>6. m \in Int /\ a \in Int /\ b \in Int /\ a # m /\ a >= m /\ b >= a
    BY <1>1, <1>3, <2>2, <2>3, <2>4, <2>5
  <2> HIDE DEF a, b, m
  <2>7. b > m
    BY <2>6
  <2> QED
    BY <2>4, <2>7 DEF b, m
<1>8. AscendingAbove(rest, first + n)
  BY <1>4, <1>6, <1>7 DEF AscendingAbove
<1>9. \A i \in DOMAIN rest : ElementOf(counts, rest[i])
  BY <1>4, <1>5 DEF ElementOf
<1>10. first + n \in Nat /\ first + n >= first
  BY <1>1, <1>3
<1> QED
  BY <1>2, <1>8, <1>9, <1>10

\* A COUNT above all others goes to the end (std::sort after push_back).
LEMMA InsertedLast ==
  ASSUME NEW counts \in Seq(Nat), NEW c \in Nat, \A i \in DOMAIN counts : counts[i] < c
  PROVE  Insert(counts, c) = Append(counts, c)
<1>1. Len(counts) \in Nat /\ DOMAIN counts = 1 .. Len(counts)
  OBVIOUS
<1>2. {i \in DOMAIN counts : counts[i] <= c} = 1 .. Len(counts)
  BY <1>1
<1>3. Cardinality(1 .. Len(counts)) = Len(counts)
  BY <1>1, FS_Interval
<1>4. Insert(counts, c) = InsertAt(counts, 1 + Len(counts), c)
  BY <1>2, <1>3 DEF Insert
<1>5. (1 + Len(counts)) - 1 = Len(counts)
  BY <1>1
<1>6. /\ SubSeq(counts, 1, Len(counts)) = counts
      /\ SubSeq(counts, 1 + Len(counts), Len(counts)) = << >>
  BY <1>1
<1>7. counts \o <<c>> \o << >> = Append(counts, c)
  OBVIOUS
<1> QED
  BY <1>4, <1>5, <1>6, <1>7 DEF InsertAt

\* update_rx_counts_queue with a COUNT above all those it knows of.
LEMMA UpdateKeeps ==
  ASSUME fmc \in Nat, AscendingAbove(rx_counts_info, fmc), NEW count \in Nat,
         \A i \in DOMAIN rx_counts_info : rx_counts_info[i] < count
  PROVE  LET new == UpdateRxCounts(count) IN
         /\ new.fmc \in Nat
         /\ AscendingAbove(new.counts, new.fmc)
         /\ \A i \in DOMAIN new.counts :
              \/ ElementOf(rx_counts_info, new.counts[i])
              \/ new.counts[i] = count /\ count >= fmc
<1> DEFINE kept == IF count = fmc
                   THEN PopRun(rx_counts_info, fmc + 1)
                   ELSE [counts |-> Insert(rx_counts_info, count), fmc |-> fmc]
           Good(new) == /\ new.fmc \in Nat
                        /\ AscendingAbove(new.counts, new.fmc)
                        /\ \A i \in DOMAIN new.counts :
                             \/ ElementOf(rx_counts_info, new.counts[i])
                             \/ new.counts[i] = count /\ count >= fmc
<1>1. rx_counts_info \in Seq(Nat) /\ \A i \in DOMAIN rx_counts_info : rx_counts_info[i] \in Nat
  BY DEF AscendingAbove
<1>2. CASE count < fmc
  <2>1. UpdateRxCounts(count) = [counts |-> rx_counts_info, fmc |-> fmc]
    BY <1>2 DEF UpdateRxCounts
  <2> QED
    BY <2>1 DEF ElementOf
<1>3. CASE count >= fmc
  <2>1. Good(kept)
    <3>1. CASE count = fmc
      <4>1. kept = PopRun(rx_counts_info, fmc + 1)
        BY <3>1
      <4>2. /\ fmc + 1 \in Nat /\ fmc \in Int /\ fmc < fmc + 1
            /\ \A i \in DOMAIN rx_counts_info : rx_counts_info[i] >= fmc + 1
        BY <1>1 DEF AscendingAbove
      <4> HIDE DEF kept
      <4>3. /\ kept.fmc \in Nat /\ AscendingAbove(kept.counts, kept.fmc)
            /\ \A i \in DOMAIN kept.counts : ElementOf(rx_counts_info, kept.counts[i])
        BY <1>1, <4>1, <4>2, PopKeeps
      <4> QED
        BY <4>3
    <3>2. CASE count # fmc
      <4> DEFINE new == Append(rx_counts_info, count)
      <4>1. kept = [counts |-> new, fmc |-> fmc]
        BY <1>1, <3>2, InsertedLast
      <4>2. /\ new \in Seq(Nat) /\ DOMAIN new = 1 .. Len(rx_counts_info) + 1
            /\ DOMAIN rx_counts_info = 1 .. Len(rx_counts_info) /\ Len(rx_counts_info) \in Nat
            /\ new[Len(rx_counts_info) + 1] = count
            /\ \A i \in DOMAIN rx_counts_info : new[i] = rx_counts_info[i]
        BY <1>1
      <4> HIDE DEF new, kept
      <4>3. \A i \in DOMAIN new : i \in DOMAIN rx_counts_info \/ i = Len(rx_counts_info) + 1
        BY <4>2
      <4>4. \A i \in DOMAIN new : new[i] > fmc
        BY <1>3, <3>2, <4>2, <4>3 DEF AscendingAbove
      <4>5. ASSUME NEW i \in DOMAIN new, NEW j \in DOMAIN new, i < j PROVE new[i] < new[j]
        <5>1. i \in DOMAIN rx_counts_info
          BY <4>2, <4>3, <4>5
        <5>2. CASE j \in DOMAIN rx_counts_info
          BY <4>2, <4>5, <5>1, <5>2 DEF AscendingAbove
        <5>3. CASE j = Len(rx_counts_info) + 1
          BY <4>2, <5>1, <5>3
        <5> QED
          BY <4>3, <5>2, <5>3
      <4>6. \A i \in DOMAIN new : ElementOf(rx_counts_info, new[i]) \/ new[i] = count
        BY <4>2, <4>3 DEF ElementOf
      <4>7. AscendingAbove(new, fmc)
        BY <4>2, <4>4, <4>5 DEF AscendingAbove
      <4> QED
        BY <1>3, <4>1, <4>6, <4>7
    <3> QED
      BY <3>1, <3>2
  <2> HIDE DEF kept
  <2>2. CASE Len(kept.counts) > ReorderingWindow
    <3> DEFINE c == kept.counts
               new == PopRun(c, Head(c))
    <3>1. UpdateRxCounts(count) = new
      BY <1>3, <2>2 DEF UpdateRxCounts, kept
    <3>2. /\ c \in Seq(Nat) /\ AscendingAbove(c, kept.fmc) /\ kept.fmc \in Int
      BY <2>1 DEF AscendingAbove
    <3>3. Len(c) \in Nat /\ Len(c) > 0 /\ DOMAIN c = 1 .. Len(c)
      BY <2>2, <3>2, SnSpace DEF ReorderingWindow
    <3>4. Head(c) = c[1] /\ 1 \in DOMAIN c /\ Head(c) \in Nat
      BY <3>2, <3>3
    <3>5. Head(c) > kept.fmc
      BY <3>2, <3>4 DEF AscendingAbove
    <3>6. ASSUME NEW i \in DOMAIN c PROVE c[i] >= Head(c)
      <4>1. c[i] \in Nat
        BY <3>2
      <4>2. i = 1 \/ 1 < i
        BY <3>3
      <4> QED
        BY <3>2, <3>4, <4>1, <4>2 DEF AscendingAbove
    <3> HIDE DEF c
    <3>7. /\ new.fmc \in Nat /\ AscendingAbove(new.counts, new.fmc)
          /\ \A i \in DOMAIN new.counts : ElementOf(c, new.counts[i])
      <4>1. kept.fmc < Head(c)
        BY <3>2, <3>4, <3>5
      <4> QED
        BY <3>2, <3>4, <3>6, <4>1, PopKeeps
    <3> HIDE DEF new
    <3>8. Good(new)
      BY <2>1, <3>7 DEF ElementOf, c
    <3> QED
      BY <3>1, <3>8
  <2>3. CASE ~(Len(kept.counts) > ReorderingWindow)
    <3>1. ~(count < fmc)
      BY <1>3
    <3>2. UpdateRxCounts(count) = kept
      BY <3>1, <2>3 DEF UpdateRxCounts, kept
    <3> QED
      BY <2>1, <3>2
  <2> QED
    BY <2>2, <2>3
<1> QED
  BY <1>2, <1>3

-----------------------------------------------------------------------------
(* The COUNT of a received PDU.                                                *)

\* The COUNT after that of the last PDU delivered.
NextRxCount == COUNT(rx_hfn, next_pdcp_rx_sn)

\* handle_am_drb_pdu refuses the SNs in the half of the SN space below the next one.
LEMMA Judged ==
  ASSUME last_submitted_pdcp_rx_sn \in PdcpSN,
         next_pdcp_rx_sn = increment_sn(last_submitted_pdcp_rx_sn), NEW sn \in PdcpSN
  PROVE  AlreadySubmitted(sn) <=> (sn - next_pdcp_rx_sn) % NofSns >= H
<1> DEFINE last == last_submitted_pdcp_rx_sn
           next == next_pdcp_rx_sn
           d == (sn - next) % NofSns
<1>1. next \in PdcpSN /\ next = IF last = NofSns - 1 THEN 0 ELSE last + 1
  BY NextSn
<1>2. d = IF sn >= next THEN sn - next ELSE sn - next + NofSns
  BY <1>1, SnDistance
<1>3. AlreadySubmitted(sn) <=> sn - last > H \/ last - sn \in 0 .. H - 1
  BY DEF AlreadySubmitted, ReorderingWindow
<1> HIDE DEF d
<1>4. (sn - last > H \/ last - sn \in 0 .. H - 1) <=> d >= H
  BY <1>1, <1>2, SnSpace
<1> QED
  BY <1>3, <1>4 DEF d

\* hfn * 2^sn_len + sn, one turn of the SNs further.
LEMMA NextTurn ==
  ASSUME NEW hfn \in Nat, NEW sn \in PdcpSN
  PROVE  /\ COUNT(hfn, sn) \in Nat
         /\ COUNT(hfn + 1, sn) = COUNT(hfn, sn) + NofSns
         /\ COUNT(hfn, sn) = COUNT(hfn, 0) + sn
<1>1. hfn * NofSns \in Nat /\ (hfn + 1) * NofSns = hfn * NofSns + NofSns
  BY SnSpace
<1> DEFINE x == hfn * NofSns
           y == (hfn + 1) * NofSns
<1>2. COUNT(hfn, sn) = x + sn /\ COUNT(hfn + 1, sn) = y + sn /\ COUNT(hfn, 0) = x + 0
  BY DEF COUNT
<1>3. x \in Nat /\ y = x + NofSns
  BY <1>1
<1> HIDE DEF x, y
<1> QED
  BY <1>2, <1>3, SnSpace

\* What handle_am_drb_pdu takes for the COUNT of a PDU that it keeps: the first COUNT
\* with that SN from the next one on; the next one then is the COUNT after it.
LEMMA Counted ==
  ASSUME last_submitted_pdcp_rx_sn \in PdcpSN, rx_hfn \in Nat,
         next_pdcp_rx_sn = increment_sn(last_submitted_pdcp_rx_sn), NEW sn \in PdcpSN,
         (sn - next_pdcp_rx_sn) % NofSns < H
  PROVE  LET rx == RxCount(sn) IN
         /\ rx.hfn \in Nat /\ rx.next = increment_sn(sn) /\ rx.next \in PdcpSN
         /\ rx.count = NextRxCount + ((sn - next_pdcp_rx_sn) % NofSns)
         /\ COUNT(rx.hfn, rx.next) = rx.count + 1
         /\ NextRxCount \in Nat /\ rx.count \in Nat
<1> DEFINE next == next_pdcp_rx_sn
           d == (sn - next) % NofSns
<1>0. next \in PdcpSN /\ increment_sn(sn) \in PdcpSN
      /\ increment_sn(sn) = IF sn = NofSns - 1 THEN 0 ELSE sn + 1
  BY NextSn
<1>1. d \in PdcpSN /\ d = (IF sn >= next THEN sn - next ELSE sn - next + NofSns) /\ d < H
  BY <1>0, SnDistance
<1>2. /\ COUNT(rx_hfn, sn) = COUNT(rx_hfn, 0) + sn
      /\ NextRxCount = COUNT(rx_hfn, 0) + next /\ NextRxCount \in Nat
      /\ COUNT(rx_hfn + 1, sn) = COUNT(rx_hfn, 0) + sn + NofSns
      /\ COUNT(rx_hfn, 0) \in Nat
  <2>1. 0 \in PdcpSN
    BY SnSpace
  <2>2. COUNT(rx_hfn + 1, sn) = COUNT(rx_hfn, sn) + NofSns /\ COUNT(rx_hfn, sn) = COUNT(rx_hfn, 0) + sn
    BY NextTurn
  <2>3. COUNT(rx_hfn, 0) \in Nat
    BY <2>1, NextTurn
  <2>4. NextRxCount = COUNT(rx_hfn, 0) + next /\ NextRxCount \in Nat
    BY <1>0, NextTurn DEF NextRxCount
  <2> QED
    BY <2>2, <2>3, <2>4, SnSpace
<1> HIDE DEF d
<1>3. CASE sn < next
  <2>1. /\ next - sn > ReorderingWindow /\ ~(sn - next >= ReorderingWindow)
        /\ ~(sn - next \in 0 .. ReorderingWindow - 1)
    <3>1. d = sn - next + NofSns /\ sn \in Int /\ next \in Int
      BY <1>0, <1>1, <1>3, SnSpace
    <3>2. next - sn > H
      BY <1>1, <3>1, SnSpace
    <3> QED
      BY <3>1, <3>2, <1>3, SnSpace DEF ReorderingWindow
  <2>2. RxCount(sn) = [hfn |-> rx_hfn + 1, next |-> sn + 1, count |-> COUNT(rx_hfn + 1, sn)]
    BY <2>1 DEF RxCount
  <2>3. sn + 1 = increment_sn(sn)
    BY <1>0, <1>3, SnSpace
  <2>4. COUNT(rx_hfn + 1, sn + 1) = COUNT(rx_hfn + 1, sn) + 1
    <3>1. rx_hfn + 1 \in Nat /\ sn + 1 \in PdcpSN
      BY <1>0, <2>3
    <3>2. /\ COUNT(rx_hfn + 1, sn + 1) = COUNT(rx_hfn + 1, 0) + (sn + 1)
          /\ COUNT(rx_hfn + 1, sn) = COUNT(rx_hfn + 1, 0) + sn
      BY <3>1, NextTurn
    <3>3. COUNT(rx_hfn + 1, 0) \in Nat
      <4>1. 0 \in PdcpSN
        BY SnSpace
      <4> QED
        BY <3>1, <4>1, NextTurn
    <3> QED
      BY <3>2, <3>3, SnSpace
  <2>5. COUNT(rx_hfn + 1, sn) = NextRxCount + d
    BY <1>0, <1>1, <1>2, <1>3, SnSpace
  <2>6. COUNT(rx_hfn + 1, sn) \in Nat
    BY <1>1, <1>2, <2>5, SnSpace
  <2> QED
    BY <1>0, <1>2, <2>2, <2>3, <2>4, <2>5, <2>6 DEF d
<1>4. CASE ~(sn < next)
  <2>1. /\ ~(next - sn > ReorderingWindow) /\ ~(sn - next >= ReorderingWindow)
        /\ sn - next \in 0 .. ReorderingWindow - 1
    BY <1>0, <1>1, <1>4, SnSpace DEF ReorderingWindow
  <2> DEFINE hfn == IF sn = NofSns - 1 THEN rx_hfn + 1 ELSE rx_hfn
  <2>2. RxCount(sn) = [hfn |-> hfn, next |-> increment_sn(sn), count |-> COUNT(rx_hfn, sn)]
    BY <2>1 DEF RxCount
  <2>3. COUNT(rx_hfn, sn) = NextRxCount + d
    BY <1>0, <1>1, <1>2, <1>4, SnSpace
  <2>4. COUNT(hfn, increment_sn(sn)) = COUNT(rx_hfn, sn) + 1
    <3>1. CASE sn = NofSns - 1
      <4>1. hfn = rx_hfn + 1 /\ increment_sn(sn) = 0
        BY <1>0, <3>1
      <4>2. COUNT(rx_hfn + 1, 0) = COUNT(rx_hfn, 0) + NofSns
        BY NextTurn, SnSpace
      <4> QED
        BY <1>2, <3>1, <4>1, <4>2, SnSpace
    <3>2. CASE sn # NofSns - 1
      <4>1. hfn = rx_hfn /\ increment_sn(sn) = sn + 1 /\ sn + 1 \in PdcpSN
        BY <1>0, <3>2
      <4>2. COUNT(rx_hfn, sn + 1) = COUNT(rx_hfn, 0) + (sn + 1)
        BY <4>1, NextTurn
      <4> QED
        BY <1>2, <4>1, <4>2, SnSpace
    <3> QED
      BY <3>1, <3>2
  <2>5. hfn \in Nat
    OBVIOUS
  <2> HIDE DEF hfn
  <2>6. COUNT(rx_hfn, sn) \in Nat
    BY <1>1, <1>2, <2>3, SnSpace
  <2> QED
    BY <1>0, <1>2, <2>2, <2>3, <2>4, <2>5, <2>6 DEF d
<1> QED
  BY <1>3, <1>4

-----------------------------------------------------------------------------
(* The inductive invariant.                                                    *)

Pdu == [sn : PdcpSN, sdu : Nat, tx_count : Nat]

TxInv ==
  /\ bearer \in {"srb", "um", "am"}
  /\ next_pdcp_tx_sn \in PdcpSN /\ tx_hfn \in Nat /\ pdcp_written \in Nat
  /\ QueueOK(undelivered_sdus)
  /\ rlc_queue \in Seq(Pdu) /\ Len(rlc_queue) <= QueueLen
  /\ air \in Seq(Pdu)
  /\ forwarded \in Seq(PdcpSN \X Nat)

CountIn(history, c) == \E j \in DOMAIN history : history[j].count = c

\* The next SN follows the last one submitted, so that the COUNTs delivered ascend:
\* those from which status reports are made are below the next one.
RxInv ==
  /\ rx_hfn \in Nat /\ next_pdcp_rx_sn \in PdcpSN /\ last_submitted_pdcp_rx_sn \in PdcpSN
  /\ fmc \in Nat /\ largest_rx_count \in Nat
  /\ pdcp_delivered \in Seq([sdu : Nat, count : Nat, tx_count : Nat])
  /\ AscendingAbove(rx_counts_info, fmc)
  /\ IF bearer = "am" THEN next_pdcp_rx_sn = increment_sn(last_submitted_pdcp_rx_sn)
                      ELSE rx_counts_info = << >>
  /\ \A i \in DOMAIN rx_counts_info :
       /\ rx_counts_info[i] < NextRxCount
       /\ rx_counts_info[i] <= largest_rx_count
       /\ CountIn(pdcp_delivered, rx_counts_info[i])

PdcpInv == TxInv /\ RxInv

\* The bearers of the initial states (init of pdcp_entity_lte, or a bearer in use).
LEMMA PdcpInvInit == PdcpLinkInit => PdcpInv
<1> SUFFICES ASSUME PdcpLinkInit PROVE PdcpInv
  OBVIOUS
<1>1. PICK s \in PdcpStarts : PdcpTxQuiet(s) /\ PdcpRxQuiet(s)
  BY DEF PdcpLinkInit
<1>2. s \in Nat
  BY PdcpLinkAssumption
<1>3. /\ s % NofSns \in PdcpSN /\ s \div NofSns \in Nat
      /\ (s + NofSns - 1) % NofSns \in PdcpSN
      /\ increment_sn((s + NofSns - 1) % NofSns) = s % NofSns
  <2>0. NofSns \in Nat \ {0}
    BY SnSpace
  <2>1. /\ s % NofSns \in PdcpSN /\ s \div NofSns \in Nat
        /\ (s + NofSns - 1) % NofSns \in PdcpSN
    BY <1>2, <2>0, SnSpace
  <2> DEFINE n == NofSns
             m == s % n
             q == s \div n
             last == (s + n - 1) % n
  <2>2. s = q * n + m /\ m \in 0 .. n - 1 /\ q \in Int /\ n \in Nat \ {0}
    BY <1>2, <2>0, DivMod
  <2>3. last = IF m = 0 THEN n - 1 ELSE m - 1
    <3> HIDE DEF n, m, q
    <3> DEFINE x == s + n - 1
               k == IF m = 0 THEN q ELSE q + 1
               r == IF m = 0 THEN n - 1 ELSE m - 1
    <3>1. (q + 1) * n = q * n + n
      BY <2>2
    <3>2. n \in Nat \ {0} /\ k \in Int /\ r \in 0 .. n - 1 /\ x \in Int /\ x = k * n + r
      BY <1>2, <2>2, <3>1
    <3> HIDE DEF x, k, r
    <3>3. x % n = r
      BY <3>2, ModUnique
    <3> QED
      BY <3>3 DEF x, r
  <2>4. last \in PdcpSN /\ increment_sn(last) = IF last = NofSns - 1 THEN 0 ELSE last + 1
    BY <2>1, NextSn
  <2> HIDE DEF last, m
  <2>5. increment_sn(last) = m
    BY <2>2, <2>3, <2>4, SnSpace
  <2> QED
    BY <2>1, <2>5 DEF last, m
<1>4. bearer \in {"srb", "um", "am"}
  BY PdcpLinkAssumption DEF PdcpLinkInit
<1>5. QueueOK(undelivered_sdus)
  BY <1>1, <1>3 DEF PdcpTxQuiet, QueueOK
<1>6. TxInv
  BY <1>1, <1>3, <1>4, <1>5, PdcpAssumption DEF TxInv, PdcpTxQuiet, PdcpLinkInit
<1>7. AscendingAbove(<< >>, s)
  BY DEF AscendingAbove
<1>8. RxInv
  <2>1. (IF s = 0 THEN 0 ELSE s - 1) \in Nat
    BY <1>2
  <2> QED
    BY <1>1, <1>2, <1>3, <1>7, <2>1 DEF RxInv, PdcpRxQuiet
<1> QED
  BY <1>6, <1>8 DEF PdcpInv

\* write_sdu
LEMMA AcceptKeeps ==
  ASSUME TxInv, NEW sdu \in Nat, NEW sn \in PdcpSN, Accept(sdu, sn)
  PROVE  /\ QueueOK(undelivered_sdus') /\ bearer' = bearer
         /\ rlc_queue' \in Seq(Pdu) /\ Len(rlc_queue') <= QueueLen
<1>1. QueueOK(undelivered_sdus')
  BY AddKeepsQueue DEF TxInv, Accept
<1>2. COUNT(tx_hfn, sn) \in Nat
  BY NextTurn DEF TxInv
<1>3. [sn |-> sn, sdu |-> sdu, tx_count |-> COUNT(tx_hfn, sn)] \in Pdu
  BY <1>2 DEF Pdu
<1>4. rlc_queue' = Append(rlc_queue, [sn |-> sn, sdu |-> sdu, tx_count |-> COUNT(tx_hfn, sn)])
  BY DEF Accept
<1>5. rlc_queue' \in Seq(Pdu) /\ Len(rlc_queue') = Len(rlc_queue) + 1
  BY <1>3, <1>4 DEF TxInv
<1>6. Len(rlc_queue) < QueueLen /\ Len(rlc_queue) \in Nat /\ QueueLen \in Nat
  BY PdcpAssumption DEF Accept, TxInv
<1> QED
  BY <1>1, <1>5, <1>6 DEF Accept

\* A list of numbers in ascending order, as the model takes it from a set.
LEMMA AscendingList ==
  ASSUME NEW ns, IsFiniteSet(ns), NEW l \in Ascending(ns)
  PROVE  /\ Len(l) = Cardinality(ns) /\ Len(l) \in Nat
         /\ DOMAIN l = 1 .. Len(l)
         /\ l \in Seq(ns)
         /\ \A i, j \in DOMAIN l : i < j => l[i] < l[j]
<1>1. Cardinality(ns) \in Nat
  BY FS_CardinalityType
<1>2. l \in [1 .. Cardinality(ns) -> ns] /\ \A i, j \in DOMAIN l : i < j => l[i] < l[j]
  BY DEF Ascending, SetToSeqs
<1> QED
  BY <1>1, <1>2

\* discard_sdu of RLC
LEMMA DiscardKeeps ==
  ASSUME rlc_queue \in Seq(Pdu), NEW sn, RlcDiscards(sn)
  PROVE  /\ rlc_queue' \in Seq(Pdu) /\ Len(rlc_queue') <= Len(rlc_queue)
         /\ \E f \in Seq(DOMAIN rlc_queue) :
              /\ DOMAIN f = DOMAIN rlc_queue'
              /\ \A i, j \in DOMAIN f : i < j => f[i] < f[j]
              /\ \A i \in DOMAIN f : rlc_queue'[i] = rlc_queue[f[i]]
<1> DEFINE I == {i \in DOMAIN rlc_queue : rlc_queue[i].sn # sn}
<1>1. PICK f \in Ascending(I) : rlc_queue' = [k \in DOMAIN f |-> rlc_queue[f[k]]]
  BY DEF RlcDiscards
<1>2. Len(rlc_queue) \in Nat /\ DOMAIN rlc_queue = 1 .. Len(rlc_queue)
  OBVIOUS
<1>3. IsFiniteSet(I) /\ Cardinality(I) <= Len(rlc_queue)
  <2>1. IsFiniteSet(1 .. Len(rlc_queue)) /\ Cardinality(1 .. Len(rlc_queue)) = Len(rlc_queue)
    BY <1>2, FS_Interval
  <2>2. I \in SUBSET (1 .. Len(rlc_queue))
    BY <1>2
  <2> QED
    BY <2>1, <2>2, FS_Subset
<1>4. /\ Len(f) = Cardinality(I) /\ Len(f) \in Nat /\ DOMAIN f = 1 .. Len(f) /\ f \in Seq(I)
      /\ \A i, j \in DOMAIN f : i < j => f[i] < f[j]
  BY <1>3, AscendingList
<1>5. \A k \in DOMAIN f : f[k] \in I
  BY <1>4
<1>6. f \in Seq(DOMAIN rlc_queue)
  <2>1. \A k \in 1 .. Len(f) : f[k] \in DOMAIN rlc_queue
    BY <1>4, <1>5
  <2> HIDE DEF I
  <2> QED
    BY <1>4, <2>1
<1> HIDE DEF I
<1>7. /\ DOMAIN rlc_queue' = DOMAIN f
      /\ \A k \in DOMAIN f : rlc_queue'[k] = rlc_queue[f[k]] /\ rlc_queue[f[k]] \in Pdu
  BY <1>1, <1>4, <1>5 DEF I
<1>8. rlc_queue' \in [1 .. Len(f) -> Pdu]
  BY <1>1, <1>4, <1>7
<1>9. rlc_queue' \in Seq(Pdu) /\ Len(rlc_queue') = Len(f)
  BY <1>4, <1>8
<1> QED
  BY <1>3, <1>4, <1>6, <1>7, <1>9

\* The transmitting side, RLC and GTP-U: every step keeps the queue of undelivered
\* SDUs starting at fms, and SNs in range.
LEMMA TxStep ==
  ASSUME TxInv, [PdcpLinkNext]_pdcpLinkVars
  PROVE  TxInv'
<1>1. /\ bearer \in {"srb", "um", "am"}
      /\ next_pdcp_tx_sn \in PdcpSN /\ tx_hfn \in Nat /\ pdcp_written \in Nat
      /\ QueueOK(undelivered_sdus)
      /\ rlc_queue \in Seq(Pdu) /\ Len(rlc_queue) <= QueueLen /\ Len(rlc_queue) \in Nat
      /\ air \in Seq(Pdu) /\ forwarded \in Seq(PdcpSN \X Nat)
      /\ QueueLen \in Nat
  BY PdcpAssumption DEF TxInv
<1> USE DEF pdcpTxVars, pdcpRlcVars, pdcpHistory
<1>2. CASE OfferSdu
  <2>1. /\ pdcp_written' = pdcp_written + 1 /\ pdcp_written + 1 \in Nat
        /\ UNCHANGED <<air, forwarded>>
    BY <1>1, <1>2 DEF OfferSdu
  <2>2. CASE Accept(pdcp_written + 1, next_pdcp_tx_sn) /\ UseNextSn
    <3>1. next_pdcp_tx_sn' \in PdcpSN /\ tx_hfn' \in Nat
      BY <1>1, <2>2, NextSn DEF UseNextSn
    <3>2. /\ QueueOK(undelivered_sdus') /\ bearer' = bearer
          /\ rlc_queue' \in Seq(Pdu) /\ Len(rlc_queue') <= QueueLen
      BY <1>1, <2>1, <2>2, AcceptKeeps
    <3> QED
      BY <1>1, <2>1, <3>1, <3>2 DEF TxInv
  <2>3. CASE Refuse(next_pdcp_tx_sn) /\ UNCHANGED <<next_pdcp_tx_sn, tx_hfn>>
    BY <1>1, <2>1, <2>3 DEF Refuse, TxInv
  <2> QED
    BY <1>2, <2>2, <2>3 DEF OfferSdu
<1>3. CASE WriteForwarded
  <2>1. /\ forwarded # << >> /\ forwarded' = Tail(forwarded)
        /\ UNCHANGED <<next_pdcp_tx_sn, tx_hfn, air, pdcp_written>>
    BY <1>3 DEF WriteForwarded
  <2>2. /\ Head(forwarded) \in PdcpSN \X Nat /\ forwarded' \in Seq(PdcpSN \X Nat)
    BY <1>1, <2>1
  <2>3. Head(forwarded)[1] \in PdcpSN /\ Head(forwarded)[2] \in Nat
    BY <2>2
  <2>4. CASE Accept(Head(forwarded)[2], Head(forwarded)[1])
    <3>1. /\ QueueOK(undelivered_sdus') /\ bearer' = bearer
          /\ rlc_queue' \in Seq(Pdu) /\ Len(rlc_queue') <= QueueLen
      BY <2>3, <2>4, AcceptKeeps
    <3> QED
      BY <1>1, <2>1, <2>2, <3>1 DEF TxInv
  <2>5. CASE Refuse(Head(forwarded)[1])
    BY <1>1, <2>1, <2>2, <2>5 DEF Refuse, TxInv
  <2> QED
    BY <1>3, <2>4, <2>5 DEF WriteForwarded
<1>4. CASE RlcStart
  <2>1. /\ rlc_queue # << >> /\ rlc_queue' = Tail(rlc_queue)
        /\ air' = Append(air, Head(rlc_queue))
        /\ UNCHANGED <<bearer, next_pdcp_tx_sn, tx_hfn, undelivered_sdus, forwarded, pdcp_written>>
    BY <1>4 DEF RlcStart
  <2>2. /\ rlc_queue' \in Seq(Pdu) /\ Len(rlc_queue') = Len(rlc_queue) - 1
        /\ air' \in Seq(Pdu)
    BY <1>1, <2>1
  <2>3. Len(rlc_queue') <= QueueLen
    BY <1>1, <2>2
  <2> QED
    BY <1>1, <2>1, <2>2, <2>3 DEF TxInv
<1>5. CASE RlcArrive
  BY <1>1, <1>5 DEF RlcArrive, TxInv
<1>6. ASSUME NEW sns, Notify(sns), UNCHANGED <<air, forwarded, pdcp_written>> PROVE TxInv'
  BY <1>1, <1>6, ClearKeepsQueue DEF Notify, TxInv
<1>7. CASE RlcNotifies
  BY <1>6, <1>7 DEF RlcNotifies
<1>8. CASE RlcFails
  BY <1>6, <1>8 DEF RlcFails
<1>9. CASE RlcUmLoses
  BY <1>1, <1>9 DEF RlcUmLoses, TxInv
<1>10. CASE SduDiscarded
  <2>1. PICK sn \in DOMAIN undelivered_sdus.sdus :
          /\ RlcDiscards(sn)
          /\ undelivered_sdus' = ClearSdus(undelivered_sdus, {sn})
          /\ UNCHANGED <<bearer, next_pdcp_tx_sn, tx_hfn>>
    BY <1>10 DEF SduDiscarded, DiscardTimerExpires
  <2>2. UNCHANGED <<air, forwarded, pdcp_written>>
    BY <1>10 DEF SduDiscarded
  <2>3. rlc_queue' \in Seq(Pdu) /\ Len(rlc_queue') <= Len(rlc_queue)
    BY <1>1, <2>1, DiscardKeeps
  <2>4. Len(rlc_queue') <= QueueLen
    BY <1>1, <2>3
  <2>5. QueueOK(undelivered_sdus')
    BY <1>1, <2>1, ClearKeepsQueue
  <2> QED
    BY <1>1, <2>1, <2>2, <2>3, <2>4, <2>5 DEF TxInv
<1>11. 0 \in PdcpSN /\ 0 \in Nat /\ Len(<< >>) = 0 /\ Len(<< >>) <= QueueLen
  BY <1>1, SnSpace
<1>12. CASE ReestablishBoth
  BY <1>1, <1>11, <1>12 DEF ReestablishBoth, TxReestablish, TxInv
<1>13. CASE ReplaceReceiver
  BY <1>1, <1>11, <1>13 DEF ReplaceReceiver, Replace, TxInv
<1>14. QueueOK(NoSdus)
  BY <1>11 DEF QueueOK, NoSdus
<1>15. CASE ReestablishSender
  BY <1>1, <1>11, <1>14, <1>15 DEF ReestablishSender, Replace, TxSetBearerState, TxInv
<1>16. CASE HandOverSender
  <2> DEFINE sdus == undelivered_sdus.sdus
  <2>1. PICK sns \in Ascending(DOMAIN sdus) :
          forwarded' = [i \in DOMAIN sns |-> <<sns[i], sdus[sns[i]]>>]
    BY <1>16 DEF HandOverSender
  <2>2. IsFiniteSet(DOMAIN sdus)
    <3>1. IsFiniteSet(PdcpSN)
      BY SnSpace, FS_Interval
    <3> QED
      BY <1>1, <3>1, FS_Subset DEF QueueOK
  <2>3. Len(sns) \in Nat /\ DOMAIN sns = 1 .. Len(sns) /\ sns \in Seq(DOMAIN sdus)
    BY <2>2, AscendingList
  <2>4. \A i \in 1 .. Len(sns) : <<sns[i], sdus[sns[i]]>> \in PdcpSN \X Nat
    BY <1>1, <2>3 DEF QueueOK
  <2>5. forwarded' \in [1 .. Len(sns) -> PdcpSN \X Nat]
    BY <2>1, <2>3, <2>4
  <2>6. forwarded' \in Seq(PdcpSN \X Nat)
    BY <2>3, <2>5
  <2>7. /\ undelivered_sdus' = NoSdus /\ rlc_queue' = << >> /\ air' = << >>
        /\ UNCHANGED <<bearer, next_pdcp_tx_sn, tx_hfn, pdcp_written>>
    BY <1>16 DEF HandOverSender, Replace, TxSetBearerState
  <2> QED
    BY <1>1, <1>11, <1>14, <2>6, <2>7 DEF TxInv
<1>17. CASE SendStatusReport
  BY <1>1, <1>17 DEF SendStatusReport, TxInv
<1>18. CASE ReceiveStatusReport
  BY <1>6, <1>18 DEF ReceiveStatusReport, HandleStatusReport
<1>19. CASE UNCHANGED pdcpLinkVars
  BY <1>1, <1>19 DEF pdcpLinkVars, TxInv
<1> QED
  BY <1>2, <1>3, <1>4, <1>5, <1>7, <1>8, <1>9, <1>10, <1>12, <1>13, <1>15, <1>16, <1>17,
     <1>18, <1>19 DEF PdcpLinkNext

\* handle_am_drb_pdu with a PDU that it keeps.
LEMMA AmPduKept ==
  ASSUME RxInv, bearer = "am", bearer' = bearer, NEW pdu \in Pdu,
         ~AlreadySubmitted(pdu.sn), HandleAmDrbPdu(pdu)
  PROVE  /\ RxInv'
         /\ \E c \in Nat : /\ c = NextRxCount + ((pdu.sn - next_pdcp_rx_sn) % NofSns)
                           /\ NextRxCount' = c + 1
                           /\ pdcp_delivered' = Append(pdcp_delivered,
                                [sdu |-> pdu.sdu, count |-> c, tx_count |-> pdu.tx_count])
<1>1. /\ rx_hfn \in Nat /\ next_pdcp_rx_sn \in PdcpSN /\ last_submitted_pdcp_rx_sn \in PdcpSN
      /\ fmc \in Nat /\ largest_rx_count \in Nat
      /\ pdcp_delivered \in Seq([sdu : Nat, count : Nat, tx_count : Nat])
      /\ AscendingAbove(rx_counts_info, fmc)
      /\ next_pdcp_rx_sn = increment_sn(last_submitted_pdcp_rx_sn)
      /\ \A i \in DOMAIN rx_counts_info :
           /\ rx_counts_info[i] < NextRxCount
           /\ rx_counts_info[i] <= largest_rx_count
           /\ CountIn(pdcp_delivered, rx_counts_info[i])
  BY DEF RxInv
<1>2. pdu.sn \in PdcpSN /\ pdu.sdu \in Nat /\ pdu.tx_count \in Nat
  BY DEF Pdu
<1> DEFINE rx == RxCount(pdu.sn)
           c == rx.count
           queue == UpdateRxCounts(c)
           d == (pdu.sn - next_pdcp_rx_sn) % NofSns
<1>3. d \in PdcpSN /\ d < H
  <2>1. d \in PdcpSN
    BY <1>1, <1>2, SnDistance
  <2>2. ~(d >= H)
    BY <1>1, <1>2, Judged
  <2> QED
    BY <2>1, <2>2, SnSpace
<1>4. /\ rx.hfn \in Nat /\ rx.next = increment_sn(pdu.sn) /\ rx.next \in PdcpSN
      /\ c = NextRxCount + d /\ COUNT(rx.hfn, rx.next) = c + 1
      /\ NextRxCount \in Nat /\ c \in Nat
  BY <1>1, <1>2, <1>3, Counted
<1>5. /\ rx_hfn' = rx.hfn /\ next_pdcp_rx_sn' = rx.next
      /\ last_submitted_pdcp_rx_sn' = pdu.sn
      /\ fmc' = queue.fmc /\ rx_counts_info' = queue.counts
      /\ largest_rx_count' = IF c >= fmc /\ c > largest_rx_count THEN c ELSE largest_rx_count
      /\ pdcp_delivered' = Append(pdcp_delivered,
           [sdu |-> pdu.sdu, count |-> c, tx_count |-> pdu.tx_count])
  BY DEF HandleAmDrbPdu
<1> HIDE DEF d, c, rx
<1>6. NextRxCount' = c + 1
  BY <1>4, <1>5 DEF NextRxCount, COUNT
<1>7. \A i \in DOMAIN rx_counts_info : rx_counts_info[i] \in Nat /\ rx_counts_info[i] < c
  <2>1. \A i \in DOMAIN rx_counts_info : rx_counts_info[i] \in Nat
    BY <1>1 DEF AscendingAbove
  <2>2. c >= NextRxCount
    BY <1>3, <1>4, SnSpace
  <2> QED
    BY <1>1, <1>4, <2>1, <2>2
<1>8. /\ queue.fmc \in Nat /\ AscendingAbove(queue.counts, queue.fmc)
      /\ \A i \in DOMAIN queue.counts :
           \/ ElementOf(rx_counts_info, queue.counts[i])
           \/ queue.counts[i] = c /\ c >= fmc
  BY <1>1, <1>4, <1>7, UpdateKeeps
<1> HIDE DEF queue
<1> DEFINE new == [sdu |-> pdu.sdu, count |-> c, tx_count |-> pdu.tx_count]
<1>9. new \in [sdu : Nat, count : Nat, tx_count : Nat] /\ new.count = c
  BY <1>2, <1>4
<1> HIDE DEF new
<1>10. /\ pdcp_delivered' \in Seq([sdu : Nat, count : Nat, tx_count : Nat])
       /\ DOMAIN pdcp_delivered' = 1 .. Len(pdcp_delivered) + 1
       /\ pdcp_delivered'[Len(pdcp_delivered) + 1] = new
       /\ \A j \in DOMAIN pdcp_delivered : j \in DOMAIN pdcp_delivered'
                                           /\ pdcp_delivered'[j] = pdcp_delivered[j]
       /\ Len(pdcp_delivered) + 1 \in DOMAIN pdcp_delivered'
  <2>1. pdcp_delivered \in Seq([sdu : Nat, count : Nat, tx_count : Nat])
    BY <1>1
  <2>2. pdcp_delivered' = Append(pdcp_delivered, new)
    BY <1>5 DEF new
  <2>3. new \in [sdu : Nat, count : Nat, tx_count : Nat]
    BY <1>9
  <2> QED
    BY <2>1, <2>2, <2>3
<1>11. CountIn(pdcp_delivered', c)
  BY <1>9, <1>10 DEF CountIn
<1>12. \A x : CountIn(pdcp_delivered, x) => CountIn(pdcp_delivered', x)
  BY <1>10 DEF CountIn
<1>13. /\ largest_rx_count' \in Nat /\ largest_rx_count <= largest_rx_count'
       /\ c >= fmc => c <= largest_rx_count'
  BY <1>1, <1>4, <1>5
<1>14. ASSUME NEW i \in DOMAIN rx_counts_info'
       PROVE  /\ rx_counts_info'[i] < NextRxCount'
              /\ rx_counts_info'[i] <= largest_rx_count'
              /\ CountIn(pdcp_delivered', rx_counts_info'[i])
  <2>1. rx_counts_info'[i] = queue.counts[i] /\ i \in DOMAIN queue.counts
    BY <1>5
  <2>2. CASE ElementOf(rx_counts_info, queue.counts[i])
    <3>1. PICK j \in DOMAIN rx_counts_info : rx_counts_info[j] = queue.counts[i]
      BY <2>2 DEF ElementOf
    <3>2. /\ rx_counts_info[j] \in Nat /\ rx_counts_info[j] < c
          /\ rx_counts_info[j] <= largest_rx_count
          /\ CountIn(pdcp_delivered, rx_counts_info[j])
      BY <1>1, <1>7
    <3>3. rx_counts_info[j] < c + 1 /\ rx_counts_info[j] <= largest_rx_count'
      BY <1>1, <1>4, <1>13, <3>2
    <3>4. CountIn(pdcp_delivered', rx_counts_info[j])
      BY <1>12, <3>2
    <3> QED
      BY <1>6, <2>1, <3>1, <3>3, <3>4
  <2>3. CASE queue.counts[i] = c /\ c >= fmc
    BY <1>4, <1>6, <1>11, <1>13, <2>1, <2>3
  <2> QED
    BY <1>8, <2>1, <2>2, <2>3
<1>15. RxInv'
  <2>1. bearer' = "am"
    OBVIOUS
  <2>2. /\ rx_hfn' \in Nat /\ next_pdcp_rx_sn' \in PdcpSN /\ last_submitted_pdcp_rx_sn' \in PdcpSN
        /\ fmc' \in Nat /\ AscendingAbove(rx_counts_info', fmc')
        /\ next_pdcp_rx_sn' = increment_sn(last_submitted_pdcp_rx_sn')
    BY <1>2, <1>4, <1>5, <1>8
  <2> QED
    BY <1>10, <1>13, <1>14, <2>1, <2>2 DEF RxInv, increment_sn
<1> QED
  BY <1>4, <1>5, <1>6, <1>15 DEF d

\* handle_srb_pdu and handle_um_drb_pdu with a PDU that they keep.
LEMMA InOrderPduKept ==
  ASSUME RxInv, bearer # "am", bearer' = bearer, NEW pdu \in Pdu, InOrderPdu(pdu)
  PROVE  RxInv'
<1>1. pdu.sn \in PdcpSN /\ pdu.sdu \in Nat /\ pdu.tx_count \in Nat
  BY DEF Pdu
<1>2. HfnOf(pdu.sn) \in Nat
  BY DEF HfnOf, RxInv
<1>3. COUNT(HfnOf(pdu.sn), pdu.sn) \in Nat
  BY <1>1, <1>2, NextTurn
<1> DEFINE new == [sdu |-> pdu.sdu, count |-> COUNT(HfnOf(pdu.sn), pdu.sn),
                   tx_count |-> pdu.tx_count]
<1>4. new \in [sdu : Nat, count : Nat, tx_count : Nat]
  BY <1>1, <1>3
<1>5. pdcp_delivered' = Append(pdcp_delivered, new)
  BY DEF InOrderPdu
<1> HIDE DEF new
<1>6. pdcp_delivered' \in Seq([sdu : Nat, count : Nat, tx_count : Nat])
  BY <1>4, <1>5 DEF RxInv
<1>7. next_pdcp_rx_sn' \in PdcpSN
  BY <1>1, NextSn DEF InOrderPdu
<1>8. rx_hfn' \in Nat
  BY <1>2 DEF InOrderPdu
<1>9. UNCHANGED <<last_submitted_pdcp_rx_sn, fmc, largest_rx_count, rx_counts_info>>
  BY DEF InOrderPdu
<1>10. rx_counts_info' = << >> /\ AscendingAbove(rx_counts_info', fmc')
  BY <1>9 DEF RxInv
<1> QED
  BY <1>6, <1>7, <1>8, <1>9, <1>10 DEF RxInv

\* The receiving side.
LEMMA RxStep ==
  ASSUME TxInv, RxInv, [PdcpLinkNext]_pdcpLinkVars
  PROVE  RxInv'
<1>1. ASSUME UNCHANGED <<bearer, rx_hfn, next_pdcp_rx_sn, last_submitted_pdcp_rx_sn, fmc,
                         largest_rx_count, rx_counts_info, pdcp_delivered>>
      PROVE  RxInv'
  <2>1. /\ UNCHANGED bearer /\ UNCHANGED rx_hfn /\ UNCHANGED next_pdcp_rx_sn
        /\ UNCHANGED last_submitted_pdcp_rx_sn /\ UNCHANGED fmc /\ UNCHANGED largest_rx_count
        /\ UNCHANGED rx_counts_info /\ UNCHANGED pdcp_delivered
    BY <1>1
  <2> QED
    BY <2>1 DEF RxInv, NextRxCount, COUNT, increment_sn
<1> USE DEF pdcpTxVars, pdcpRxVars, pdcpRlcVars, pdcpHistory
<1>2. CASE RlcArrive
  <2>1. air \in Seq(Pdu) /\ air # << >> /\ bearer \in {"srb", "um", "am"}
    BY <1>2 DEF RlcArrive, TxInv
  <2> DEFINE pdu == Head(air)
  <2>2. pdu \in Pdu /\ WritePdu(pdu) /\ bearer' = bearer
    BY <1>2, <2>1 DEF RlcArrive
  <2> HIDE DEF pdu
  <2>3. CASE bearer = "srb"
    <3>1. HandleSrbPdu(pdu)
      BY <2>2, <2>3 DEF WritePdu
    <3>2. CASE InOrderPdu(pdu)
      BY <2>2, <2>3, <3>2, InOrderPduKept
    <3>3. CASE ~InOrderPdu(pdu)
      BY <1>1, <2>2, <3>1, <3>3 DEF HandleSrbPdu
    <3> QED
      BY <3>2, <3>3
  <2>4. CASE bearer = "um"
    <3>1. InOrderPdu(pdu)
      BY <2>2, <2>4 DEF WritePdu
    <3> QED
      BY <2>2, <2>4, <3>1, InOrderPduKept
  <2>5. CASE bearer = "am"
    <3>1. HandleAmDrbPdu(pdu)
      BY <2>2, <2>5 DEF WritePdu
    <3>2. CASE AlreadySubmitted(pdu.sn)
      BY <1>1, <2>2, <3>1, <3>2 DEF HandleAmDrbPdu
    <3>3. CASE ~AlreadySubmitted(pdu.sn)
      BY <2>2, <2>5, <3>1, <3>3, AmPduKept
    <3> QED
      BY <3>2, <3>3
  <2> QED
    BY <2>1, <2>3, <2>4, <2>5
<1>3. CASE ReestablishBoth
  <2>1. /\ bearer # "am" /\ bearer' = bearer /\ rx_hfn' = 0 /\ next_pdcp_rx_sn' = 0
        /\ UNCHANGED <<last_submitted_pdcp_rx_sn, fmc, largest_rx_count, rx_counts_info,
                       pdcp_delivered>>
    BY <1>3 DEF ReestablishBoth, TxReestablish, RxReestablish
  <2>2. 0 \in PdcpSN
    BY SnSpace
  <2>3. rx_counts_info' = << >> /\ AscendingAbove(rx_counts_info', fmc')
    BY <2>1 DEF RxInv
  <2> QED
    BY <2>1, <2>2, <2>3 DEF RxInv
<1>4. CASE ReplaceReceiver
  <2>1. /\ bearer' = bearer /\ fmc' = COUNT(rx_hfn, last_submitted_pdcp_rx_sn)
        /\ largest_rx_count' = 0 /\ rx_counts_info' = << >>
        /\ UNCHANGED <<rx_hfn, next_pdcp_rx_sn, last_submitted_pdcp_rx_sn, pdcp_delivered>>
    BY <1>4 DEF ReplaceReceiver, RxSetBearerState
  <2>2. fmc' \in Nat
    BY <2>1, NextTurn DEF RxInv
  <2>3. AscendingAbove(rx_counts_info', fmc')
    BY <2>1 DEF AscendingAbove
  <2> QED
    BY <2>1, <2>2, <2>3 DEF RxInv, increment_sn
<1>5. CASE OfferSdu
  BY <1>1, <1>5 DEF OfferSdu, Accept, Refuse
<1>6. CASE WriteForwarded
  BY <1>1, <1>6 DEF WriteForwarded, Accept, Refuse
<1>7. CASE RlcStart
  BY <1>1, <1>7 DEF RlcStart
<1>8. CASE RlcNotifies \/ RlcFails \/ ReceiveStatusReport
  BY <1>1, <1>8 DEF RlcNotifies, RlcFails, ReceiveStatusReport, HandleStatusReport, Notify
<1>9. CASE RlcUmLoses \/ SendStatusReport
  BY <1>1, <1>9 DEF RlcUmLoses, SendStatusReport
<1>10. CASE SduDiscarded
  BY <1>1, <1>10 DEF SduDiscarded, DiscardTimerExpires
<1>11. CASE ReestablishSender \/ HandOverSender
  BY <1>1, <1>11 DEF ReestablishSender, HandOverSender, TxSetBearerState
<1>12. CASE UNCHANGED pdcpLinkVars
  BY <1>1, <1>12 DEF pdcpLinkVars
<1> QED
  BY <1>2, <1>3, <1>4, <1>5, <1>6, <1>7, <1>8, <1>9, <1>10, <1>11, <1>12 DEF PdcpLinkNext

\* PdcpInv is inductive.
LEMMA PdcpInvNext == PdcpInv /\ [PdcpLinkNext]_pdcpLinkVars => PdcpInv'
BY TxStep, RxStep DEF PdcpInv

\* The SNs, COUNTs and queues of both entities stay in their ranges, for every size
\* of the SN space, whatever is lost, discarded, forwarded or reported.
THEOREM PdcpTypeCorrect == PdcpLinkSpec => []PdcpTypeOK
<1>1. PdcpInv => PdcpTypeOK
  BY DEF PdcpInv, TxInv, RxInv, QueueOK, PdcpTypeOK
<1> QED
  BY <1>1, PdcpInvInit, PdcpInvNext, PTL DEF PdcpLinkSpec

\* undelivered_sdus_queue starts at fms and spans at most half of the SNs, in
\* whatever order acknowledgments, failures, timers and status reports clear it.
THEOREM FmsAlwaysFirst == PdcpLinkSpec => []FmsIsFirst
<1>1. PdcpInv => FmsIsFirst
  BY DEF PdcpInv, TxInv, QueueOK, FmsIsFirst
<1> QED
  BY <1>1, PdcpInvInit, PdcpInvNext, PTL DEF PdcpLinkSpec

\* update_rx_counts_queue keeps COUNTs above the first missing one, each once, all of
\* them delivered and none above largest_rx_count, also after set_bearer_state.
THEOREM RxCountsAlwaysSound == PdcpLinkSpec => []RxCountsSound
<1>1. ASSUME PdcpInv PROVE RxCountsSound
  <2> SUFFICES ASSUME NEW i \in DOMAIN rx_counts_info
               PROVE  /\ rx_counts_info[i] > fmc
                      /\ i > 1 => rx_counts_info[i] > rx_counts_info[i - 1]
                      /\ \E j \in DOMAIN pdcp_delivered :
                           pdcp_delivered[j].count = rx_counts_info[i]
                      /\ rx_counts_info[i] <= largest_rx_count
    BY DEF RxCountsSound
  <2>1. /\ AscendingAbove(rx_counts_info, fmc)
        /\ rx_counts_info[i] <= largest_rx_count
        /\ CountIn(pdcp_delivered, rx_counts_info[i])
    BY <1>1 DEF PdcpInv, RxInv
  <2>2. DOMAIN rx_counts_info = 1 .. Len(rx_counts_info)
    BY <2>1 DEF AscendingAbove
  <2>3. ASSUME i > 1 PROVE rx_counts_info[i] > rx_counts_info[i - 1]
    <3>1. i - 1 \in DOMAIN rx_counts_info /\ i - 1 < i
      BY <2>2, <2>3
    <3>2. rx_counts_info[i - 1] < rx_counts_info[i]
      BY <2>1, <3>1 DEF AscendingAbove
    <3> QED
      BY <3>2
  <2> QED
    BY <2>1, <2>3 DEF AscendingAbove, CountIn
<1> QED
  BY <1>1, PdcpInvInit, PdcpInvNext, PTL DEF PdcpLinkSpec
=============================================================================
