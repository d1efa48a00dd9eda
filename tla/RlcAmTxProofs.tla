---------------------------- MODULE RlcAmTxProofs ----------------------------
(***************************************************************************)
(* Proofs about the transmitting half of an RLC AM entity (RlcAmTx), for   *)
(* every window size, number, length and order of SDUs, grant, and status  *)
(* PDU whose NACKs of a part ask for one that lies within the PDU.         *)
(*                                                                         *)
(* The invariant TxInv has three parts that go beyond the types.  EdgesOK  *)
(* relates what handle_control_pdu remembers between its critical sections *)
(* to the edges of the window.  RetxInv says that the entries of the       *)
(* retransmission queue that come after one for a PDU of the window lie    *)
(* near it: a new PDU never takes the SN of an entry that is still queued  *)
(* behind a live one, so that the part the entry asks for is not measured  *)
(* by another PDU.  SduInv follows every SDU from the queue of PDCP, where *)
(* nothing of it was sent, to the list of undelivered SDUs, where it waits *)
(* for the PDUs that carry it, to the list of SDUs PDCP was told of.       *)
(*                                                                         *)
(* How a PDU is filled is a matter of sums over the queue: that the sums   *)
(* exist and grow, and that every cell lies in one part, is shown by least *)
(* counterexample.                                                         *)
(***************************************************************************)
EXTENDS RlcAmTx, RlcAmCommonProofs, SequenceTheorems, FiniteSetTheorems

-----------------------------------------------------------------------------
(* How a PDU is filled: build_data_pdu.                                        *)

\* The sums b[0], ..., b[n] of the lengths p[0], p[1], ...
Sums(p, n) == {b \in [0 .. n -> Nat] :
                 b[0] = 0 /\ \A i \in 1 .. n : b[i] = b[i - 1] + p[i - 1]}

\* The space a PDU has left before each part of its SDUs is defined, however many
\* SDUs the queue holds.
LEMMA SumsExist ==
  ASSUME NEW l \in Nat, NEW p \in [0 .. l -> Nat]
  PROVE  Sums(p, l + 1) # {}
<1> DEFINE Bad == {n \in Nat : n <= l + 1 /\ Sums(p, n) = {}}
<1>1. SUFFICES ASSUME Bad # {} PROVE FALSE
  OBVIOUS
<1>2. PICK n \in Bad : \A m \in Bad : n <= m
  BY <1>1, LowestOf
<1>3. n \in Nat /\ n <= l + 1 /\ Sums(p, n) = {}
  BY <1>2
<1>4. CASE n = 0
  <2>1. [i \in 0 .. 0 |-> 0] \in Sums(p, 0)
    BY DEF Sums
  <2> QED
    BY <1>3, <1>4, <2>1
<1>5. CASE n # 0
  <2>1. n - 1 \in Nat /\ Sums(p, n - 1) # {}
    BY <1>2, <1>3, <1>5
  <2>2. PICK b \in [0 .. n - 1 -> Nat] :
               b[0] = 0 /\ \A i \in 1 .. n - 1 : b[i] = b[i - 1] + p[i - 1]
    BY <2>1 DEF Sums
  <2> DEFINE b2 == [i \in 0 .. n |-> IF i = n THEN b[n - 1] + p[n - 1] ELSE b[i]]
  <2>3. n - 1 \in 0 .. l /\ n - 1 \in 0 .. n - 1 /\ p[n - 1] \in Nat /\ b[n - 1] \in Nat
    BY <2>1, <2>2, <1>3
  <2>4. b2 \in [0 .. n -> Nat] /\ b2[0] = 0
    BY <2>2, <2>3, <1>3, <1>5
  <2>5. ASSUME NEW i \in 1 .. n PROVE b2[i] = b2[i - 1] + p[i - 1]
    <3>1. b2[i - 1] = b[i - 1]
      BY <1>3
    <3>2. CASE i = n
      BY <3>1, <3>2, <1>3
    <3>3. CASE i # n
      BY <3>1, <3>3, <1>3, <2>2
    <3> QED
      BY <3>2, <3>3
  <2>6. b2 \in Sums(p, n)
    BY <2>4, <2>5 DEF Sums
  <2> QED
    BY <1>3, <2>6
<1> QED
  BY <1>4, <1>5

\* A later part of a PDU begins later.
LEMMA SumsOrder ==
  ASSUME NEW l \in Nat, NEW p \in [0 .. l -> Nat], NEW b \in Sums(p, l + 1),
         NEW i \in 0 .. l + 1, NEW j \in 0 .. l + 1, i <= j
  PROVE  b[i] <= b[j]
<1> DEFINE Bad == {k \in Nat : i <= k /\ k <= l + 1 /\ ~(b[i] <= b[k])}
<1>1. /\ b \in [0 .. l + 1 -> Nat]
      /\ \A k \in 1 .. l + 1 : b[k] = b[k - 1] + p[k - 1]
  BY DEF Sums
<1>2. SUFFICES ASSUME Bad # {} PROVE FALSE
  OBVIOUS
<1>3. PICK n \in Bad : \A k \in Bad : n <= k
  BY <1>2, LowestOf
<1>4. n \in Nat /\ i <= n /\ n <= l + 1 /\ ~(b[i] <= b[n])
  BY <1>3
<1>5. n # i
  BY <1>1, <1>4
<1>6. n - 1 \in 0 .. l /\ i <= n - 1 /\ n \in 1 .. l + 1
  BY <1>4, <1>5
<1>7. b[i] <= b[n - 1]
  BY <1>3, <1>6
<1>8. b[n] = b[n - 1] + p[n - 1] /\ p[n - 1] \in Nat /\ b[n - 1] \in Nat /\ b[i] \in Nat
  BY <1>1, <1>6
<1> QED
  BY <1>4, <1>7, <1>8

\* Every cell of a PDU belongs to one part of it ...
LEMMA PlaceOf ==
  ASSUME NEW l \in Nat, NEW p \in [0 .. l -> Nat], NEW b \in Sums(p, l + 1),
         NEW m \in 0 .. l, NEW c \in Nat, 0 < c, c <= b[m + 1]
  PROVE  \E i \in 0 .. m : b[i] < c /\ c <= b[i + 1]
<1> DEFINE S == {i \in Nat : i <= m /\ c <= b[i + 1]}
<1>1. b \in [0 .. l + 1 -> Nat] /\ b[0] = 0
  BY DEF Sums
<1>2. m \in S
  OBVIOUS
<1>3. PICK i \in S : \A k \in S : i <= k
  BY <1>2, LowestOf
<1>4. i \in 0 .. m /\ c <= b[i + 1]
  BY <1>3
<1>5. b[i] < c
  <2>1. CASE i = 0
    BY <2>1, <1>1
  <2>2. CASE i # 0
    <3>1. i - 1 \in Nat /\ i - 1 <= m /\ (i - 1) + 1 = i /\ b[i] \in Nat
      BY <1>1, <1>4, <2>2
    <3>2. ASSUME i - 1 \in S PROVE FALSE
      <4>1. i <= i - 1
        BY <1>3, <3>2
      <4> QED
        BY <4>1, <1>4
    <3>3. ~(c <= b[i])
      BY <3>1, <3>2
    <3> QED
      BY <3>1, <3>3
  <2> QED
    BY <2>1, <2>2
<1> QED
  BY <1>4, <1>5

\* ... and to no other.
LEMMA OnePlace ==
  ASSUME NEW l \in Nat, NEW p \in [0 .. l -> Nat], NEW b \in Sums(p, l + 1),
         NEW i \in 0 .. l, NEW j \in 0 .. l, NEW c \in Nat,
         b[i] < c, c <= b[i + 1], b[j] < c, c <= b[j + 1]
  PROVE  i = j
<1>1. b \in [0 .. l + 1 -> Nat]
  BY DEF Sums
<1>2. /\ i + 1 \in 0 .. l + 1 /\ j + 1 \in 0 .. l + 1
      /\ b[i] \in Nat /\ b[j] \in Nat /\ b[i + 1] \in Nat /\ b[j + 1] \in Nat
  BY <1>1
<1>3. ASSUME i + 1 <= j PROVE b[i + 1] <= b[j]
  <2>1. j \in 0 .. l + 1
    OBVIOUS
  <2> QED
    BY <1>2, <1>3, <2>1, SumsOrder
<1>4. ASSUME j + 1 <= i PROVE b[j + 1] <= b[i]
  <2>1. i \in 0 .. l + 1
    OBVIOUS
  <2> QED
    BY <1>2, <1>4, <2>1, SumsOrder
<1> QED
  BY <1>2, <1>3, <1>4

Lens == [i \in 0 .. Len(tx_sdu_queue) |-> PartLen(i)]

\* The lengths of consecutive SDUs add up: what an SDU has begins where the one
\* before it ends.
LEMMA BeforeSums ==
  ASSUME tx_sdu_queue \in Seq(0 .. NSdu), Lens \in [0 .. Len(tx_sdu_queue) -> Nat]
  PROVE  Before \in Sums(Lens, Len(tx_sdu_queue) + 1)
<1> DEFINE l == Len(tx_sdu_queue)
           Is(b) == b = [i \in 0 .. l + 1 |-> IF i = 0 THEN 0 ELSE b[i - 1] + PartLen(i - 1)]
<1>1. l \in Nat
  OBVIOUS
<1>2. PICK b \in Sums(Lens, l + 1) : TRUE
  BY <1>1, SumsExist
<1>3. Is(b)
  BY <1>1, <1>2 DEF Sums, Lens
<1>4. Before = CHOOSE x : Is(x)
  BY DEF Before
<1>5. Is(Before)
  BY <1>3, <1>4
<1>6. /\ Before = [i \in 0 .. l + 1 |-> Before[i]]
      /\ Before[0] = 0 /\ \A i \in 1 .. l + 1 : Before[i] = Before[i - 1] + Lens[i - 1]
  BY <1>5, <1>1 DEF Lens
<1>7. \A i \in 0 .. l + 1 : Before[i] \in Nat
  <2> DEFINE Bad == {i \in Nat : i <= l + 1 /\ Before[i] \notin Nat}
  <2>1. SUFFICES ASSUME Bad # {} PROVE FALSE
    OBVIOUS
  <2>2. PICK n \in Bad : \A m \in Bad : n <= m
    BY <2>1, LowestOf
  <2>3. n \in 0 .. l + 1 /\ Before[n] \notin Nat
    BY <2>2, <1>1
  <2>4. n # 0
    BY <2>3, <1>6
  <2>5. n - 1 \in 0 .. l /\ n - 1 \in 0 .. l + 1 /\ n \in 1 .. l + 1
    BY <2>3, <2>4, <1>1
  <2>6. Before[n - 1] \in Nat
    BY <2>2, <2>5
  <2>7. Before[n] = Before[n - 1] + Lens[n - 1] /\ Lens[n - 1] \in Nat
    BY <1>6, <2>5
  <2> QED
    BY <2>3, <2>6, <2>7
<1> QED
  BY <1>6, <1>7 DEF Sums

\* tx_sdu has been begun and not ended.
SduBegun == tx_sdu # NoSdu => tx_sdu.s # 0 /\ tx_sdu.k < SduLen[tx_sdu.s]

PartsOK == /\ tx_sdu_queue \in Seq(0 .. NSdu) /\ tx_sdu \in [s : 0 .. NSdu, k : Nat]
           /\ SduBegun

\* The SDUs of the parts of a PDU.
TakenSdus(n) == {Part(i).s : i \in Taken(n)}

\* The parts have lengths, and a part that has cells is one of an SDU.
LEMMA PartLens ==
  ASSUME PartsOK
  PROVE  /\ Len(tx_sdu_queue) \in Nat
         /\ Lens \in [0 .. Len(tx_sdu_queue) -> Nat]
         /\ Before \in Sums(Lens, Len(tx_sdu_queue) + 1)
         /\ Before \in [0 .. Len(tx_sdu_queue) + 1 -> Nat] /\ Before[0] = 0
         /\ \A i \in 0 .. Len(tx_sdu_queue) :
              /\ PartLen(i) \in Nat /\ Before[i + 1] = Before[i] + PartLen(i)
              /\ Part(i).s \in 0 .. NSdu /\ Part(i).k \in Nat
              /\ PartLen(i) > 0 => /\ Part(i).s \in 1 .. NSdu
                                   /\ SduLen[Part(i).s] \in Nat
                                   /\ PartLen(i) = SduLen[Part(i).s] - Part(i).k
<1> DEFINE l == Len(tx_sdu_queue)
<1>0. tx_sdu_queue \in Seq(0 .. NSdu) /\ NSdu \in Nat
  BY TxAssumption DEF PartsOK
<1>1. l \in Nat /\ DOMAIN tx_sdu_queue = 1 .. l
  BY <1>0
<1>2. \A s \in 1 .. NSdu : SduLen[s] \in Nat \ {0}
  BY TxAssumption
<1>3. ASSUME NEW i \in 0 .. l
      PROVE  /\ Part(i).s \in 0 .. NSdu /\ Part(i).k \in Nat
             /\ Part(i).s # 0 => Part(i).k < SduLen[Part(i).s]
  <2>1. CASE i = 0
    BY <2>1 DEF Part, PartsOK, SduBegun, NoSdu
  <2>2. CASE i # 0
    <3>0. i \in DOMAIN tx_sdu_queue
      BY <1>1, <2>2
    <3>1. tx_sdu_queue[i] \in 0 .. NSdu
      BY <1>0, <3>0
    <3>2. Part(i).s = tx_sdu_queue[i] /\ Part(i).k = 0
      BY <2>2 DEF Part
    <3>3. NSdu \in Nat
      BY TxAssumption
    <3> QED
      BY <3>1, <3>2, <3>3, <1>2
  <2> QED
    BY <2>1, <2>2
<1>4. \A i \in 0 .. l :
        /\ PartLen(i) \in Nat
        /\ PartLen(i) > 0 => /\ Part(i).s \in 1 .. NSdu
                             /\ SduLen[Part(i).s] \in Nat
                             /\ PartLen(i) = SduLen[Part(i).s] - Part(i).k
  BY <1>2, <1>3, TxAssumption DEF PartLen
<1>5. Lens \in [0 .. l -> Nat]
  BY <1>4 DEF Lens
<1>6. Before \in Sums(Lens, l + 1)
  BY <1>5, BeforeSums DEF PartsOK
<1>7. /\ Before \in [0 .. l + 1 -> Nat] /\ Before[0] = 0
      /\ \A i \in 1 .. l + 1 : Before[i] = Before[i - 1] + Lens[i - 1]
  BY <1>6 DEF Sums
<1>8. \A i \in 0 .. l : Before[i + 1] = Before[i] + PartLen(i)
  <2> TAKE i \in 0 .. l
  <2>1. i + 1 \in 1 .. l + 1 /\ (i + 1) - 1 = i
    BY <1>1
  <2> QED
    BY <2>1, <1>7 DEF Lens
<1> QED
  BY <1>1, <1>3, <1>4, <1>5, <1>6, <1>7, <1>8

\* build_data_pdu takes something whenever there is something, and in order.
LEMMA TakenParts ==
  ASSUME PartsOK, NEW n \in Nat \ {0}
  PROVE  /\ Taken(n) \subseteq 0 .. Len(tx_sdu_queue)
         /\ tx_sdu # NoSdu => 0 \in Taken(n)
         /\ LastTaken(n) \in 0 .. Len(tx_sdu_queue)
         /\ \A i \in Taken(n) : i <= LastTaken(n)
         /\ Taken(n) # {} => LastTaken(n) \in Taken(n)
         /\ Taken(n) = {} => LastTaken(n) = 0 /\ PartLen(0) = 0
<1> DEFINE l == Len(tx_sdu_queue)
<1>1. l \in Nat /\ 0 \in 0 .. l /\ LiMax \in Nat
  BY PartLens, TxAssumption
<1>2. PartLen(0) > 0 => 0 \in Taken(n)
  BY <1>1, PartLens DEF Taken
<1>3. tx_sdu # NoSdu => PartLen(0) > 0
  <2>1. tx_sdu # NoSdu => tx_sdu.s \in 1 .. NSdu /\ tx_sdu.k \in Nat /\ tx_sdu.k < SduLen[tx_sdu.s]
    BY TxAssumption DEF PartsOK, SduBegun
  <2> QED
    BY <2>1, TxAssumption DEF PartLen, Part
<1>4. Taken(n) \subseteq 0 .. l
  BY DEF Taken
<1>5. CASE Taken(n) = {}
  BY <1>1, <1>2, <1>3, <1>4, <1>5, PartLens DEF LastTaken
<1>6. CASE Taken(n) # {}
  <2> DEFINE S == {j \in Nat : \E i \in Taken(n) : j = l - i}
  <2>1. S # {}
    BY <1>1, <1>4, <1>6
  <2>2. PICK j \in S : \A k \in S : j <= k
    BY <2>1, LowestOf
  <2>3. PICK m \in Taken(n) : j = l - m
    BY <2>2
  <2>4. ASSUME NEW i \in Taken(n) PROVE i <= m
    <3>1. l - i \in S /\ i \in 0 .. l /\ m \in 0 .. l
      BY <1>1, <1>4
    <3>2. j <= l - i
      BY <3>1, <2>2
    <3> QED
      BY <3>1, <3>2, <2>3, <1>1
  <2>5. LastTaken(n) \in Taken(n) /\ \A i \in Taken(n) : i <= LastTaken(n)
    BY <2>3, <2>4, <1>6 DEF LastTaken
  <2> QED
    BY <2>5, <1>2, <1>3, <1>4, <1>6
<1> QED
  BY <1>5, <1>6

\* The part of a PDU that its c-th cell comes from.
CellOf(n, c) == CHOOSE i \in Taken(n) : Before[i] < c /\ c <= Before[i + 1]

\* build_data_pdu: the PDU begins with the first part and ends in the last.
LEMMA CellPlace ==
  ASSUME PartsOK, NEW n \in Nat \ {0}, Taken(n) # {}
  PROVE  LET m == LastTaken(n) end == Before[m] + Moved(n, m) IN
         /\ end \in Nat /\ Before[m] < end /\ end <= Before[m + 1]
         /\ Moved(n, m) = PartLen(m) <=> end = Before[m + 1]
         /\ \A c \in 1 .. end : /\ CellOf(n, c) \in Taken(n)
                                /\ Before[CellOf(n, c)] < c
                                /\ c <= Before[CellOf(n, c) + 1]
         /\ \A i \in Taken(n) : i # m => Before[i + 1] <= end
         /\ \A i \in Taken(n) : \A c \in 1 .. end :
              Before[i] < c /\ c <= Before[i + 1] => CellOf(n, c) = i
<1> DEFINE l == Len(tx_sdu_queue)
           m == LastTaken(n)
           end == Before[m] + Moved(n, m)
<1>1. /\ l \in Nat /\ m \in 0 .. l /\ m \in Taken(n) /\ Taken(n) \subseteq 0 .. l
      /\ \A i \in Taken(n) : i <= m
  BY TakenParts, PartLens
<1>2. Lens \in [0 .. l -> Nat] /\ Before \in Sums(Lens, l + 1)
  BY PartLens
<1>b. Before \in [0 .. l + 1 -> Nat]
  BY PartLens
<1>p. \A i \in 0 .. l : PartLen(i) \in Nat /\ Before[i + 1] = Before[i] + PartLen(i)
  BY PartLens
<1>3. /\ \A i \in Taken(n) : PartLen(i) > 0 /\ Before[i] < n
      /\ \A j \in 0 .. m - 1 : PartLen(j) <= LiMax
  BY <1>1 DEF Taken
<1> HIDE DEF l, m
<1>4. \A i \in 0 .. l : Before[i] \in Nat /\ Before[i + 1] \in Nat
  BY <1>1, <1>b
<1>5. /\ end \in Nat /\ Before[m] < end /\ end <= Before[m + 1] /\ end <= n
      /\ Moved(n, m) = PartLen(m) <=> end = Before[m + 1]
  BY <1>1, <1>p, <1>3, <1>4 DEF Moved
<1> HIDE DEF end
<1>6. ASSUME NEW c \in 1 .. end
      PROVE  \E i \in Taken(n) : Before[i] < c /\ c <= Before[i + 1]
  <2>1. c \in Nat /\ 0 < c /\ c <= Before[m + 1] /\ c <= n
    BY <1>1, <1>4, <1>5
  <2>2. PICK i \in 0 .. m : Before[i] < c /\ c <= Before[i + 1]
    BY <2>1, <1>1, <1>2, PlaceOf
  <2>3. i \in 0 .. l /\ Before[i] < n /\ PartLen(i) > 0
    BY <1>1, <1>p, <1>4, <2>1, <2>2
  <2>4. \A j \in 0 .. i - 1 : PartLen(j) <= LiMax
    BY <1>1, <1>3, <2>2
  <2>5. i \in Taken(n)
    BY <2>3, <2>4 DEF Taken, l
  <2> QED
    BY <2>2, <2>5
<1>7. \A c \in 1 .. end : /\ CellOf(n, c) \in Taken(n)
                          /\ Before[CellOf(n, c)] < c /\ c <= Before[CellOf(n, c) + 1]
  BY <1>6 DEF CellOf
<1>8. ASSUME NEW i \in Taken(n), i # m PROVE Before[i + 1] <= end
  <2>1. i \in 0 .. l /\ i + 1 \in 0 .. l + 1 /\ m \in 0 .. l + 1 /\ i + 1 <= m
    BY <1>1, <1>8
  <2>2. Before[i + 1] <= Before[m]
    BY <2>1, <1>1, <1>2, SumsOrder
  <2> QED
    BY <2>1, <2>2, <1>1, <1>4, <1>5
<1>9. ASSUME NEW i \in Taken(n), NEW c \in 1 .. end, Before[i] < c, c <= Before[i + 1]
      PROVE  CellOf(n, c) = i
  <2>1. /\ CellOf(n, c) \in 0 .. l /\ i \in 0 .. l /\ c \in Nat
        /\ Before[CellOf(n, c)] < c /\ c <= Before[CellOf(n, c) + 1]
    BY <1>1, <1>5, <1>7
  <2> QED
    BY <2>1, <1>1, <1>2, <1>9, OnePlace
<1> QED
  BY <1>5, <1>7, <1>8, <1>9 DEF m, end

\* The payload of a new PDU: cells of exactly the SDUs taken.
LEMMA NewPduCells ==
  ASSUME PartsOK, NEW n \in Nat \ {0}
  PROVE  /\ NewCells(n) \in Seq(Cell)
         /\ \A s : s \in TakenSdus(n) <=>
                    \E c \in DOMAIN NewCells(n) : NewCells(n)[c].s = s
<1> DEFINE m == LastTaken(n)
           end == Before[m] + Moved(n, m)
           at(c) == Part(CellOf(n, c)).k + c - Before[CellOf(n, c)]
<1>1. NewCells(n) = [c \in 1 .. end |->
                       [s |-> Part(CellOf(n, c)).s, k |-> at(c),
                        e |-> at(c) = SduLen[Part(CellOf(n, c)).s]]]
  BY DEF NewCells, CellOf
<1>2. CASE Taken(n) = {}
  <2>1. m = 0 /\ PartLen(0) = 0 /\ Before[0] = 0
    BY <1>2, TakenParts, PartLens
  <2>2. Moved(n, 0) = 0
    BY <2>1 DEF Moved
  <2>3. end = 0
    BY <2>1, <2>2
  <2> HIDE DEF end, m, at
  <2>4. NewCells(n) = << >>
    BY <1>1, <2>3
  <2> QED
    BY <2>4, <1>2 DEF TakenSdus
<1>3. CASE Taken(n) # {}
  <2>1. /\ end \in Nat /\ Before[m] < end
        /\ \A c \in 1 .. end : /\ CellOf(n, c) \in Taken(n)
                               /\ Before[CellOf(n, c)] < c
        /\ \A i \in Taken(n) : i # m => Before[i + 1] <= end
        /\ \A i \in Taken(n) : \A c \in 1 .. end :
             Before[i] < c /\ c <= Before[i + 1] => CellOf(n, c) = i
    BY <1>3, CellPlace
  <2>2. m \in Taken(n)
    BY <1>3, TakenParts
  <2> HIDE DEF m, end
  <2>3. ASSUME NEW i \in Taken(n)
        PROVE  /\ i \in 0 .. Len(tx_sdu_queue) /\ PartLen(i) \in Nat /\ PartLen(i) > 0
               /\ Part(i).s \in 1 .. NSdu /\ Part(i).k \in Nat
               /\ Before[i] \in Nat /\ Before[i + 1] = Before[i] + PartLen(i)
    <3>1. i \in 0 .. Len(tx_sdu_queue) /\ PartLen(i) > 0
      BY DEF Taken
    <3>2. Len(tx_sdu_queue) \in Nat /\ Before \in [0 .. Len(tx_sdu_queue) + 1 -> Nat]
      BY PartLens
    <3>3. Before[i] \in Nat
      BY <3>1, <3>2
    <3> QED
      BY <3>1, <3>3, PartLens
  <2>4. ASSUME NEW c \in 1 .. end PROVE at(c) \in Nat
    <3>1. CellOf(n, c) \in Taken(n) /\ Before[CellOf(n, c)] < c /\ c \in Nat
      BY <2>1
    <3> QED
      BY <3>1, <2>3
  <2> HIDE DEF at
  <2>5. \A c \in 1 .. end :
          [s |-> Part(CellOf(n, c)).s, k |-> at(c),
           e |-> at(c) = SduLen[Part(CellOf(n, c)).s]] \in Cell
    BY <2>1, <2>3, <2>4 DEF Cell
  <2>6. NewCells(n) \in Seq(Cell) /\ DOMAIN NewCells(n) = 1 .. end
    BY <1>1, <2>1, <2>5
  <2>7. \A c \in 1 .. end : NewCells(n)[c].s = Part(CellOf(n, c)).s
    BY <1>1
  <2>8. ASSUME NEW i \in Taken(n) PROVE \E c \in 1 .. end : CellOf(n, c) = i
    <3>1. Before[i] + 1 <= end
      <4>1. CASE i = m
        BY <4>1, <2>1, <2>3
      <4>2. CASE i # m
        <5>1. Before[i + 1] <= end
          BY <4>2, <2>1
        <5>2. PartLen(i) \in Nat /\ PartLen(i) > 0 /\ Before[i] \in Nat
              /\ Before[i + 1] = Before[i] + PartLen(i) /\ end \in Nat
          BY <2>1, <2>3
        <5> QED
          BY <5>1, <5>2
      <4> QED
        BY <4>1, <4>2
    <3>2. Before[i] \in Nat /\ PartLen(i) \in Nat /\ PartLen(i) > 0 /\ end \in Nat
      BY <2>1, <2>3
    <3>3. Before[i] + 1 \in 1 .. end /\ Before[i] < Before[i] + 1
      BY <3>1, <3>2
    <3>4. Before[i] + 1 <= Before[i + 1]
      BY <3>2, <2>3
    <3> QED
      BY <3>3, <3>4, <2>1
  <2> QED
    BY <2>1, <2>6, <2>7, <2>8 DEF TakenSdus
<1> QED
  BY <1>2, <1>3

\* The SDU left over is the last one taken, and the queue goes on behind it.
LEMMA NewPduRest ==
  ASSUME PartsOK, NEW n \in Nat \ {0}
  PROVE  /\ \/ RestOfSdu(n) = NoSdu
            \/ /\ LastTaken(n) \in Taken(n)
               /\ RestOfSdu(n).s = Part(LastTaken(n)).s
               /\ RestOfSdu(n).s \in 1 .. NSdu
               /\ RestOfSdu(n).k < SduLen[RestOfSdu(n).s]
         /\ RestOfSdu(n) \in [s : 0 .. NSdu, k : Nat]
         /\ RestOfQueue(n) \in Seq(0 .. NSdu)
         /\ DOMAIN RestOfQueue(n) = 1 .. Len(tx_sdu_queue) - LastTaken(n)
         /\ \A j \in DOMAIN RestOfQueue(n) :
              /\ j + LastTaken(n) \in DOMAIN tx_sdu_queue
              /\ RestOfQueue(n)[j] = tx_sdu_queue[j + LastTaken(n)]
<1> DEFINE m == LastTaken(n)
           l == Len(tx_sdu_queue)
<1>1. /\ l \in Nat /\ m \in 0 .. l /\ tx_sdu_queue \in Seq(0 .. NSdu) /\ NSdu \in Nat
      /\ Before[m] \in Nat /\ PartLen(m) \in Nat
  <2>1. l \in Nat /\ m \in 0 .. l /\ Before \in [0 .. l + 1 -> Nat]
    BY PartLens, TakenParts
  <2> QED
    BY <2>1, PartLens, TxAssumption DEF PartsOK
<1>2. ASSUME Moved(n, m) = PartLen(m)
      PROVE  RestOfSdu(n) = NoSdu /\ RestOfSdu(n) \in [s : 0 .. NSdu, k : Nat]
  BY <1>1, <1>2 DEF RestOfSdu, NoSdu
<1>3. ASSUME Moved(n, m) # PartLen(m)
      PROVE  /\ m \in Taken(n) /\ RestOfSdu(n).s = Part(m).s
             /\ RestOfSdu(n).s \in 1 .. NSdu /\ RestOfSdu(n).k < SduLen[RestOfSdu(n).s]
             /\ RestOfSdu(n) \in [s : 0 .. NSdu, k : Nat]
  <2>1. Moved(n, m) = n - Before[m] /\ n - Before[m] < PartLen(m)
    BY <1>1, <1>3 DEF Moved
  <2>2. Taken(n) # {}
    <3>1. ASSUME Taken(n) = {} PROVE m = 0 /\ PartLen(0) = 0 /\ Before[0] = 0
      BY <3>1, TakenParts, PartLens
    <3> QED
      BY <3>1, <2>1
  <2>3. m \in Taken(n) /\ Before[m] < n
    BY <2>2, TakenParts DEF Taken
  <2>4. /\ Part(m).s \in 1 .. NSdu /\ Part(m).k \in Nat /\ SduLen[Part(m).s] \in Nat
        /\ PartLen(m) = SduLen[Part(m).s] - Part(m).k
    <3>1. PartLen(m) > 0
      BY <2>3 DEF Taken
    <3> QED
      BY <3>1, <1>1, PartLens
  <2>5. RestOfSdu(n) = [s |-> Part(m).s, k |-> Part(m).k + (n - Before[m])]
    BY <1>3, <2>1 DEF RestOfSdu
  <2>6. Before[m] \in Nat
    BY <1>1
  <2> DEFINE x == Before[m]
             k == Part(m).k
             sl == SduLen[Part(m).s]
             ss == Part(m).s
  <2>7. x \in Nat /\ k \in Nat /\ sl \in Nat /\ x < n /\ n - x < sl - k
    BY <2>1, <2>3, <2>4, <2>6
  <2>8. RestOfSdu(n) = [s |-> ss, k |-> k + (n - x)] /\ ss \in 1 .. NSdu /\ sl = SduLen[ss]
    BY <2>4, <2>5
  <2> HIDE DEF x, k, sl
  <2>9. k + (n - x) \in Nat /\ k + (n - x) < sl
    BY <2>7
  <2> QED
    BY <2>3, <2>8, <2>9, TxAssumption
<1>4. /\ RestOfQueue(n) \in Seq(0 .. NSdu)
      /\ DOMAIN RestOfQueue(n) = 1 .. l - m
      /\ \A j \in DOMAIN RestOfQueue(n) :
              /\ j + m \in DOMAIN tx_sdu_queue
              /\ RestOfQueue(n)[j] = tx_sdu_queue[j + m]
  <2>1. RestOfQueue(n) = SubSeq(tx_sdu_queue, m + 1, l)
    BY DEF RestOfQueue
  <2>2. l = Len(tx_sdu_queue) /\ tx_sdu_queue \in Seq(0 .. NSdu)
    BY <1>1
  <2>3. m \in Nat /\ l \in Nat /\ m <= l
    BY <1>1
  <2> HIDE DEF m, l
  <2>10. \A i \in 1 .. l : tx_sdu_queue[i] \in 0 .. NSdu
    BY <1>1, <2>2
  <2>4. m + 1 \in Int /\ l \in Int /\ \A i \in m + 1 .. l : tx_sdu_queue[i] \in 0 .. NSdu
    BY <2>3, <2>10
  <2>5. /\ RestOfQueue(n) \in Seq(0 .. NSdu)
        /\ Len(RestOfQueue(n)) = IF m + 1 <= l THEN l - (m + 1) + 1 ELSE 0
        /\ \A j \in 1 .. l - (m + 1) + 1 : RestOfQueue(n)[j] = tx_sdu_queue[(m + 1) + j - 1]
    BY <2>1, <2>4, SubSeqProperties
  <2>6. Len(RestOfQueue(n)) = l - m /\ l - (m + 1) + 1 = l - m
    BY <2>3, <2>5
  <2>7. \A j \in 1 .. l - m : j + m \in 1 .. l /\ (m + 1) + j - 1 = j + m
    BY <2>3
  <2>8. DOMAIN tx_sdu_queue = 1 .. l
    BY <2>2
  <2> QED
    BY <2>5, <2>6, <2>7, <2>8
<1> QED
  BY <1>2, <1>3, <1>4

\* An SDU ends in the PDU unless it is the one left over (pdcp_pdu.fully_txed).
LEMMA NewPduEnds ==
  ASSUME PartsOK, NEW n \in Nat \ {0}, NEW s \in TakenSdus(n),
         \A i, j \in Taken(n) : i # j => Part(i).s # Part(j).s
  PROVE  (\E c \in DOMAIN NewCells(n) : NewCells(n)[c].s = s /\ NewCells(n)[c].e)
            <=> RestOfSdu(n).s # s
<1> DEFINE m == LastTaken(n)
           end == Before[m] + Moved(n, m)
           at(c) == Part(CellOf(n, c)).k + c - Before[CellOf(n, c)]
<1>1. NewCells(n) = [c \in 1 .. end |->
                       [s |-> Part(CellOf(n, c)).s, k |-> at(c),
                        e |-> at(c) = SduLen[Part(CellOf(n, c)).s]]]
  BY DEF NewCells, CellOf
<1>2. PICK i \in Taken(n) : s = Part(i).s
  BY DEF TakenSdus
<1>3. /\ end \in Nat /\ Before[m] < end /\ end <= Before[m + 1]
      /\ Moved(n, m) = PartLen(m) <=> end = Before[m + 1]
      /\ \A c \in 1 .. end : /\ CellOf(n, c) \in Taken(n)
                             /\ Before[CellOf(n, c)] < c /\ c <= Before[CellOf(n, c) + 1]
      /\ \A j \in Taken(n) : j # m => Before[j + 1] <= end
      /\ \A j \in Taken(n) : \A c \in 1 .. end :
             Before[j] < c /\ c <= Before[j + 1] => CellOf(n, c) = j
  BY <1>2, CellPlace
<1>4. m \in Taken(n)
  BY <1>2, TakenParts
<1>5. RestOfSdu(n).s = IF Moved(n, m) = PartLen(m) THEN 0 ELSE Part(m).s
  BY DEF RestOfSdu, NoSdu
<1> HIDE DEF m, end
<1>6. ASSUME NEW j \in Taken(n)
      PROVE  /\ PartLen(j) \in Nat /\ PartLen(j) > 0 /\ Part(j).s # 0 /\ Part(j).k \in Nat
             /\ Before[j] \in Nat /\ Before[j + 1] = Before[j] + PartLen(j)
             /\ SduLen[Part(j).s] \in Nat /\ PartLen(j) = SduLen[Part(j).s] - Part(j).k
  <2>1. j \in 0 .. Len(tx_sdu_queue) /\ PartLen(j) > 0
    BY DEF Taken
  <2>2. Len(tx_sdu_queue) \in Nat /\ Before \in [0 .. Len(tx_sdu_queue) + 1 -> Nat]
    BY PartLens
  <2>3. Before[j] \in Nat
    BY <2>1, <2>2
  <2> QED
    BY <2>1, <2>3, PartLens, TxAssumption
<1>7. ASSUME NEW c \in 1 .. end
      PROVE  at(c) = SduLen[Part(CellOf(n, c)).s] <=> c = Before[CellOf(n, c) + 1]
  <2> DEFINE j == CellOf(n, c)
  <2>1. j \in Taken(n) /\ c \in Int
    BY <1>3
  <2>2. at(c) = Part(j).k + c - Before[j]
    OBVIOUS
  <2> HIDE DEF j
  <2> DEFINE k == Part(j).k
             b == Before[j]
             sl == SduLen[Part(j).s]
             pl == PartLen(j)
  <2>3. k \in Nat /\ b \in Nat /\ sl \in Nat /\ pl \in Nat /\ pl = sl - k /\ Before[j + 1] = b + pl
    BY <1>6, <2>1
  <2> HIDE DEF k, b, sl, pl
  <2>4. k + c - b = sl <=> c = b + pl
    BY <2>1, <2>3
  <2> QED
    BY <2>2, <2>3, <2>4 DEF k, b, sl, j
<1>8. \A c \in 1 .. end : /\ NewCells(n)[c].s = Part(CellOf(n, c)).s
                          /\ NewCells(n)[c].e <=> c = Before[CellOf(n, c) + 1]
  <2> TAKE c \in 1 .. end
  <2>1. at(c) = SduLen[Part(CellOf(n, c)).s] <=> c = Before[CellOf(n, c) + 1]
    BY <1>7
  <2> DEFINE whole == at(c) = SduLen[Part(CellOf(n, c)).s]
  <2>2. NewCells(n)[c] = [s |-> Part(CellOf(n, c)).s, k |-> at(c), e |-> whole]
    BY <1>1, Zenon
  <2>3. whole \in BOOLEAN
    OBVIOUS
  <2> HIDE DEF at, whole
  <2>4. NewCells(n)[c].s = Part(CellOf(n, c)).s /\ NewCells(n)[c].e = whole
    BY <2>2, <2>3
  <2> QED
    BY <2>1, <2>3, <2>4, Zenon DEF whole
<1>9. DOMAIN NewCells(n) = 1 .. end
  BY <1>1
<1>10. ASSUME NEW c \in 1 .. end, NewCells(n)[c].s = s PROVE CellOf(n, c) = i
  BY <1>2, <1>3, <1>8, <1>10
<1>11. Before[i + 1] <= end
       => Before[i + 1] \in 1 .. end /\ CellOf(n, Before[i + 1]) = i
  <2>1. Before[i] \in Nat /\ PartLen(i) \in Nat /\ PartLen(i) > 0 /\ Before[i + 1] = Before[i] + PartLen(i)
    BY <1>6
  <2>2. Before[i + 1] \in Nat /\ Before[i] < Before[i + 1]
    BY <2>1
  <2> QED
    BY <2>1, <2>2, <1>3
<1>12. (\E c \in 1 .. end : NewCells(n)[c].s = s /\ NewCells(n)[c].e) <=> Before[i + 1] <= end
  <2>1. ASSUME NEW c \in 1 .. end, NewCells(n)[c].s = s, NewCells(n)[c].e
        PROVE  Before[i + 1] <= end
    BY <2>1, <1>8, <1>10
  <2>2. ASSUME Before[i + 1] <= end
        PROVE  \E c \in 1 .. end : NewCells(n)[c].s = s /\ NewCells(n)[c].e
    BY <2>2, <1>2, <1>8, <1>11
  <2> QED
    BY <2>1, <2>2
<1>13. CASE i # m
  BY <1>13, <1>2, <1>3, <1>4, <1>5, <1>6, <1>9, <1>12
<1>14. CASE i = m
  <2>1. end <= Before[m + 1] /\ Before[m + 1] \in Int
    BY <1>3, <1>4, <1>6
  <2>2. Before[i + 1] <= end <=> Moved(n, m) = PartLen(m)
    BY <2>1, <1>3, <1>14
  <2> QED
    BY <2>2, <1>2, <1>5, <1>6, <1>9, <1>12, <1>14
<1> QED
  BY <1>13, <1>14

\* Every cell that part i holds and that the PDU has room for is in the PDU; what
\* is not is in the SDU left over.
LEMMA NewPduHolds ==
  ASSUME PartsOK, NEW n \in Nat \ {0}, NEW i \in Taken(n), NEW k \in Nat,
         Part(i).k < k, k <= SduLen[Part(i).s]
  PROVE  \/ \E c \in DOMAIN NewCells(n) :
              NewCells(n)[c] = [s |-> Part(i).s, k |-> k, e |-> k = SduLen[Part(i).s]]
         \/ RestOfSdu(n).s = Part(i).s /\ RestOfSdu(n).k < k
<1> DEFINE m == LastTaken(n)
           end == Before[m] + Moved(n, m)
           at(c) == Part(CellOf(n, c)).k + c - Before[CellOf(n, c)]
           x == Before[i] + (k - Part(i).k)
<1>1. NewCells(n) = [c \in 1 .. end |->
                       [s |-> Part(CellOf(n, c)).s, k |-> at(c),
                        e |-> at(c) = SduLen[Part(CellOf(n, c)).s]]]
  BY DEF NewCells, CellOf
<1>2. /\ end \in Nat /\ Before[m] < end /\ end <= Before[m + 1]
      /\ Moved(n, m) = PartLen(m) <=> end = Before[m + 1]
      /\ \A j \in Taken(n) : j # m => Before[j + 1] <= end
      /\ \A j \in Taken(n) : \A c \in 1 .. end :
             Before[j] < c /\ c <= Before[j + 1] => CellOf(n, c) = j
  BY CellPlace
<1>3. m \in Taken(n)
  BY TakenParts
<1>4. RestOfSdu(n) = IF Moved(n, m) = PartLen(m) THEN NoSdu
                     ELSE [s |-> Part(m).s, k |-> Part(m).k + Moved(n, m)]
  BY DEF RestOfSdu
<1>5. end = Before[m] + Moved(n, m)
  OBVIOUS
<1>6. x = Before[i] + (k - Part(i).k)
  OBVIOUS
<1> HIDE DEF m, end, x
<1>7. /\ PartLen(i) \in Nat /\ PartLen(i) > 0 /\ Part(i).k \in Nat
      /\ Before[i] \in Nat /\ Before[i + 1] = Before[i] + PartLen(i)
      /\ SduLen[Part(i).s] \in Nat /\ PartLen(i) = SduLen[Part(i).s] - Part(i).k
  <2>1. i \in 0 .. Len(tx_sdu_queue) /\ PartLen(i) > 0
    BY DEF Taken
  <2>2. Len(tx_sdu_queue) \in Nat /\ Before \in [0 .. Len(tx_sdu_queue) + 1 -> Nat]
    BY PartLens
  <2>3. Before[i] \in Nat
    BY <2>1, <2>2
  <2> QED
    BY <2>1, <2>3, PartLens, TxAssumption
<1>8. x \in Nat /\ Before[i] < x /\ x <= Before[i + 1] /\ Part(i).k + x - Before[i] = k
  <2> DEFINE b == Before[i]
             pk == Part(i).k
             sl == SduLen[Part(i).s]
             pl == PartLen(i)
             b2 == Before[i + 1]
  <2>1. /\ b \in Nat /\ pk \in Nat /\ sl \in Nat /\ pl \in Nat /\ pl = sl - pk
        /\ b2 = b + pl /\ pk < k /\ k <= sl /\ x = b + (k - pk)
    BY <1>6, <1>7
  <2> HIDE DEF b, pk, sl, pl, b2
  <2>2. x \in Nat /\ b < x /\ x <= b2 /\ pk + x - b = k
    BY <2>1
  <2> QED
    BY <2>2 DEF b, pk, b2
<1>9. CASE x <= end
  <2>1. x \in 1 .. end
    BY <1>2, <1>7, <1>8, <1>9
  <2>2. CellOf(n, x) = i
    BY <2>1, <1>2, <1>8
  <2>3. at(x) = k
    BY <2>2, <1>8
  <2>4. NewCells(n)[x] = [s |-> Part(CellOf(n, x)).s, k |-> at(x),
                          e |-> at(x) = SduLen[Part(CellOf(n, x)).s]]
    BY <1>1, <2>1, Zenon
  <2> HIDE DEF at
  <2>5. NewCells(n)[x] = [s |-> Part(i).s, k |-> k, e |-> k = SduLen[Part(i).s]]
    BY <2>2, <2>3, <2>4, Zenon
  <2>6. x \in DOMAIN NewCells(n)
    BY <1>1, <2>1, Zenon
  <2> QED
    BY <2>5, <2>6, Zenon
<1>10. CASE ~(x <= end)
  <2>1. i = m
    <3>1. ASSUME i # m PROVE FALSE
      <4>1. Before[i + 1] <= end
        BY <1>2, <3>1
      <4>2. Before[i + 1] \in Nat
        BY <1>7
      <4> QED
        BY <4>1, <4>2, <1>2, <1>8, <1>10
    <3> QED
      BY <3>1
  <2>2. Moved(n, i) # PartLen(i)
    <3>1. end # Before[i + 1]
      BY <1>8, <1>10
    <3> QED
      BY <2>1, <3>1, <1>2
  <2>3. RestOfSdu(n) = [s |-> Part(i).s, k |-> Part(i).k + Moved(n, i)]
    BY <2>1, <2>2, <1>4
  <2>4. Part(i).k + Moved(n, i) < k
    <3> DEFINE b == Before[i]
               pk == Part(i).k
               mv == Moved(n, i)
    <3>1. b \in Nat /\ pk \in Nat /\ end = b + mv /\ end \in Nat /\ end < x
      BY <2>1, <1>2, <1>5, <1>7, <1>8, <1>10
    <3>2. mv \in Int
      <4>1. mv = PartLen(i) \/ mv = n - b
        BY DEF Moved
      <4> QED
        BY <4>1, <3>1, <1>7
    <3>3. x = b + (k - pk)
      BY <1>6
    <3> HIDE DEF b, pk, mv
    <3>4. pk + mv < k
      BY <3>1, <3>2, <3>3
    <3> QED
      BY <3>4 DEF pk, mv
  <2> QED
    BY <2>3, <2>4
<1> QED
  BY <1>9, <1>10

-----------------------------------------------------------------------------
(* The retransmission queue.                                                   *)

Retx  == [sn : SN, is_segment : BOOLEAN, so_start : Nat, so_end : Nat]
TxPdu == [cells : Seq(Cell), retx_count : 0 .. MaxRetx]

WindowOK(win) == DOMAIN win \subseteq SN /\ win \in [DOMAIN win -> TxPdu]

SameCells(win, old) == /\ DOMAIN win = DOMAIN old
                       /\ \A sn \in DOMAIN old : win[sn].cells = old[sn].cells

\* The entry r asks for a part of its PDU.
PartOf(r, win) == r.sn \in DOMAIN win =>
                    /\ r.so_end <= Len(win[r.sn].cells)
                    /\ \/ r.so_start < r.so_end
                       \/ Len(win[r.sn].cells) = 0 /\ ~r.is_segment

InPdu(q, win) == \A i \in DOMAIN q : PartOf(q[i], win)

\* An SN that was queued for retransmission after one that is still in the window
\* lies less than a window away from that one, and below VT(S).
Near(q, win, s) ==
  \A i, j \in DOMAIN q :
    i < j /\ q[i].sn \in DOMAIN win =>
      \/ ModBase(q[j].sn, q[i].sn) < ModBase(s, q[i].sn)
      \/ ModBase(q[j].sn, q[i].sn) > W

RetxNear == Near(retx_queue, tx_window, vt_s)

\* A retransmission counts attempts and leaves the payload alone.
LEMMA CountRetxKeeps ==
  ASSUME WindowOK(tx_window), NEW sn \in DOMAIN tx_window
  PROVE  WindowOK(CountRetx(sn)) /\ SameCells(CountRetx(sn), tx_window)
<1>1. tx_window[sn] \in TxPdu /\ MaxRetx \in Nat
  BY TxAssumption DEF WindowOK
<1>2. (IF tx_window[sn].retx_count < MaxRetx
       THEN tx_window[sn].retx_count + 1 ELSE tx_window[sn].retx_count) \in 0 .. MaxRetx
  BY <1>1 DEF TxPdu
<1> DEFINE n == IF tx_window[sn].retx_count < MaxRetx
                THEN tx_window[sn].retx_count + 1 ELSE tx_window[sn].retx_count
           pdu == [tx_window[sn] EXCEPT !.retx_count = n]
<1>3. CountRetx(sn) = [tx_window EXCEPT ![sn] = pdu]
  BY DEF CountRetx
<1>4. n \in 0 .. MaxRetx
  BY <1>2
<1> HIDE DEF n
<1>5. pdu \in TxPdu /\ pdu.cells = tx_window[sn].cells
  BY <1>1, <1>4 DEF TxPdu
<1> QED
  BY <1>3, <1>5 DEF WindowOK, SameCells

\* build_retx_pdu stops at the first entry whose PDU is in the window.
LEMMA FirstLiveFound ==
  ASSUME NEW q \in Seq(Retx)
  PROVE  /\ FirstLive(q) \in 1 .. Len(q) + 1
         /\ FirstLive(q) <= Len(q) => q[FirstLive(q)].sn \in DOMAIN tx_window
<1> DEFINE l == Len(q)
           S == {i \in Nat : /\ i >= 1 /\ i <= l + 1
                             /\ i = l + 1 \/ q[i].sn \in DOMAIN tx_window}
           Is(i) == /\ i = l + 1 \/ q[i].sn \in DOMAIN tx_window
                    /\ \A j \in 1 .. i - 1 : q[j].sn \notin DOMAIN tx_window
<1>1. l \in Nat
  OBVIOUS
<1>2. FirstLive(q) = CHOOSE i \in 1 .. l + 1 : Is(i)
  BY DEF FirstLive
<1> HIDE DEF l
<1>3. l + 1 \in S
  BY <1>1
<1>4. PICK i \in S : \A j \in S : i <= j
  BY <1>3, LowestOf
<1>5. i \in 1 .. l + 1 /\ (i = l + 1 \/ q[i].sn \in DOMAIN tx_window)
  BY <1>1, <1>4
<1>6. ASSUME NEW j \in 1 .. i - 1, q[j].sn \in DOMAIN tx_window PROVE FALSE
  <2>1. j \in S
    BY <1>1, <1>5, <1>6
  <2>2. i <= j
    BY <2>1, <1>4
  <2> QED
    BY <2>2, <1>5
<1>7. Is(i)
  BY <1>5, <1>6
<1> HIDE DEF Is
<1>8. FirstLive(q) \in 1 .. l + 1 /\ Is(FirstLive(q))
  BY <1>2, <1>5, <1>7
<1> QED
  BY <1>1, <1>8 DEF Is, l

\* An entry for an SN between VT(A) and VT(S) may join the queue
\* (retransmit_pdu, handle_control_pdu).
LEMMA AppendRetx ==
  ASSUME vt_a \in SN, vt_s \in SN, TxOff(vt_s) <= W,
         NEW win, DOMAIN win \subseteq SN, \A sn \in DOMAIN win : TxOff(sn) < TxOff(vt_s),
         NEW q \in Seq(Retx), InPdu(q, win), Near(q, win, vt_s),
         NEW r \in Retx, r.sn \in DOMAIN win, PartOf(r, win)
  PROVE  /\ Append(q, r) \in Seq(Retx)
         /\ InPdu(Append(q, r), win) /\ Near(Append(q, r), win, vt_s)
<1> DEFINE p == Append(q, r)
           l == Len(q)
<1>1. /\ l \in Nat /\ p \in Seq(Retx) /\ DOMAIN q = 1 .. l /\ DOMAIN p = 1 .. l + 1
      /\ \A i \in 1 .. l : p[i] = q[i]
      /\ p[l + 1] = r
  OBVIOUS
<1> HIDE DEF p, l
<1>2. InPdu(p, win)
  BY <1>1 DEF InPdu
<1>3. ASSUME NEW x \in DOMAIN win, NEW y \in DOMAIN win
      PROVE  ModBase(y, x) < ModBase(vt_s, x) \/ ModBase(y, x) > W
  <2>1. x \in SN /\ y \in SN /\ TxOff(x) < TxOff(vt_s) /\ TxOff(y) < TxOff(vt_s)
    BY <1>3
  <2>2. TxOff(x) \in SN /\ TxOff(y) \in SN /\ TxOff(vt_s) \in SN
    BY <2>1, ModBaseValue DEF TxOff
  <2>3. ModBase(y, x) = IF TxOff(y) >= TxOff(x) THEN TxOff(y) - TxOff(x)
                        ELSE TxOff(y) - TxOff(x) + MOD
    BY <2>1, Shift DEF TxOff
  <2>4. ModBase(vt_s, x) = TxOff(vt_s) - TxOff(x)
    BY <2>1, <2>2, Shift DEF TxOff, SN
  <2>5. W \in Nat /\ MOD = 2 * W /\ SN = 0 .. MOD - 1
    BY WindowAssumption DEF MOD, SN
  <2> QED
    BY <2>1, <2>2, <2>3, <2>4, <2>5
<1>4. ASSUME NEW i \in DOMAIN p, NEW j \in DOMAIN p, i < j, p[i].sn \in DOMAIN win
      PROVE  \/ ModBase(p[j].sn, p[i].sn) < ModBase(vt_s, p[i].sn)
             \/ ModBase(p[j].sn, p[i].sn) > W
  <2>1. CASE j = l + 1
    BY <1>1, <1>3, <1>4, <2>1
  <2>2. CASE j # l + 1
    <3>1. i \in DOMAIN q /\ j \in DOMAIN q /\ p[i] = q[i] /\ p[j] = q[j]
      BY <1>1, <1>4, <2>2
    <3> QED
      BY <1>4, <3>1 DEF Near
  <2> QED
    BY <2>1, <2>2
<1> QED
  BY <1>1, <1>2, <1>4 DEF Near, p

\* The rest of the queue, from its f-th entry on.
LEMMA LaterRetx ==
  ASSUME NEW win, NEW s, NEW q \in Seq(Retx), InPdu(q, win), Near(q, win, s),
         NEW f \in 1 .. Len(q) + 1
  PROVE  LET p == SubSeq(q, f, Len(q)) IN
         /\ p \in Seq(Retx) /\ InPdu(p, win) /\ Near(p, win, s)
         /\ p # << >> => f <= Len(q) /\ Head(p) = q[f]
<1> DEFINE l == Len(q)
           p == SubSeq(q, f, l)
<1>1. l \in Nat /\ DOMAIN q = 1 .. l /\ \A i \in 1 .. l : q[i] \in Retx
  OBVIOUS
<1>2. f \in Int /\ f >= 1 /\ f <= l + 1
  BY <1>1
<1> HIDE DEF l
<1>3. \A i \in f .. l : q[i] \in Retx
  BY <1>1, <1>2
<1>4. /\ p \in Seq(Retx) /\ Len(p) = IF f <= l THEN l - f + 1 ELSE 0
      /\ \A i \in 1 .. l - f + 1 : p[i] = q[f + i - 1]
  BY <1>1, <1>2, <1>3, SubSeqProperties
<1> HIDE DEF p
<1>5. DOMAIN p = 1 .. l - f + 1
  BY <1>1, <1>2, <1>4
<1>6. ASSUME NEW i \in DOMAIN p
      PROVE  f + i - 1 \in DOMAIN q /\ p[i] = q[f + i - 1]
  BY <1>1, <1>2, <1>4, <1>5
<1>7. InPdu(p, win)
  BY <1>6 DEF InPdu
<1>8. \A i, j \in DOMAIN p : i < j => f + i - 1 < f + j - 1
  BY <1>1, <1>2, <1>5
<1>9. Near(p, win, s)
  BY <1>6, <1>8 DEF Near
<1>10. ASSUME p # << >> PROVE f <= l /\ Head(p) = q[f]
  <2>1. f <= l
    BY <1>2, <1>1, <1>4, <1>10
  <2>2. 1 \in 1 .. l - f + 1 /\ f + 1 - 1 = f
    BY <2>1, <1>1, <1>2
  <2> QED
    BY <2>1, <2>2, <1>4, <1>10
<1> QED
  BY <1>4, <1>7, <1>9, <1>10 DEF p, l

RetxInv == /\ retx_queue \in Seq(Retx) /\ WindowOK(tx_window)
           /\ vt_a \in SN /\ vt_s \in SN /\ TxOff(vt_s) <= W
           /\ \A sn \in DOMAIN tx_window : TxOff(sn) < TxOff(vt_s)
           /\ InPdu(retx_queue, tx_window) /\ RetxNear

\* The entry that retransmit_pdu adds is all of the PDU.
LEMMA WholePduPart ==
  ASSUME WindowOK(tx_window), NEW sn \in DOMAIN tx_window
  PROVE  /\ WholePdu(sn) \in Retx /\ WholePdu(sn).sn = sn
         /\ PartOf(WholePdu(sn), tx_window)
<1>1. sn \in SN /\ tx_window[sn].cells \in Seq(Cell)
  BY DEF WindowOK, TxPdu
<1>2. Len(tx_window[sn].cells) \in Nat
  BY <1>1
<1> QED
  BY <1>1, <1>2 DEF WholePdu, Retx, PartOf

\* read_pdu up to the front of retx_queue: outdated entries are gone, and the front
\* is one whose PDU is in the window.
LEMMA ReadyKeeps ==
  ASSUME RetxInv
  PROVE  /\ ReadyRetxQueue \in Seq(Retx) /\ InPdu(ReadyRetxQueue, tx_window)
         /\ Near(ReadyRetxQueue, tx_window, vt_s)
         /\ ReadyRetxQueue # << >> => Head(ReadyRetxQueue).sn \in DOMAIN tx_window
         /\ WindowOK(ReadyWindow) /\ SameCells(ReadyWindow, tx_window)
<1>1. CASE Reschedules
  <2>1. vt_a \in DOMAIN tx_window
    BY <1>1 DEF Reschedules
  <2> DEFINE r == WholePdu(vt_a)
  <2>2. r \in Retx /\ r.sn = vt_a /\ PartOf(r, tx_window)
    BY <2>1, WholePduPart DEF RetxInv
  <2> HIDE DEF r
  <2>3. << >> \in Seq(Retx) /\ InPdu(<< >>, tx_window) /\ Near(<< >>, tx_window, vt_s)
    BY DEF InPdu, Near
  <2>4. DOMAIN tx_window \subseteq SN
    BY DEF RetxInv, WindowOK
  <2>5. /\ Append(<< >>, r) \in Seq(Retx) /\ InPdu(Append(<< >>, r), tx_window)
        /\ Near(Append(<< >>, r), tx_window, vt_s)
    BY <2>1, <2>2, <2>3, <2>4, AppendRetx DEF RetxInv
  <2>6. ReadyRetxQueue = Append(<< >>, r) /\ Head(Append(<< >>, r)) = r
    BY <1>1 DEF ReadyRetxQueue, r
  <2>7. WindowOK(ReadyWindow) /\ SameCells(ReadyWindow, tx_window)
    BY <1>1, <2>1, CountRetxKeeps DEF ReadyWindow, RetxInv
  <2> QED
    BY <2>1, <2>2, <2>5, <2>6, <2>7
<1>2. CASE ~Reschedules
  <2> DEFINE f == FirstLive(retx_queue)
             p == SubSeq(retx_queue, f, Len(retx_queue))
  <2>1. /\ f \in 1 .. Len(retx_queue) + 1
        /\ f <= Len(retx_queue) => retx_queue[f].sn \in DOMAIN tx_window
    BY FirstLiveFound DEF RetxInv
  <2>2. ReadyRetxQueue = p /\ ReadyWindow = tx_window
    BY <1>2 DEF ReadyRetxQueue, ReadyWindow
  <2> HIDE DEF f
  <2>3. /\ p \in Seq(Retx) /\ InPdu(p, tx_window) /\ Near(p, tx_window, vt_s)
        /\ p # << >> => f <= Len(retx_queue) /\ Head(p) = retx_queue[f]
    BY <2>1, LaterRetx DEF RetxInv, RetxNear
  <2> QED
    BY <2>1, <2>2, <2>3 DEF RetxInv, SameCells
<1> QED
  BY <1>1, <1>2

\* build_retx_pdu and build_segment: the entry is taken off the queue, or what is
\* left of it is still a part of the PDU.
LEMMA ReadRetxKeeps ==
  ASSUME RetxInv, NEW n \in Nat, ReadyRetxQueue # << >>, RetxFits(n),
         NEW q, q = IF RetxDone(n) THEN Tail(ReadyRetxQueue)
                    ELSE [ReadyRetxQueue EXCEPT ![1].is_segment = TRUE,
                                                ![1].so_start = RetxSpan(n).to]
  PROVE  q \in Seq(Retx) /\ InPdu(q, tx_window) /\ Near(q, tx_window, vt_s)
<1> DEFINE p == ReadyRetxQueue
           l == Len(ReadyRetxQueue)
<1>1. /\ p \in Seq(Retx) /\ p # << >> /\ InPdu(p, tx_window) /\ Near(p, tx_window, vt_s)
      /\ Head(p).sn \in DOMAIN tx_window
  BY ReadyKeeps
<1> HIDE DEF p
<1>2. CASE RetxDone(n)
  <2>1. q = SubSeq(p, 2, Len(p)) /\ 2 \in 1 .. Len(p) + 1
    BY <1>1, <1>2 DEF p
  <2>2. ASSUME NEW f \in 1 .. Len(p) + 1
        PROVE  /\ SubSeq(p, f, Len(p)) \in Seq(Retx) /\ InPdu(SubSeq(p, f, Len(p)), tx_window)
               /\ Near(SubSeq(p, f, Len(p)), tx_window, vt_s)
    BY <1>1, LaterRetx
  <2> QED
    BY <2>1, <2>2
<1>3. CASE ~RetxDone(n)
  <2> DEFINE r == p[1]
             to == RetxSpan(n).to
             r2 == [r EXCEPT !.is_segment = TRUE, !.so_start = to]
  <2>1. 1 \in DOMAIN p /\ Head(p) = r /\ r \in Retx
    BY <1>1
  <2>2. PartOf(r, tx_window) /\ r.sn \in DOMAIN tx_window
    BY <1>1, <2>1 DEF InPdu
  <2>3. /\ r.so_start \in Nat /\ r.so_end \in Nat /\ r.sn \in SN
        /\ r.so_end <= Len(tx_window[r.sn].cells)
    BY <2>1, <2>2 DEF Retx, PartOf
  <2>4. ~RetxSpan(n).whole /\ to # r.so_end
    BY <1>3, <2>1 DEF RetxDone, p
  <2>5. to = IF r.so_end <= r.so_start + n THEN r.so_end ELSE r.so_start + n
    BY <2>1 DEF RetxSpan, p
  <2>6. to \in Nat /\ to < r.so_end
    BY <2>3, <2>4, <2>5
  <2> HIDE DEF to
  <2>7. r2 \in Retx /\ r2.sn = r.sn /\ r2.so_start = to /\ r2.so_end = r.so_end
    BY <2>1, <2>6 DEF Retx
  <2>8. q = [p EXCEPT ![1] = r2]
    BY <1>3 DEF p, to
  <2> HIDE DEF r2
  <2>9. q \in Seq(Retx) /\ DOMAIN q = DOMAIN p
    <3>1. 1 \in 1 .. Len(p)
      BY <1>1
    <3>2. [p EXCEPT ![1] = r2] \in Seq(Retx)
      BY <1>1, <2>7, <3>1, ExceptSeq
    <3> QED
      BY <2>8, <3>2
  <2>10. q[1] = r2 /\ \A i \in DOMAIN p : i # 1 => q[i] = p[i]
    BY <2>1, <2>8
  <2>11. \A i \in DOMAIN p : q[i].sn = p[i].sn
    BY <2>7, <2>10
  <2>12. PartOf(r2, tx_window)
    BY <2>2, <2>3, <2>6, <2>7 DEF PartOf
  <2> HIDE DEF r
  <2>13. InPdu(q, tx_window)
    BY <1>1, <2>9, <2>10, <2>12 DEF InPdu
  <2>14. Near(q, tx_window, vt_s)
    BY <1>1, <2>9, <2>11 DEF Near
  <2> QED
    BY <2>9, <2>13, <2>14
<1> QED
  BY <1>2, <1>3

\* build_data_pdu adds the PDU of VT(S), which no entry of the queue means: the front
\* is in the window, and the others are near to it.
LEMMA ReadDataRetx ==
  ASSUME RetxInv, PartsOK, NEW n \in Nat \ {0}, TxOff(Inc(vt_s)) <= W
  PROVE  LET q == ReadyRetxQueue win == NewWindow(n) IN
         /\ WindowOK(win) /\ \A sn \in DOMAIN win : TxOff(sn) < TxOff(Inc(vt_s))
         /\ InPdu(q, win) /\ Near(q, win, Inc(vt_s))
         /\ vt_s \notin DOMAIN tx_window /\ DOMAIN win = DOMAIN tx_window \cup {vt_s}
         /\ win[vt_s].cells = NewCells(n)
         /\ \A sn \in DOMAIN tx_window : win[sn].cells = tx_window[sn].cells
<1> DEFINE q == ReadyRetxQueue
           win == NewWindow(n)
           new == [cells |-> NewCells(n), retx_count |-> 0]
<1>1. /\ q \in Seq(Retx) /\ InPdu(q, tx_window) /\ Near(q, tx_window, vt_s)
      /\ q # << >> => Head(q).sn \in DOMAIN tx_window
      /\ WindowOK(ReadyWindow) /\ SameCells(ReadyWindow, tx_window)
  BY ReadyKeeps
<1>2. new \in TxPdu /\ new.cells = NewCells(n)
  <2>1. NewCells(n) \in Seq(Cell) /\ MaxRetx \in Nat
    BY NewPduCells, TxAssumption
  <2> QED
    BY <2>1 DEF TxPdu
<1>3. win = [sn \in DOMAIN tx_window \cup {vt_s} |-> IF sn = vt_s THEN new ELSE ReadyWindow[sn]]
  BY <1>1 DEF NewWindow, With, SameCells
<1>4. /\ vt_a \in SN /\ vt_s \in SN /\ TxOff(vt_s) <= W /\ DOMAIN tx_window \subseteq SN
      /\ \A sn \in DOMAIN tx_window : TxOff(sn) < TxOff(vt_s)
  BY DEF RetxInv, WindowOK
<1>5. W \in Nat /\ W > 1 /\ MOD = 2 * W /\ SN = 0 .. MOD - 1
  BY WindowAssumption DEF MOD, SN
<1> HIDE DEF q, win, new
<1>6. TxOff(vt_s) \in SN /\ TxOff(Inc(vt_s)) = TxOff(vt_s) + 1 /\ Inc(vt_s) \in SN
  <2>1. TxOff(vt_s) \in SN
    BY <1>4, ModBaseValue DEF TxOff
  <2>2. TxOff(vt_s) < MOD - 1
    BY <2>1, <1>4, <1>5
  <2> QED
    BY <2>1, <2>2, <1>4, IncOffset DEF TxOff
<1>7. /\ DOMAIN win = DOMAIN tx_window \cup {vt_s} /\ win[vt_s] = new
      /\ \A sn \in DOMAIN win : sn # vt_s => win[sn] = ReadyWindow[sn] /\ ReadyWindow[sn] \in TxPdu
  BY <1>1, <1>3 DEF WindowOK, SameCells
<1>8. WindowOK(win)
  BY <1>2, <1>3, <1>4, <1>7 DEF WindowOK
<1>9. vt_s \notin DOMAIN tx_window
  BY <1>4, <1>5, <1>6
<1>10. \A sn \in DOMAIN win : TxOff(sn) < TxOff(Inc(vt_s))
  <2>1. \A sn \in DOMAIN tx_window : TxOff(sn) \in SN
    BY <1>4, ModBaseValue DEF TxOff
  <2> QED
    BY <2>1, <1>4, <1>5, <1>6, <1>7
<1>11. \A sn \in DOMAIN tx_window : win[sn].cells = tx_window[sn].cells
  BY <1>1, <1>7, <1>9 DEF SameCells
<1>12. ASSUME NEW x \in DOMAIN tx_window
       PROVE  ModBase(vt_s, x) \in SN /\ ModBase(vt_s, x) <= W
              /\ ModBase(Inc(vt_s), x) = ModBase(vt_s, x) + 1
  <2>0. x \in SN /\ TxOff(x) < TxOff(vt_s)
    BY <1>4
  <2>1. x \in SN /\ TxOff(x) \in SN /\ TxOff(x) < TxOff(vt_s) /\ TxOff(vt_s) \in SN
    BY <2>0, <1>4, <1>6, ModBaseValue DEF TxOff
  <2>2. ModBase(vt_s, x) = TxOff(vt_s) - TxOff(x)
    BY <2>1, <1>4, <1>5, Shift DEF TxOff
  <2>3. ModBase(vt_s, x) \in SN /\ ModBase(vt_s, x) <= W
    BY <2>1, <2>2, <1>4, <1>5, ModBaseValue
  <2> QED
    BY <2>1, <2>3, <1>4, <1>5, IncOffset
<1>13. ASSUME NEW j \in DOMAIN q PROVE q[j].sn # vt_s
  <2>1. /\ 1 \in DOMAIN q /\ q[1].sn \in DOMAIN tx_window /\ j \in Nat
    BY <1>1, <1>13
  <2>2. CASE j = 1
    BY <2>1, <2>2, <1>9
  <2>3. CASE j # 1
    <3>1. 1 < j
      BY <2>1, <2>3, <1>1
    <3>2. \/ ModBase(q[j].sn, q[1].sn) < ModBase(vt_s, q[1].sn)
          \/ ModBase(q[j].sn, q[1].sn) > W
      BY <1>1, <2>1, <3>1 DEF Near
    <3>3. ModBase(vt_s, q[1].sn) \in SN /\ ModBase(vt_s, q[1].sn) <= W
      BY <2>1, <1>12
    <3> QED
      BY <3>2, <3>3, <1>5
  <2> QED
    BY <2>2, <2>3
<1>14. InPdu(q, win)
  BY <1>1, <1>7, <1>11, <1>13 DEF InPdu, PartOf
<1>15. Near(q, win, Inc(vt_s))
  <2> SUFFICES ASSUME NEW i \in DOMAIN q, NEW j \in DOMAIN q, i < j,
                      q[i].sn \in DOMAIN win
               PROVE  \/ ModBase(q[j].sn, q[i].sn) < ModBase(Inc(vt_s), q[i].sn)
                      \/ ModBase(q[j].sn, q[i].sn) > W
    BY DEF Near
  <2>1. q[i].sn \in DOMAIN tx_window
    BY <1>7, <1>13
  <2>2. \/ ModBase(q[j].sn, q[i].sn) < ModBase(vt_s, q[i].sn)
        \/ ModBase(q[j].sn, q[i].sn) > W
    BY <2>1, <1>1 DEF Near
  <2>3. ModBase(q[j].sn, q[i].sn) \in SN
    <3>1. q[i] \in Retx /\ q[j] \in Retx
      BY <1>1
    <3>2. q[i].sn \in SN /\ q[j].sn \in SN
      BY <3>1 DEF Retx
    <3> QED
      BY <3>2, ModBaseValue
  <2> QED
    BY <2>1, <2>2, <2>3, <1>5, <1>12
<1> QED
  BY <1>2, <1>7, <1>8, <1>9, <1>10, <1>11, <1>14, <1>15 DEF q, win

-----------------------------------------------------------------------------
(* What is known of each SDU.                                                  *)

\* The PDUs of the window win that carry a part of SDU s.
Carried(win, s) ==
  {sn \in DOMAIN win : \E c \in DOMAIN win[sn].cells : win[sn].cells[c].s = s}

\* Nothing of SDU s was sent.
Fresh(s, und, win, told) ==
  s \notin DOMAIN und /\ Carried(win, s) = {} /\ \A i \in DOMAIN told : told[i] # s

\* The SDUs of the queue are fresh and queued once, as are those not yet written.
QueuedOK(q, und, win, told, wr) ==
  /\ \A i \in DOMAIN q : q[i] <= wr
  /\ \A i, j \in DOMAIN q : i # j => q[i] # q[j] \/ q[i] = 0
  /\ \A i \in DOMAIN q : q[i] # 0 => Fresh(q[i], und, win, told)
  /\ \A s \in 1 .. NSdu : s > wr => Fresh(s, und, win, told)

\* undelivered_sdu_info_queue agrees with the window, whose only SDU under way is tx.s.
UndeliveredOK(und, tx, win) ==
  \A s \in DOMAIN und : /\ und[s].segs = Carried(win, s)
                        /\ und[s].fully_txed => und[s].segs # {}
                        /\ und[s].fully_txed <=> tx.s # s

\* PDCP is told of an SDU once, when the transmitter has forgotten it.
ToldOK(told, und, win) ==
  /\ \A i, j \in DOMAIN told : i # j => told[i] # told[j]
  /\ \A i \in DOMAIN told : told[i] \notin DOMAIN und /\ Carried(win, told[i]) = {}

SduOK(q, tx, und, win, told, wr) ==
  /\ tx # NoSdu => tx.s # 0 /\ tx.k < SduLen[tx.s] /\ tx.s \in DOMAIN und /\ tx.s <= wr
  /\ QueuedOK(q, und, win, told, wr) /\ UndeliveredOK(und, tx, win)
  /\ ToldOK(told, und, win)

Told == notified \o notify_info_vec

SduInv == SduOK(tx_sdu_queue, tx_sdu, undelivered, tx_window, Told, written)

\* A retransmission changes nothing of it.
LEMMA SduSameCells ==
  ASSUME NEW q, NEW tx, NEW und, NEW win, NEW told, NEW wr, NEW win2,
         SduOK(q, tx, und, win, told, wr), SameCells(win2, win)
  PROVE  SduOK(q, tx, und, win2, told, wr)
<1>1. \A s : Carried(win2, s) = Carried(win, s)
  BY DEF Carried, SameCells
<1> QED
  BY <1>1 DEF SduOK, QueuedOK, UndeliveredOK, ToldOK, Fresh

\* write_sdu
LEMMA SduWritten ==
  ASSUME NEW q \in Seq(0 .. NSdu), NEW tx, NEW und, NEW win, NEW told, NEW wr \in Nat,
         tx \in [s : 0 .. NSdu, k : Nat],
         SduOK(q, tx, und, win, told, wr), wr + 1 <= NSdu
  PROVE  /\ SduOK(q, tx, und, win, told, wr + 1)
         /\ SduOK(Append(q, wr + 1), tx, und, win, told, wr + 1)
<1> DEFINE p == Append(q, wr + 1)
           l == Len(q)
<1>0. NSdu \in Nat
  BY TxAssumption
<1>1. /\ l \in Nat /\ DOMAIN q = 1 .. l /\ DOMAIN p = 1 .. l + 1
      /\ \A i \in 1 .. l : p[i] = q[i] /\ q[i] \in 0 .. NSdu
      /\ p[l + 1] = wr + 1
  BY <1>0
<1> HIDE DEF p, l
<1>2. QueuedOK(q, und, win, told, wr)
  BY DEF SduOK
<1>3. Fresh(wr + 1, und, win, told)
  BY <1>0, <1>2 DEF QueuedOK
<1>4. QueuedOK(q, und, win, told, wr + 1)
  BY <1>0, <1>1, <1>2 DEF QueuedOK
<1>5. QueuedOK(p, und, win, told, wr + 1)
  <2>1. \A i \in 1 .. l : q[i] # wr + 1
    <3>1. ASSUME NEW i \in 1 .. l PROVE q[i] <= wr /\ q[i] \in Int
      BY <1>0, <1>1, <1>2 DEF QueuedOK
    <3> QED
      BY <3>1
  <2>2. \A i \in DOMAIN p : p[i] <= wr + 1
    BY <1>0, <1>1, <1>4 DEF QueuedOK
  <2>3. ASSUME NEW i \in DOMAIN p, NEW j \in DOMAIN p, i # j
        PROVE  p[i] # p[j] \/ p[i] = 0
    <3>1. CASE i \in 1 .. l /\ j \in 1 .. l
      BY <1>1, <1>2, <2>3, <3>1 DEF QueuedOK
    <3>2. CASE ~(i \in 1 .. l /\ j \in 1 .. l)
      BY <1>1, <2>1, <2>3, <3>2
    <3> QED
      BY <3>1, <3>2
  <2>4. \A i \in DOMAIN p : p[i] # 0 => Fresh(p[i], und, win, told)
    <3> TAKE i \in DOMAIN p
    <3>1. CASE i = l + 1
      BY <1>1, <1>3, <3>1
    <3>2. CASE i # l + 1
      <4>1. i \in 1 .. l /\ p[i] = q[i]
        BY <1>1, <3>2
      <4> QED
        BY <4>1, <1>1, <1>2 DEF QueuedOK
    <3> QED
      BY <3>1, <3>2
  <2> QED
    BY <2>2, <2>3, <2>4, <1>4 DEF QueuedOK
<1>6. tx.s <= wr => tx.s <= wr + 1
  BY <1>0
<1> QED
  BY <1>4, <1>5, <1>6 DEF SduOK, p

\* discard_sdu, which leaves null pointers in the queue, and read_sdu, which takes
\* its first SDUs off: an entry of the queue p is null or one of q.
LEMMA SduQueueShrinks ==
  ASSUME NEW q, NEW und, NEW win, NEW told, NEW wr \in Nat, NEW p, NEW f,
         QueuedOK(q, und, win, told, wr),
         \A i \in DOMAIN p : f[i] \in DOMAIN q /\ (p[i] = q[f[i]] \/ p[i] = 0),
         \A i, j \in DOMAIN p : i # j => f[i] # f[j]
  PROVE  QueuedOK(p, und, win, told, wr)
BY DEF QueuedOK

\* empty_queue_nolock
LEMMA SduEmptied ==
  ASSUME SduInv, written \in Nat, DOMAIN undelivered \subseteq 1 .. NSdu
  PROVE  SduOK(<< >>, NoSdu, Emptied, tx_window, Told, written)
<1>1. /\ DOMAIN Emptied \subseteq DOMAIN undelivered
      /\ \A s \in DOMAIN Emptied : Emptied[s] = undelivered[s] /\ (tx_sdu = NoSdu \/ s # tx_sdu.s)
  BY DEF Emptied, Without
<1>2. QueuedOK(<< >>, Emptied, tx_window, Told, written)
  BY <1>1 DEF SduInv, SduOK, QueuedOK, Fresh
<1>3. UndeliveredOK(Emptied, NoSdu, tx_window)
  <2> SUFFICES ASSUME NEW s \in DOMAIN Emptied
               PROVE  /\ Emptied[s].segs = Carried(tx_window, s)
                      /\ Emptied[s].fully_txed => Emptied[s].segs # {}
                      /\ Emptied[s].fully_txed <=> NoSdu.s # s
    BY DEF UndeliveredOK
  <2>1. s \in DOMAIN undelivered /\ Emptied[s] = undelivered[s] /\ s # 0
    BY <1>1
  <2>2. tx_sdu.s # s /\ NoSdu.s = 0
    BY <1>1, <2>1 DEF NoSdu
  <2> QED
    BY <2>1, <2>2 DEF SduInv, SduOK, UndeliveredOK
<1>4. ToldOK(Told, Emptied, tx_window)
  BY <1>1 DEF SduInv, SduOK, ToldOK
<1> QED
  BY <1>2, <1>3, <1>4 DEF SduOK

\* discard_sdu
LEMMA SduDiscarded ==
  ASSUME SduInv, tx_sdu_queue \in Seq(0 .. NSdu), written \in Nat, NEW s
  PROVE  /\ Nulled(s) \in Seq(0 .. NSdu)
         /\ SduOK(Nulled(s), tx_sdu, undelivered, tx_window, Told, written)
<1> DEFINE p == Nulled(s)
           f == [i \in DOMAIN tx_sdu_queue |-> i]
           l == Len(tx_sdu_queue)
<1>1. NSdu \in Nat /\ l \in Nat /\ DOMAIN tx_sdu_queue = 1 .. l
  BY TxAssumption
<1>2. /\ DOMAIN p = 1 .. l
      /\ \A i \in 1 .. l : p[i] = tx_sdu_queue[i] \/ p[i] = 0
      /\ \A i \in 1 .. l : p[i] \in 0 .. NSdu
      /\ p = [i \in 1 .. l |-> p[i]]
  BY <1>1 DEF Nulled
<1> HIDE DEF l, p
<1>3. p \in Seq(0 .. NSdu)
  <2>1. p \in [1 .. l -> 0 .. NSdu]
    BY <1>2
  <2> QED
    BY <1>1, <2>1, SeqDef
<1>4. QueuedOK(tx_sdu_queue, undelivered, tx_window, Told, written)
  BY DEF SduInv, SduOK
<1>5. /\ \A i \in DOMAIN p : f[i] \in DOMAIN tx_sdu_queue
                             /\ (p[i] = tx_sdu_queue[f[i]] \/ p[i] = 0)
      /\ \A i, j \in DOMAIN p : i # j => f[i] # f[j]
  BY <1>1, <1>2
<1> HIDE DEF f
<1>6. QueuedOK(p, undelivered, tx_window, Told, written)
  BY <1>4, <1>5, SduQueueShrinks
<1> QED
  BY <1>3, <1>6 DEF SduInv, SduOK, p

\* stop, when nothing is left.
LEMMA SduStopped ==
  ASSUME SduInv
  PROVE  SduOK(<< >>, NoSdu, NoEntries, NoEntries, Told, written)
<1>1. DOMAIN NoEntries = {}
  BY DEF NoEntries
<1>2. \A s : Carried(NoEntries, s) = {}
  BY <1>1 DEF Carried
<1>3. DOMAIN << >> = {}
  OBVIOUS
<1>4. \A i, j \in DOMAIN Told : i # j => Told[i] # Told[j]
  BY DEF SduInv, SduOK, ToldOK
<1>5. \A s \in 1 .. NSdu : s > written => \A i \in DOMAIN Told : Told[i] # s
  BY DEF SduInv, SduOK, QueuedOK, Fresh
<1>6. QueuedOK(<< >>, NoEntries, NoEntries, Told, written)
  BY <1>1, <1>2, <1>3, <1>5 DEF QueuedOK, Fresh
<1>7. UndeliveredOK(NoEntries, NoSdu, NoEntries) /\ ToldOK(Told, NoEntries, NoEntries)
  BY <1>1, <1>2, <1>4 DEF UndeliveredOK, ToldOK
<1> QED
  BY <1>6, <1>7 DEF SduOK

\* build_data_pdu: the SDUs of the new PDU, begun before or taken from the queue,
\* wait for it too.
LEMMA SduRead ==
  ASSUME SduInv, RetxInv, PartsOK, NEW n \in Nat \ {0}, TxOff(Inc(vt_s)) <= W,
         written \in Nat, DOMAIN undelivered \subseteq 1 .. NSdu
  PROVE  SduOK(RestOfQueue(n), RestOfSdu(n), NewUndelivered(n), NewWindow(n), Told, written)
<1> DEFINE T == TakenSdus(n)
           win == NewWindow(n)
           und == NewUndelivered(n)
           q == RestOfQueue(n)
           tx == RestOfSdu(n)
           m == LastTaken(n)
<1>1. /\ vt_s \notin DOMAIN tx_window /\ DOMAIN win = DOMAIN tx_window \cup {vt_s}
      /\ win[vt_s].cells = NewCells(n)
      /\ \A sn \in DOMAIN tx_window : win[sn].cells = tx_window[sn].cells
  BY ReadDataRetx
<1>2. \A s : Carried(win, s) = Carried(tx_window, s) \cup (IF s \in T THEN {vt_s} ELSE {})
  <2>1. \A s : s \in T <=> \E c \in DOMAIN NewCells(n) : NewCells(n)[c].s = s
    BY NewPduCells
  <2> HIDE DEF win, T
  <2> QED
    BY <1>1, <2>1 DEF Carried
<1>3. /\ QueuedOK(tx_sdu_queue, undelivered, tx_window, Told, written)
      /\ UndeliveredOK(undelivered, tx_sdu, tx_window)
      /\ ToldOK(Told, undelivered, tx_window)
      /\ tx_sdu # NoSdu => tx_sdu.s # 0 /\ tx_sdu.s \in DOMAIN undelivered /\ tx_sdu.s <= written
      /\ tx_sdu = NoSdu => tx_sdu.s = 0
  BY DEF SduInv, SduOK, NoSdu
<1>4. ASSUME NEW i \in Taken(n)
      PROVE  /\ i <= m /\ Part(i).s # 0
             /\ \/ i = 0 /\ Part(i).s = tx_sdu.s /\ tx_sdu # NoSdu
                \/ i \in DOMAIN tx_sdu_queue /\ Part(i).s = tx_sdu_queue[i]
  <2>1. i \in 0 .. Len(tx_sdu_queue) /\ PartLen(i) > 0
    BY DEF Taken
  <2>2. i <= m
    BY TakenParts
  <2>3. tx_sdu_queue \in Seq(0 .. NSdu)
    BY DEF PartsOK
  <2>4. Part(i).s # 0
    BY <2>1 DEF PartLen
  <2>5. CASE i = 0
    BY <2>2, <2>4, <2>5, <1>3 DEF Part
  <2>6. CASE i # 0
    <3>1. i \in DOMAIN tx_sdu_queue
      BY <2>1, <2>3, <2>6
    <3>2. Part(i).s = tx_sdu_queue[i]
      BY <2>6 DEF Part
    <3> QED
      BY <2>2, <2>4, <3>1, <3>2
  <2> QED
    BY <2>5, <2>6
<1> HIDE DEF m
<1>5. \A i, j \in Taken(n) : i # j => Part(i).s # Part(j).s
  BY <1>3, <1>4 DEF QueuedOK, Fresh
<1>6. ASSUME NEW s \in T
      PROVE  /\ s # 0 /\ s <= written
             /\ \/ s = tx_sdu.s /\ tx_sdu # NoSdu /\ s \in DOMAIN undelivered
                \/ Fresh(s, undelivered, tx_window, Told)
                   /\ \E i \in DOMAIN tx_sdu_queue : s = tx_sdu_queue[i] /\ i <= m
  <2>1. PICK i \in Taken(n) : s = Part(i).s
    BY <1>6 DEF TakenSdus
  <2> QED
    BY <2>1, <1>3, <1>4 DEF QueuedOK
<1>7. tx_sdu # NoSdu => tx_sdu.s \in T
  <2>1. tx_sdu # NoSdu => 0 \in Taken(n)
    BY TakenParts
  <2> QED
    BY <2>1 DEF TakenSdus, Part
<1>8. /\ tx # NoSdu => tx.s \in T /\ tx.s # 0 /\ tx.k < SduLen[tx.s]
      /\ tx = NoSdu => tx.s = 0
  <2>1. \/ tx = NoSdu
        \/ m \in Taken(n) /\ tx.s = Part(m).s /\ tx.s \in 1 .. NSdu /\ tx.k < SduLen[tx.s]
    BY NewPduRest DEF m
  <2> QED
    BY <2>1, <1>4 DEF TakenSdus, NoSdu
<1>9. /\ DOMAIN und = DOMAIN undelivered \cup T
      /\ \A s \in DOMAIN undelivered : s \notin T => und[s] = undelivered[s]
      /\ \A s \in T : /\ und[s].segs = (IF s \in DOMAIN undelivered THEN undelivered[s].segs
                                        ELSE {}) \cup {vt_s}
                      /\ und[s].fully_txed <=> tx.s # s
  <2> DEFINE ends == {NewCells(n)[c].s : c \in {d \in DOMAIN NewCells(n) : NewCells(n)[d].e}}
             sdus == T \ ({tx_sdu.s} \ DOMAIN undelivered)
             old(s) == IF s \in DOMAIN undelivered THEN undelivered[s]
                       ELSE [fully_txed |-> FALSE, segs |-> {}]
  <2>1. und = [s \in DOMAIN undelivered \cup sdus |->
                 IF s \in sdus THEN [fully_txed |-> s \in ends,
                                     segs |-> old(s).segs \cup {vt_s}]
                 ELSE undelivered[s]]
    BY DEF NewUndelivered, TakenSdus
  <2>2. sdus = T
    BY <1>3, <1>6, <1>7 DEF Fresh
  <2>3. \A s \in T : s \in ends <=> tx.s # s
    <3> TAKE s \in T
    <3>1. (\E c \in DOMAIN NewCells(n) : NewCells(n)[c].s = s /\ NewCells(n)[c].e)
            <=> RestOfSdu(n).s # s
      BY <1>5, NewPduEnds
    <3> QED
      BY <3>1
  <2> HIDE DEF ends, sdus, T, tx, und
  <2>4. \A s : old(s).segs = IF s \in DOMAIN undelivered THEN undelivered[s].segs ELSE {}
    OBVIOUS
  <2> HIDE DEF old
  <2>5. ASSUME NEW s \in T
        PROVE  /\ und[s].segs = (IF s \in DOMAIN undelivered THEN undelivered[s].segs
                                 ELSE {}) \cup {vt_s}
               /\ und[s].fully_txed <=> tx.s # s
    <3> DEFINE full == s \in ends
               segs == old(s).segs \cup {vt_s}
    <3>1. und[s] = [fully_txed |-> full, segs |-> segs]
      BY <2>1, <2>2, Zenon
    <3>2. full \in BOOLEAN /\ (full <=> tx.s # s)
      BY <2>3
    <3>3. segs = (IF s \in DOMAIN undelivered THEN undelivered[s].segs ELSE {}) \cup {vt_s}
      BY <2>4
    <3> HIDE DEF full, segs
    <3>4. und[s].fully_txed = full /\ und[s].segs = segs
      BY <3>1
    <3> QED
      BY <3>2, <3>3, <3>4
  <2>6. DOMAIN und = DOMAIN undelivered \cup T
    BY <2>1, <2>2, Zenon
  <2>7. ASSUME NEW s \in DOMAIN undelivered, s \notin T PROVE und[s] = undelivered[s]
    BY <2>1, <2>2, <2>7, Zenon
  <2> QED
    BY <2>5, <2>6, <2>7
<1> HIDE DEF T, win, und, q, tx
<1>10. UndeliveredOK(und, tx, win)
  <2> SUFFICES ASSUME NEW s \in DOMAIN und
               PROVE  /\ und[s].segs = Carried(win, s)
                      /\ und[s].fully_txed => und[s].segs # {}
                      /\ und[s].fully_txed <=> tx.s # s
    BY DEF UndeliveredOK
  <2>1. CASE s \in T
    <3>1. Carried(tx_window, s) = IF s \in DOMAIN undelivered THEN undelivered[s].segs ELSE {}
      BY <2>1, <1>3, <1>6 DEF UndeliveredOK, Fresh
    <3>2. Carried(win, s) = Carried(tx_window, s) \cup {vt_s}
      BY <2>1, <1>2
    <3>3. und[s].segs = Carried(tx_window, s) \cup {vt_s}
      BY <2>1, <3>1, <1>9
    <3> QED
      BY <3>2, <3>3, <2>1, <1>9
  <2>2. CASE s \notin T
    <3>1. s \in DOMAIN undelivered /\ und[s] = undelivered[s] /\ s # 0
      BY <2>2, <1>9
    <3>2. tx_sdu.s # s /\ tx.s # s
      BY <2>2, <3>1, <1>3, <1>7, <1>8
    <3>3. Carried(win, s) = Carried(tx_window, s)
      BY <2>2, <1>2
    <3> QED
      BY <3>1, <3>2, <3>3, <1>3 DEF UndeliveredOK
  <2> QED
    BY <2>1, <2>2
<1>11. \A s : s \notin T /\ Fresh(s, undelivered, tx_window, Told) => Fresh(s, und, win, Told)
  BY <1>2, <1>9 DEF Fresh
<1>12. QueuedOK(q, und, win, Told, written)
  <2>1. /\ DOMAIN q \subseteq Nat \ {0} /\ m \in Nat
        /\ \A j \in DOMAIN q : j + m \in DOMAIN tx_sdu_queue /\ q[j] = tx_sdu_queue[j + m]
    <3>1. m \in 0 .. Len(tx_sdu_queue) /\ Len(tx_sdu_queue) \in Nat
      BY TakenParts, PartLens DEF m
    <3>2. /\ DOMAIN q = 1 .. Len(tx_sdu_queue) - m
          /\ \A j \in DOMAIN q : j + m \in DOMAIN tx_sdu_queue /\ q[j] = tx_sdu_queue[j + m]
      BY NewPduRest DEF q, m
    <3> QED
      BY <3>1, <3>2
  <2> DEFINE f == [j \in DOMAIN q |-> j + m]
  <2>2. /\ \A i \in DOMAIN q : f[i] \in DOMAIN tx_sdu_queue
                               /\ (q[i] = tx_sdu_queue[f[i]] \/ q[i] = 0)
        /\ \A i, j \in DOMAIN q : i # j => f[i] # f[j]
    BY <2>1
  <2> HIDE DEF f
  <2>3. QueuedOK(q, undelivered, tx_window, Told, written)
    BY <2>2, <1>3, SduQueueShrinks
  <2>4. ASSUME NEW j \in DOMAIN q, q[j] # 0 PROVE q[j] \notin T
    <3>1. Fresh(q[j], undelivered, tx_window, Told)
      BY <2>3, <2>4 DEF QueuedOK
    <3>2. \A i \in DOMAIN tx_sdu_queue : q[j] = tx_sdu_queue[i] => i = j + m
      BY <2>1, <2>4, <1>3 DEF QueuedOK
    <3>3. ~(j + m <= m)
      BY <2>1
    <3> QED
      BY <3>1, <3>2, <3>3, <1>6 DEF Fresh
  <2>5. \A s \in 1 .. NSdu : s > written => s \notin T
    BY <1>6, TxAssumption
  <2> QED
    BY <2>3, <2>4, <2>5, <1>11 DEF QueuedOK
<1>13. ToldOK(Told, und, win)
  <2>1. \A i \in DOMAIN Told : Told[i] \notin T
    BY <1>3, <1>6 DEF ToldOK, Fresh
  <2> QED
    BY <2>1, <1>2, <1>3, <1>9 DEF ToldOK
<1>14. tx # NoSdu => tx.s # 0 /\ tx.k < SduLen[tx.s] /\ tx.s \in DOMAIN und /\ tx.s <= written
  BY <1>6, <1>8, <1>9
<1> QED
  BY <1>10, <1>12, <1>13, <1>14 DEF SduOK, T, win, und, q, tx

\* Two lists of SDUs, one after the other.
LEMMA ToldTwice ==
  ASSUME NEW t \in Seq(1 .. NSdu), NEW a \in Seq(1 .. NSdu)
  PROVE  /\ t \o a \in Seq(1 .. NSdu)
         /\ \A i \in DOMAIN (t \o a) :
              \/ i \in DOMAIN t /\ (t \o a)[i] = t[i]
              \/ /\ i \notin DOMAIN t /\ i \in Int /\ i - Len(t) \in DOMAIN a
                 /\ (t \o a)[i] = a[i - Len(t)]
<1> DEFINE u == t \o a
           l == Len(t)
           k == Len(a)
<1>1. /\ u \in Seq(1 .. NSdu) /\ Len(u) = l + k
      /\ \A i \in 1 .. l + k : u[i] = IF i <= l THEN t[i] ELSE a[i - l]
  BY ConcatProperties
<1>2. l \in Nat /\ k \in Nat /\ DOMAIN t = 1 .. l /\ DOMAIN a = 1 .. k
  OBVIOUS
<1> HIDE DEF u, l, k
<1>3. DOMAIN u = 1 .. l + k
  BY <1>1, <1>2
<1> QED
  BY <1>1, <1>2, <1>3 DEF u, l

\* update_notification_ack_info lists the SDUs that are acknowledged now, each once.
LEMMA AckedOnce ==
  ASSUME DOMAIN undelivered \subseteq 1 .. NSdu, NEW sn, NEW acked \in InOrder(FullyAcked(sn))
  PROVE  /\ acked \in Seq(1 .. NSdu)
         /\ \A i \in DOMAIN acked : acked[i] \in FullyAcked(sn)
         /\ \A i, j \in DOMAIN acked : i # j => acked[i] # acked[j]
<1> DEFINE F == FullyAcked(sn)
           n == Cardinality(F)
<1>1. NSdu \in Nat /\ F \subseteq 1 .. NSdu
  BY TxAssumption DEF FullyAcked
<1>2. n \in Nat
  <2>1. IsFiniteSet(1 .. NSdu)
    BY <1>1, FS_Interval
  <2>2. IsFiniteSet(F)
    BY <1>1, <2>1, FS_Subset
  <2> QED
    BY <2>2, FS_CardinalityType
<1>3. acked \in [1 .. n -> F] /\ \A i, j \in DOMAIN acked : i < j => acked[i] < acked[j]
  BY DEF InOrder
<1> HIDE DEF F, n
<1>4. \A i \in 1 .. n : acked[i] \in F /\ acked[i] \in 1 .. NSdu
  BY <1>1, <1>3
<1>5. \A i, j \in 1 .. n : i # j => acked[i] # acked[j]
  BY <1>1, <1>2, <1>3, <1>4
<1>6. acked \in [1 .. n -> 1 .. NSdu]
  BY <1>3, <1>4
<1>7. acked \in Seq(1 .. NSdu)
  BY <1>2, <1>6, SeqDef
<1> QED
  BY <1>3, <1>4, <1>5, <1>7 DEF F

\* handle_control_pdu on an acknowledged SN: its PDU goes, and with it what the SDUs
\* it carried had to wait for; those that wait for nothing more are forgotten.
LEMMA SduAcked ==
  ASSUME SduInv, NEW sn \in DOMAIN tx_window, DOMAIN undelivered \subseteq 1 .. NSdu,
         Told \in Seq(1 .. NSdu), NEW acked \in InOrder(FullyAcked(sn))
  PROVE  SduOK(tx_sdu_queue, tx_sdu, AckSegments(sn), Without(tx_window, sn),
               Told \o acked, written)
<1> DEFINE F == FullyAcked(sn)
           und == AckSegments(sn)
           win == Without(tx_window, sn)
           told == Told \o acked
<1>1. \A s : Carried(win, s) = Carried(tx_window, s) \ {sn}
  BY DEF Carried, Without
<1>2. /\ QueuedOK(tx_sdu_queue, undelivered, tx_window, Told, written)
      /\ UndeliveredOK(undelivered, tx_sdu, tx_window)
      /\ ToldOK(Told, undelivered, tx_window)
      /\ tx_sdu # NoSdu => /\ tx_sdu.s # 0 /\ tx_sdu.k < SduLen[tx_sdu.s]
                           /\ tx_sdu.s \in DOMAIN undelivered /\ tx_sdu.s <= written
  BY DEF SduInv, SduOK
<1>3. ASSUME NEW s \in F
      PROVE  s \in DOMAIN undelivered /\ Carried(win, s) = {} /\ tx_sdu.s # s
  <2>1. s \in DOMAIN undelivered /\ undelivered[s].fully_txed /\ undelivered[s].segs = {sn}
    BY <1>3 DEF FullyAcked
  <2> QED
    BY <2>1, <1>1, <1>2 DEF UndeliveredOK
<1>4. /\ DOMAIN und = DOMAIN undelivered \ F
      /\ \A s \in DOMAIN und : und[s] = [undelivered[s] EXCEPT !.segs = @ \ {sn}]
  BY DEF AckSegments
<1>5. /\ acked \in Seq(1 .. NSdu)
      /\ \A i \in DOMAIN acked : acked[i] \in F
      /\ \A i, j \in DOMAIN acked : i # j => acked[i] # acked[j]
  BY AckedOnce
<1>6. \A i \in DOMAIN told :
        \/ i \in DOMAIN Told /\ told[i] = Told[i]
        \/ /\ i \notin DOMAIN Told /\ i \in Int /\ i - Len(Told) \in DOMAIN acked
           /\ told[i] = acked[i - Len(Told)]
  BY <1>5, ToldTwice
<1> HIDE DEF F, und, win, told
<1>7. UndeliveredOK(und, tx_sdu, win)
  <2> SUFFICES ASSUME NEW s \in DOMAIN und
               PROVE  /\ und[s].segs = Carried(win, s)
                      /\ und[s].fully_txed => und[s].segs # {}
                      /\ und[s].fully_txed <=> tx_sdu.s # s
    BY DEF UndeliveredOK
  <2> DEFINE u == undelivered[s]
  <2>1. s \in DOMAIN undelivered /\ s \notin F /\ und[s] = [u EXCEPT !.segs = @ \ {sn}]
    BY <1>4
  <2>2. /\ u.segs = Carried(tx_window, s)
        /\ u.fully_txed => u.segs # {}
        /\ u.fully_txed <=> tx_sdu.s # s
    BY <2>1, <1>2 DEF UndeliveredOK
  <2>3. ~(u.fully_txed /\ u.segs = {sn})
    BY <2>1 DEF FullyAcked, F
  <2> HIDE DEF u
  <2>4. /\ und[s].segs = u.segs \ {sn}
        /\ und[s].fully_txed = u.fully_txed
    BY <2>1
  <2> QED
    BY <1>1, <2>2, <2>3, <2>4
<1>8. \A s : Fresh(s, undelivered, tx_window, Told) => Fresh(s, und, win, told)
  BY <1>1, <1>3, <1>4, <1>5, <1>6 DEF Fresh
<1>9. QueuedOK(tx_sdu_queue, und, win, told, written)
  BY <1>2, <1>8 DEF QueuedOK
<1>10. ToldOK(told, und, win)
  <2>1. ASSUME NEW i \in DOMAIN told
        PROVE  told[i] \notin DOMAIN und /\ Carried(win, told[i]) = {}
    <3>1. CASE i \in DOMAIN Told /\ told[i] = Told[i]
      BY <3>1, <1>1, <1>2, <1>4 DEF ToldOK
    <3>2. CASE i - Len(Told) \in DOMAIN acked /\ told[i] = acked[i - Len(Told)]
      BY <3>2, <1>3, <1>4, <1>5
    <3> QED
      BY <3>1, <3>2, <1>6
  <2>2. ASSUME NEW i \in DOMAIN told, NEW j \in DOMAIN told, i # j PROVE told[i] # told[j]
    <3>1. \A x \in DOMAIN Told : \A y \in DOMAIN acked : Told[x] # acked[y]
      BY <1>2, <1>3, <1>5 DEF ToldOK
    <3>2. CASE i \in DOMAIN Told
      BY <3>1, <3>2, <2>2, <1>2, <1>6 DEF ToldOK
    <3>3. CASE i \notin DOMAIN Told /\ j \in DOMAIN Told
      BY <3>1, <3>3, <1>6
    <3>4. CASE i \notin DOMAIN Told /\ j \notin DOMAIN Told
      <4>1. /\ i \in Int /\ j \in Int /\ i - Len(Told) \in DOMAIN acked /\ j - Len(Told) \in DOMAIN acked
            /\ told[i] = acked[i - Len(Told)] /\ told[j] = acked[j - Len(Told)]
        BY <3>4, <1>6
      <4>2. Len(Told) \in Nat
        OBVIOUS
      <4>3. i - Len(Told) # j - Len(Told)
        BY <2>2, <4>1, <4>2
      <4> QED
        BY <4>1, <4>3, <1>5
    <3> QED
      BY <3>2, <3>3, <3>4
  <2> QED
    BY <2>1, <2>2 DEF ToldOK
<1>11. tx_sdu # NoSdu => tx_sdu.s \in DOMAIN und
  BY <1>2, <1>3, <1>4
<1> QED
  BY <1>2, <1>7, <1>9, <1>10, <1>11 DEF SduOK, F, und, win, told

-----------------------------------------------------------------------------
(* Where the cells of an SDU are, and what PDCP is told.                       *)

\* The k-th cell of SDU s, and whether a PDU of the window win carries the cell x.
SduCell(s, k) == [s |-> s, k |-> k, e |-> k = SduLen[s]]

Has(win, x) == \E sn \in DOMAIN win : \E c \in DOMAIN win[sn].cells : win[sn].cells[c] = x

\* Every cell of an SDU under way has been received, is in a PDU that still waits for
\* its acknowledgement, or has not been sent.
HeldBack(und, tx, win, recv) ==
  \A s \in DOMAIN und : \A k \in 1 .. SduLen[s] :
     \/ SduCell(s, k) \in recv
     \/ Has(win, SduCell(s, k))
     \/ s = tx.s /\ tx.k < k

\* Every cell of the SDUs that PDCP is told of has been received.
ToldHas(told, recv) ==
  \A i \in DOMAIN told : \A k \in 1 .. SduLen[told[i]] : SduCell(told[i], k) \in recv

\* More is received, and the payload of the window stays.
LEMMA HeldSame ==
  ASSUME NEW und, NEW tx, NEW win, NEW recv, HeldBack(und, tx, win, recv),
         NEW win2, SameCells(win2, win), NEW recv2, recv \subseteq recv2
  PROVE  HeldBack(und, tx, win2, recv2)
<1>1. \A x : Has(win, x) => Has(win2, x)
  BY DEF Has, SameCells
<1> QED
  BY <1>1 DEF HeldBack

\* build_data_pdu: what leaves the SDUs goes into the new PDU.
LEMMA HeldRead ==
  ASSUME SduInv, RetxInv, PartsOK, NEW n \in Nat \ {0}, TxOff(Inc(vt_s)) <= W,
         DOMAIN undelivered \subseteq 1 .. NSdu,
         NEW recv, HeldBack(undelivered, tx_sdu, tx_window, recv)
  PROVE  HeldBack(NewUndelivered(n), RestOfSdu(n), NewWindow(n), recv)
<1> DEFINE T == TakenSdus(n)
           win == NewWindow(n)
           und == NewUndelivered(n)
           tx == RestOfSdu(n)
<1>1. /\ DOMAIN win = DOMAIN tx_window \cup {vt_s} /\ win[vt_s].cells = NewCells(n)
      /\ \A sn \in DOMAIN tx_window : win[sn].cells = tx_window[sn].cells
  BY ReadDataRetx
<1>2. DOMAIN und \subseteq DOMAIN undelivered \cup T
  BY DEF NewUndelivered, TakenSdus
<1>3. /\ tx_sdu # NoSdu => tx_sdu.s # 0 /\ tx_sdu.s \in DOMAIN undelivered /\ tx_sdu.s \in T
      /\ tx_sdu = NoSdu => tx_sdu.s = 0
  <2>1. tx_sdu # NoSdu => 0 \in Taken(n)
    BY TakenParts DEF SduInv, SduOK, SduBegun
  <2> QED
    BY <2>1 DEF SduInv, SduOK, NoSdu, TakenSdus, Part
<1>4. ASSUME NEW x, Has(tx_window, x) PROVE Has(win, x)
  <2> HIDE DEF win
  <2> QED
    BY <1>1, <1>4 DEF Has
<1>5. ASSUME NEW c \in DOMAIN NewCells(n) PROVE Has(win, NewCells(n)[c])
  <2> HIDE DEF win
  <2> QED
    BY <1>1 DEF Has
<1>6. ASSUME NEW i \in Taken(n)
      PROVE  /\ Part(i).s \in 1 .. NSdu /\ Part(i).k \in Nat
             /\ i = 0 \/ Part(i).k = 0
             /\ i = 0 => Part(i) = tx_sdu
  <2>1. i \in 0 .. Len(tx_sdu_queue) /\ PartLen(i) > 0
    BY DEF Taken
  <2> QED
    BY <2>1, PartLens DEF Part
<1> HIDE DEF T, win, und, tx
<1> SUFFICES ASSUME NEW s \in DOMAIN und, NEW k \in 1 .. SduLen[s]
             PROVE  \/ SduCell(s, k) \in recv
                    \/ Has(win, SduCell(s, k))
                    \/ s = tx.s /\ tx.k < k
  BY DEF HeldBack, und, win, tx
<1>7. s \in DOMAIN undelivered =>
        \/ SduCell(s, k) \in recv
        \/ Has(tx_window, SduCell(s, k))
        \/ s = tx_sdu.s /\ tx_sdu.k < k
  BY DEF HeldBack
<1>8. CASE s \in T
  <2>1. PICK i \in Taken(n) : s = Part(i).s
    BY <1>8 DEF TakenSdus, T
  <2>2. s \in 1 .. NSdu /\ Part(i).k \in Nat /\ (i = 0 \/ Part(i).k = 0)
        /\ (i = 0 => Part(i) = tx_sdu)
    BY <1>6, <2>1
  <2>3. k \in Nat /\ k > 0 /\ k <= SduLen[s]
    <3>1. SduLen[s] \in Nat
      BY <2>2, TxAssumption
    <3> QED
      BY <3>1
  <2>4. CASE Part(i).k < k
    <3>1. \/ \E c \in DOMAIN NewCells(n) :
               NewCells(n)[c] = [s |-> Part(i).s, k |-> k, e |-> k = SduLen[Part(i).s]]
          \/ RestOfSdu(n).s = Part(i).s /\ RestOfSdu(n).k < k
      BY <2>1, <2>3, <2>4, NewPduHolds
    <3>2. [s |-> Part(i).s, k |-> k, e |-> k = SduLen[Part(i).s]] = SduCell(s, k)
      BY <2>1 DEF SduCell
    <3> QED
      BY <3>1, <3>2, <2>1, <1>5, Zenon DEF tx
  <2>5. CASE ~(Part(i).k < k)
    <3>1. i = 0 /\ Part(i) = tx_sdu /\ ~(tx_sdu.k < k) /\ tx_sdu.s = s /\ s # 0
      BY <2>1, <2>2, <2>3, <2>5
    <3>2. s \in DOMAIN undelivered
      BY <3>1, <1>3
    <3> QED
      BY <3>1, <3>2, <1>4, <1>7
  <2> QED
    BY <2>4, <2>5
<1>9. CASE s \notin T
  <2>1. s \in DOMAIN undelivered /\ s \in 1 .. NSdu
    BY <1>2, <1>9
  <2>2. tx_sdu.s # s
    <3>1. s # 0
      BY <2>1, TxAssumption
    <3> QED
      BY <3>1, <1>3, <1>9
  <2> QED
    BY <2>1, <2>2, <1>4, <1>7
<1> QED
  BY <1>8, <1>9

\* handle_control_pdu on an acknowledged SN, whose PDU the peer has.
LEMMA HeldAcked ==
  ASSUME SduInv, NEW sn \in DOMAIN tx_window, DOMAIN undelivered \subseteq 1 .. NSdu,
         Told \in Seq(1 .. NSdu), NEW acked \in InOrder(FullyAcked(sn)),
         NEW recv, HeldBack(undelivered, tx_sdu, tx_window, recv), ToldHas(Told, recv),
         \A c \in DOMAIN tx_window[sn].cells : tx_window[sn].cells[c] \in recv
  PROVE  /\ HeldBack(AckSegments(sn), tx_sdu, Without(tx_window, sn), recv)
         /\ ToldHas(Told \o acked, recv)
<1>1. UndeliveredOK(undelivered, tx_sdu, tx_window)
  BY DEF SduInv, SduOK
<1>2. ASSUME NEW x, Has(tx_window, x) PROVE x \in recv \/ Has(Without(tx_window, sn), x)
  BY <1>2 DEF Has, Without
<1>3. HeldBack(undelivered, tx_sdu, Without(tx_window, sn), recv)
  BY <1>2 DEF HeldBack
<1>4. DOMAIN AckSegments(sn) \subseteq DOMAIN undelivered
  BY DEF AckSegments
<1>5. HeldBack(AckSegments(sn), tx_sdu, Without(tx_window, sn), recv)
  BY <1>3, <1>4 DEF HeldBack
<1>6. ASSUME NEW s \in FullyAcked(sn), NEW k \in 1 .. SduLen[s] PROVE SduCell(s, k) \in recv
  <2>1. s \in DOMAIN undelivered /\ undelivered[s].fully_txed /\ undelivered[s].segs = {sn}
    BY DEF FullyAcked
  <2>2. Carried(tx_window, s) = {sn} /\ tx_sdu.s # s
    BY <2>1, <1>1 DEF UndeliveredOK
  <2>3. ASSUME Has(Without(tx_window, sn), SduCell(s, k)) PROVE FALSE
    <3>1. PICK m \in DOMAIN tx_window :
             /\ m # sn
             /\ \E c \in DOMAIN tx_window[m].cells : tx_window[m].cells[c] = SduCell(s, k)
      BY <2>3 DEF Has, Without
    <3>2. m \in Carried(tx_window, s)
      BY <3>1 DEF Carried, SduCell
    <3> QED
      BY <3>1, <3>2, <2>2
  <2> QED
    BY <2>1, <2>2, <2>3, <1>3 DEF HeldBack
<1>7. /\ acked \in Seq(1 .. NSdu)
      /\ \A i \in DOMAIN acked : acked[i] \in FullyAcked(sn)
  BY AckedOnce
<1> DEFINE told == Told \o acked
<1>8. \A i \in DOMAIN told :
        \/ i \in DOMAIN Told /\ told[i] = Told[i]
        \/ i - Len(Told) \in DOMAIN acked /\ told[i] = acked[i - Len(Told)]
  BY <1>7, ToldTwice
<1> HIDE DEF told
<1>9. ToldHas(told, recv)
  BY <1>6, <1>7, <1>8 DEF ToldHas
<1> QED
  BY <1>5, <1>9 DEF told

-----------------------------------------------------------------------------
(* The inductive invariant.                                                    *)

QueueTypes == /\ tx_enabled \in BOOLEAN
              /\ tx_sdu_queue \in Seq(0 .. NSdu) /\ tx_sdu \in [s : 0 .. NSdu, k : Nat]
              /\ written \in 0 .. NSdu /\ accepted \in Seq(1 .. NSdu)

PollTypes == /\ poll_sn \in SN /\ pdu_without_poll \in 0 .. PollPdu + 1
             /\ poll_retx_timer \in {"stopped", "running", "expired"}

SduTypes == /\ DOMAIN undelivered \subseteq 1 .. NSdu
            /\ undelivered \in [DOMAIN undelivered -> [fully_txed : BOOLEAN, segs : SUBSET SN]]
            /\ notify_info_vec \in Seq(1 .. NSdu) /\ notified \in Seq(1 .. NSdu)

Events == {"max_retx_attempted", "protocol_failure"}

ControlState == [pc : {"control"}, status : [ack_sn : SN, nacks : SUBSET SN],
                 i : SN, vt_s_local : SN, update_vt_a : BOOLEAN]

StackTypes == /\ rrc_events \subseteq Events
              /\ stack \in [pc : {"idle", "timer_expired"}] \cup ControlState

\* While a status PDU is applied, its loop ends no later than VT(S), and VT(A) moves
\* with the loop as long as it moves at all.
EdgesOK == /\ vt_ms = (vt_a + W) % MOD
           /\ stack.pc = "control" =>
                /\ TxOff(stack.vt_s_local) <= TxOff(vt_s)
                /\ stack.update_vt_a => stack.i = vt_a

TxInv == QueueTypes /\ PollTypes /\ SduTypes /\ StackTypes /\ RetxInv /\ EdgesOK /\ SduInv

\* The invariant says what the runs check.
LEMMA TxInvShows ==
  ASSUME TxInv
  PROVE  TxTypeOK /\ TxWindowSound /\ RetxInPdu /\ UndeliveredSound /\ NotifiedOnce
<1>1. TxTypeOK
  <2>1. vt_ms \in SN
    BY WindowAssumption DEF TxInv, EdgesOK, RetxInv, SN, MOD
  <2> QED
    BY <2>1 DEF TxInv, QueueTypes, PollTypes, SduTypes, StackTypes, RetxInv, WindowOK,
                TxTypeOK, Retx, TxPdu, Events, ControlState
<1>2. TxWindowSound
  BY DEF TxInv, EdgesOK, RetxInv, TxWindowSound
<1>3. RetxInPdu
  BY DEF TxInv, RetxInv, InPdu, PartOf, RetxInPdu
<1>4. UndeliveredSound
  BY DEF TxInv, SduInv, SduOK, UndeliveredOK, Carried, UndeliveredSound
<1>5. NotifiedOnce
  <2>1. /\ QueuedOK(tx_sdu_queue, undelivered, tx_window, Told, written)
        /\ ToldOK(Told, undelivered, tx_window)
        /\ tx_sdu # NoSdu => tx_sdu.s \in DOMAIN undelivered
    BY DEF TxInv, SduInv, SduOK
  <2>2. ASSUME NEW i \in DOMAIN Told
        PROVE  /\ \A sn \in DOMAIN tx_window : \A c \in DOMAIN tx_window[sn].cells :
                     tx_window[sn].cells[c].s # Told[i]
               /\ Told[i] # tx_sdu.s
               /\ \A j \in DOMAIN tx_sdu_queue : tx_sdu_queue[j] # Told[i]
    <3>1. Told[i] \notin DOMAIN undelivered /\ Carried(tx_window, Told[i]) = {}
      BY <2>1, <2>2 DEF ToldOK
    <3>2. Told[i] \in 1 .. NSdu
      <4>1. notified \in Seq(1 .. NSdu) /\ notify_info_vec \in Seq(1 .. NSdu)
        BY DEF TxInv, SduTypes
      <4>2. Told \in Seq(1 .. NSdu)
        BY <4>1, ToldTwice DEF Told
      <4>3. i \in 1 .. Len(Told)
        BY <4>2, <2>2
      <4> QED
        BY <4>2, <4>3, ElementOfSeq
    <3>3. Told[i] # 0
      BY <3>2
    <3>4. tx_sdu = NoSdu => tx_sdu.s = 0
      BY DEF NoSdu
    <3> QED
      BY <3>1, <3>3, <3>4, <2>1 DEF Carried, QueuedOK, Fresh
  <2>3. \A i, j \in DOMAIN Told : i # j => Told[i] # Told[j]
    BY <2>1 DEF ToldOK
  <2> QED
    BY <2>2, <2>3 DEF NotifiedOnce, Told
<1> QED
  BY <1>1, <1>2, <1>3, <1>4, <1>5

\* poll_required and the counter behind it.
Pl == [count : 0 .. PollPdu + 1, timer : {"stopped", "running", "expired"}]

\* Counting a PDU and polling keep pdu_without_poll within its bound and the poll
\* timer in its states.
LEMMA PollingKept ==
  ASSUME PollTypes
  PROVE  /\ Polling \in Pl /\ PollingThen \in Pl
         /\ \A pl \in Pl : CountPdu(pl) \in Pl /\ \A b : AfterPoll(pl, b) \in Pl
         /\ \A pl \in Pl : pl.count \in 0 .. PollPdu + 1
                           /\ pl.timer \in {"stopped", "running", "expired"}
<1>1. PollPdu \in Nat
  BY TxAssumption
<1>2. Polling \in Pl
  BY DEF PollTypes, Polling, Pl
<1>3. ASSUME NEW pl \in Pl PROVE CountPdu(pl) \in Pl
  BY <1>1 DEF CountPdu, Pl
<1>4. ASSUME NEW pl \in Pl, NEW b PROVE AfterPoll(pl, b) \in Pl
  BY <1>1 DEF AfterPoll, Pl
<1>5. PollingThen \in Pl
  BY <1>2, <1>3, <1>4 DEF PollingThen
<1> QED
  BY <1>2, <1>3, <1>4, <1>5 DEF Pl

\* Steps that touch neither the window nor the retransmission queue keep RetxInv.
LEMMA RetxUnchanged ==
  ASSUME RetxInv, UNCHANGED <<retx_queue, tx_window, vt_a, vt_s>>
  PROVE  RetxInv'
BY DEF RetxInv, RetxNear, TxOff

\* A retransmission may change the counts of the PDUs and the queue.
LEMMA RetxSameCells ==
  ASSUME RetxInv, UNCHANGED <<vt_a, vt_s>>,
         WindowOK(tx_window'), SameCells(tx_window', tx_window),
         retx_queue' \in Seq(Retx), InPdu(retx_queue', tx_window),
         Near(retx_queue', tx_window, vt_s)
  PROVE  RetxInv'
<1>1. /\ vt_a' = vt_a /\ vt_s' = vt_s /\ DOMAIN tx_window' = DOMAIN tx_window
      /\ \A sn \in DOMAIN tx_window : tx_window'[sn].cells = tx_window[sn].cells
  BY DEF SameCells
<1>2. InPdu(retx_queue', tx_window')
  BY <1>1 DEF InPdu, PartOf
<1>3. Near(retx_queue', tx_window', vt_s')
  BY <1>1 DEF Near
<1>4. /\ vt_a' \in SN /\ vt_s' \in SN /\ TxOff(vt_s)' <= W
      /\ \A sn \in DOMAIN tx_window' : TxOff(sn)' < TxOff(vt_s)'
  BY <1>1 DEF RetxInv, TxOff
<1> QED
  BY <1>2, <1>3, <1>4 DEF RetxInv, RetxNear

\* Steps that move no edge of the window, outside handle_control_pdu, keep what it
\* remembers of them.
LEMMA EdgesUnchanged ==
  ASSUME EdgesOK, UNCHANGED <<stack, vt_a, vt_ms, vt_s>>
  PROVE  EdgesOK'
BY DEF EdgesOK, TxOff

-----------------------------------------------------------------------------
(* PDCP, the poll timer and the upper layers keep the invariant.               *)

\* write_sdu puts a new SDU at the end of the queue and among those to be told of.
LEMMA WriteKept ==
  ASSUME TxInv, WriteSdu
  PROVE  TxInv'
<1>1. NSdu \in Nat /\ written \in 0 .. NSdu /\ written < NSdu /\ written' = written + 1
  BY TxAssumption DEF WriteSdu, TxInv, QueueTypes
<1>2. written \in Nat /\ written + 1 \in 1 .. NSdu /\ written + 1 \in 0 .. NSdu
  BY <1>1
<1>3. /\ tx_sdu_queue \in Seq(0 .. NSdu) /\ accepted \in Seq(1 .. NSdu)
      /\ tx_sdu \in [s : 0 .. NSdu, k : Nat] /\ tx_enabled \in BOOLEAN
  BY DEF TxInv, QueueTypes
<1>4. /\ \/ tx_sdu_queue' = tx_sdu_queue /\ accepted' = accepted
         \/ /\ tx_sdu_queue' = Append(tx_sdu_queue, written + 1)
            /\ accepted' = Append(accepted, written + 1)
      /\ tx_sdu' = tx_sdu /\ tx_enabled' = tx_enabled
  BY DEF WriteSdu
<1>5. QueueTypes'
  <2>1. Append(tx_sdu_queue, written + 1) \in Seq(0 .. NSdu)
    BY <1>2, <1>3, AppendProperties
  <2>2. Append(accepted, written + 1) \in Seq(1 .. NSdu)
    BY <1>2, <1>3, AppendProperties
  <2> QED
    BY <1>1, <1>2, <1>3, <1>4, <2>1, <2>2 DEF QueueTypes
<1>6. SduInv'
  <2>1. Told' = Told /\ undelivered' = undelivered /\ tx_window' = tx_window
    BY DEF WriteSdu, Told
  <2>2. SduOK(tx_sdu_queue, tx_sdu, undelivered, tx_window, Told, written)
    BY DEF TxInv, SduInv
  <2>3. /\ SduOK(tx_sdu_queue, tx_sdu, undelivered, tx_window, Told, written + 1)
        /\ SduOK(Append(tx_sdu_queue, written + 1), tx_sdu, undelivered, tx_window, Told,
                 written + 1)
    BY <1>1, <1>2, <1>3, <2>2, SduWritten
  <2> QED
    BY <1>1, <1>4, <2>1, <2>3 DEF SduInv
<1>7. RetxInv' /\ EdgesOK'
  BY RetxUnchanged, EdgesUnchanged DEF TxInv, WriteSdu
<1> QED
  BY <1>5, <1>6, <1>7 DEF TxInv, WriteSdu, PollTypes, SduTypes, StackTypes

\* An SDU taken out of a list of SDUs leaves a list of SDUs.
LEMMA DropKeeps ==
  ASSUME NEW S, NEW q \in Seq(S), NEW i \in DOMAIN q
  PROVE  Drop(q, i) \in Seq(S)
<1> DEFINE l == Len(q)
           a == SubSeq(q, 1, i - 1)
           b == SubSeq(q, i + 1, l)
<1>1. l \in Nat /\ i \in 1 .. l /\ \A j \in 1 .. l : q[j] \in S
  OBVIOUS
<1> HIDE DEF l
<1>2. /\ \A j \in 1 .. i - 1 : q[j] \in S
      /\ \A j \in i + 1 .. l : q[j] \in S
      /\ i - 1 \in Int /\ i + 1 \in Int /\ l \in Int
  BY <1>1
<1>3. a \in Seq(S)
  BY <1>2, SubSeqProperties
<1>4. b \in Seq(S)
  BY <1>2, SubSeqProperties
<1>5. Drop(q, i) = a \o b
  BY DEF Drop, l
<1> HIDE DEF a, b
<1> QED
  BY <1>3, <1>4, <1>5, ConcatProperties

\* discard_sdu puts a null pointer into the queue and forgets an SDU of which
\* nothing was sent.
LEMMA DiscardKept ==
  ASSUME TxInv, NEW s, DiscardSdu(s)
  PROVE  TxInv'
<1>1. /\ tx_sdu_queue \in Seq(0 .. NSdu) /\ accepted \in Seq(1 .. NSdu)
      /\ written \in 0 .. NSdu /\ written \in Nat
  BY TxAssumption DEF TxInv, QueueTypes
<1>2. /\ Nulled(s) \in Seq(0 .. NSdu)
      /\ SduOK(Nulled(s), tx_sdu, undelivered, tx_window, Told, written)
  BY <1>1, SduDiscarded DEF TxInv
<1>3. accepted' \in Seq(1 .. NSdu)
  BY <1>1, DropKeeps DEF DiscardSdu
<1>4. tx_sdu_queue' = Nulled(s) /\ Told' = Told
  BY DEF DiscardSdu, Told
<1>5. QueueTypes'
  BY <1>2, <1>3, <1>4 DEF TxInv, QueueTypes, DiscardSdu
<1>6. SduInv'
  BY <1>2, <1>4 DEF SduInv, DiscardSdu
<1>7. RetxInv' /\ EdgesOK'
  BY RetxUnchanged, EdgesUnchanged DEF TxInv, DiscardSdu
<1> QED
  BY <1>5, <1>6, <1>7 DEF TxInv, DiscardSdu, PollTypes, SduTypes, StackTypes

\* retransmit_pdu, called for VT(A) by timer_expired.
LEMMA RetransmitKeeps ==
  ASSUME RetxInv, RetransmitPdu(vt_a), rrc_events \subseteq Events,
         UNCHANGED <<vt_a, vt_s>>
  PROVE  RetxInv' /\ SameCells(tx_window', tx_window) /\ rrc_events' \subseteq Events
<1>1. CASE vt_a \in DOMAIN tx_window
  <2> DEFINE r == WholePdu(vt_a)
  <2>1. /\ tx_window' = CountRetx(vt_a) /\ retx_queue' = Append(retx_queue, r)
        /\ rrc_events' = rrc_events \cup MaxRetxEvent(vt_a)
    BY <1>1 DEF RetransmitPdu
  <2>2. WindowOK(CountRetx(vt_a)) /\ SameCells(CountRetx(vt_a), tx_window)
    BY <1>1, CountRetxKeeps DEF RetxInv
  <2>3. r \in Retx /\ r.sn = vt_a /\ PartOf(r, tx_window)
    BY <1>1, WholePduPart DEF RetxInv
  <2> HIDE DEF r
  <2>4. /\ Append(retx_queue, r) \in Seq(Retx)
        /\ InPdu(Append(retx_queue, r), tx_window)
        /\ Near(Append(retx_queue, r), tx_window, vt_s)
    BY <1>1, <2>3, AppendRetx DEF RetxInv, RetxNear, WindowOK
  <2> QED
    BY <2>1, <2>2, <2>4, RetxSameCells DEF RetxInv, RetxNear, TxOff, MaxRetxEvent, Events
<1>2. CASE vt_a \notin DOMAIN tx_window
  <2>1. UNCHANGED <<tx_window, rrc_events, retx_queue>>
    BY <1>2 DEF RetransmitPdu
  <2> QED
    BY <2>1, RetxUnchanged DEF SameCells
<1> QED
  BY <1>1, <1>2

\* The poll timer is marked expired before its callback has the mutex: nothing else
\* changes.
LEMMA ExpiresKept ==
  ASSUME TxInv, PollRetxExpires
  PROVE  TxInv'
<1>1. RetxInv'
  BY RetxUnchanged DEF TxInv, PollRetxExpires
<1>2. SduInv'
  BY DEF TxInv, SduInv, Told, PollRetxExpires
<1>3. stack' = [pc |-> "timer_expired"]
  BY DEF PollRetxExpires
<1>4. EdgesOK'
  BY <1>3 DEF TxInv, EdgesOK, PollRetxExpires
<1>5. StackTypes'
  BY <1>3 DEF TxInv, StackTypes, PollRetxExpires
<1> QED
  BY <1>1, <1>2, <1>4, <1>5 DEF TxInv, QueueTypes, PollTypes, SduTypes, PollRetxExpires

\* timer_expired queues VT(A) or nothing for retransmission: one more live entry of
\* a PDU of the window.
LEMMA CallbackKept ==
  ASSUME TxInv, PollRetxCallback
  PROVE  TxInv'
<1>1. /\ stack' = Idle
      /\ UNCHANGED <<tx_sdu_queue, tx_sdu, undelivered, notified, notify_info_vec, written>>
      /\ UNCHANGED <<vt_a, vt_s, vt_ms>>
      /\ RetransmitPdu(vt_a) \/ UNCHANGED <<tx_window, rrc_events, retx_queue>>
  BY DEF PollRetxCallback
<1>2. RetxInv' /\ SameCells(tx_window', tx_window) /\ rrc_events' \subseteq Events
  <2>1. CASE RetransmitPdu(vt_a)
    BY <1>1, <2>1, RetransmitKeeps DEF TxInv, StackTypes
  <2>2. CASE UNCHANGED <<tx_window, rrc_events, retx_queue>>
    BY <1>1, <2>2, RetxUnchanged DEF TxInv, StackTypes, SameCells
  <2> QED
    BY <1>1, <2>1, <2>2
<1>3. SduInv'
  BY <1>1, <1>2, SduSameCells DEF TxInv, SduInv, Told
<1>4. EdgesOK' /\ StackTypes'
  BY <1>1, <1>2 DEF TxInv, EdgesOK, StackTypes, Idle
<1> QED
  BY <1>2, <1>3, <1>4 DEF TxInv, QueueTypes, PollTypes, SduTypes, PollRetxCallback

\* empty_queue forgets the SDU under transmission and those that wait; PDUs that
\* carry its first part stay.
LEMMA EmptyKept ==
  ASSUME TxInv, EmptyQueue
  PROVE  TxInv'
<1>1. NSdu \in Nat
  BY TxAssumption
<1>2. /\ tx_sdu_queue' = << >> /\ tx_sdu' = NoSdu /\ undelivered' = Emptied
      /\ Told' = Told /\ tx_window' = tx_window /\ written' = written
  BY DEF EmptyQueue, Told
<1>3. DOMAIN undelivered \subseteq 1 .. NSdu /\ written \in Nat
  BY <1>1 DEF TxInv, SduTypes, QueueTypes
<1>4. SduOK(<< >>, NoSdu, Emptied, tx_window, Told, written)
  BY <1>3, SduEmptied DEF TxInv
<1>5. SduInv'
  BY <1>2, <1>4 DEF SduInv
<1>6. SduTypes'
  <2>1. /\ DOMAIN Emptied \subseteq 1 .. NSdu
        /\ Emptied \in [DOMAIN Emptied -> [fully_txed : BOOLEAN, segs : SUBSET SN]]
    BY DEF TxInv, SduTypes, Emptied, Without
  <2> QED
    BY <1>2, <2>1 DEF TxInv, SduTypes, EmptyQueue
<1>7. QueueTypes'
  <2>1. << >> \in Seq(0 .. NSdu)
    OBVIOUS
  <2>2. NoSdu \in [s : 0 .. NSdu, k : Nat]
    BY <1>1 DEF NoSdu
  <2> QED
    BY <1>2, <2>1, <2>2 DEF TxInv, QueueTypes, EmptyQueue
<1>8. RetxInv' /\ EdgesOK'
  BY RetxUnchanged, EdgesUnchanged DEF TxInv, EmptyQueue
<1> QED
  BY <1>5, <1>6, <1>7, <1>8 DEF TxInv, PollTypes, StackTypes, EmptyQueue

\* stop and reestablish clear the window, the queue and the SDU records together.
LEMMA StopKept ==
  ASSUME TxInv, NEW enabled \in BOOLEAN, StopTx(enabled)
  PROVE  TxInv'
<1>1. NSdu \in Nat /\ PollPdu \in Nat
  BY TxAssumption
<1>2. /\ 0 \in SN /\ W \in Nat /\ W = (0 + W) % MOD /\ ModBase(0, 0) = 0
  BY WindowAssumption DEF SN, MOD, ModBase
<1>3. /\ tx_sdu_queue' = << >> /\ tx_sdu' = NoSdu /\ undelivered' = NoEntries
      /\ tx_window' = NoEntries /\ retx_queue' = << >>
      /\ Told' = Told /\ written' = written
  BY DEF StopTx, Told
<1>4. /\ vt_a' = 0 /\ vt_ms' = W /\ vt_s' = 0 /\ poll_sn' = 0 /\ pdu_without_poll' = 0
      /\ tx_enabled' = enabled
      /\ stack = Idle /\ stack' = stack
  BY DEF StopTx
<1>5. SduInv'
  <2>1. SduOK(<< >>, NoSdu, NoEntries, NoEntries, Told, written)
    BY SduStopped DEF TxInv
  <2> QED
    BY <1>3, <2>1 DEF SduInv
<1>6. DOMAIN NoEntries = {} /\ \A S : NoEntries \in [DOMAIN NoEntries -> S]
  BY DEF NoEntries
<1>7. SduTypes'
  BY <1>3, <1>6 DEF TxInv, SduTypes, StopTx
<1>8. QueueTypes'
  <2>1. << >> \in Seq(0 .. NSdu)
    OBVIOUS
  <2>2. NoSdu \in [s : 0 .. NSdu, k : Nat]
    BY <1>1 DEF NoSdu
  <2> QED
    BY <1>3, <1>4, <2>1, <2>2 DEF TxInv, QueueTypes, StopTx
<1>9. PollTypes'
  BY <1>1, <1>2, <1>4 DEF TxInv, PollTypes, StopTx
<1>10. RetxInv'
  <2>1. DOMAIN << >> = {} /\ << >> \in Seq(Retx)
    OBVIOUS
  <2>2. WindowOK(NoEntries)
    BY <1>6 DEF WindowOK
  <2>3. InPdu(<< >>, NoEntries) /\ Near(<< >>, NoEntries, 0)
    BY <2>1 DEF InPdu, Near
  <2>4. /\ vt_a' \in SN /\ vt_s' \in SN /\ TxOff(vt_s)' <= W
        /\ \A sn \in DOMAIN tx_window' : TxOff(sn)' < TxOff(vt_s)'
    BY <1>2, <1>3, <1>4, <1>6 DEF TxOff
  <2> QED
    BY <1>3, <1>4, <2>1, <2>2, <2>3, <2>4 DEF RetxInv, RetxNear
<1>11. EdgesOK'
  BY <1>2, <1>4 DEF EdgesOK, Idle
<1> QED
  BY <1>5, <1>7, <1>8, <1>9, <1>10, <1>11 DEF TxInv, StackTypes, StopTx

-----------------------------------------------------------------------------
(* What the MAC reads keeps the invariant.                                     *)

\* The events that a retransmission may raise.
LEMMA RescheduledKeeps ==
  ASSUME rrc_events \subseteq Events, Rescheduled
  PROVE  rrc_events' \subseteq Events
BY DEF Rescheduled, MaxRetxEvent, Events

\* A retransmission, whole or in part, moves the front entry of the queue within
\* its PDU.
LEMMA ReadRetxKept ==
  ASSUME TxInv, NEW n \in Nat, ReadRetx(n)
  PROVE  TxInv'
<1>1. /\ ReadyRetxQueue # << >> /\ RetxFits(n)
      /\ retx_queue' = IF RetxDone(n) THEN Tail(ReadyRetxQueue)
                       ELSE [ReadyRetxQueue EXCEPT ![1].is_segment = TRUE,
                                                   ![1].so_start = RetxSpan(n).to]
  BY DEF ReadRetx
<1>2. /\ tx_window' = ReadyWindow
      /\ UNCHANGED <<vt_a, vt_s, vt_ms, stack>>
      /\ UNCHANGED <<tx_sdu_queue, tx_sdu, undelivered, notified, notify_info_vec, written>>
  BY DEF ReadRetx
<1>3. /\ retx_queue' \in Seq(Retx) /\ InPdu(retx_queue', tx_window)
      /\ Near(retx_queue', tx_window, vt_s)
  BY <1>1, ReadRetxKeeps DEF TxInv
<1>4. WindowOK(ReadyWindow) /\ SameCells(ReadyWindow, tx_window)
  BY ReadyKeeps DEF TxInv
<1>5. RetxInv'
  BY <1>2, <1>3, <1>4, RetxSameCells DEF TxInv
<1>6. SduInv'
  BY <1>2, <1>4, SduSameCells DEF TxInv, SduInv, Told
<1>7. PollTypes'
  <2>1. AfterPoll(CountPdu(Polling), RetxPolls) \in Pl
    BY PollingKept DEF TxInv
  <2>2. /\ pdu_without_poll' = AfterPoll(CountPdu(Polling), RetxPolls).count
        /\ poll_retx_timer' = AfterPoll(CountPdu(Polling), RetxPolls).timer
        /\ poll_sn' = poll_sn
    BY DEF ReadRetx, SetPolling
  <2>3. /\ pdu_without_poll' \in 0 .. PollPdu + 1
        /\ poll_retx_timer' \in {"stopped", "running", "expired"}
    BY <2>1, <2>2, PollingKept DEF TxInv
  <2> QED
    BY <2>2, <2>3 DEF TxInv, PollTypes
<1>8. StackTypes'
  BY RescheduledKeeps DEF TxInv, StackTypes, ReadRetx
<1>9. EdgesOK'
  BY <1>2, EdgesUnchanged DEF TxInv
<1> QED
  BY <1>5, <1>6, <1>7, <1>8, <1>9 DEF TxInv, QueueTypes, SduTypes, ReadRetx

\* A read that sends nothing may have put VT(A) on the retransmission queue, or
\* dropped outdated entries.
LEMMA ReadNothingKept ==
  ASSUME TxInv, NEW n \in Nat, ReadNothing(n)
  PROVE  TxInv'
<1>1. /\ tx_window' = ReadyWindow /\ retx_queue' = ReadyRetxQueue
      /\ UNCHANGED <<vt_a, vt_s, vt_ms, stack>>
      /\ UNCHANGED <<tx_sdu_queue, tx_sdu, undelivered, notified, notify_info_vec, written>>
  BY DEF ReadNothing
<1>2. /\ ReadyRetxQueue \in Seq(Retx) /\ InPdu(ReadyRetxQueue, tx_window)
      /\ Near(ReadyRetxQueue, tx_window, vt_s)
      /\ WindowOK(ReadyWindow) /\ SameCells(ReadyWindow, tx_window)
  BY ReadyKeeps DEF TxInv
<1>3. RetxInv'
  BY <1>1, <1>2, RetxSameCells DEF TxInv
<1>4. SduInv'
  BY <1>1, <1>2, SduSameCells DEF TxInv, SduInv, Told
<1>5. PollTypes'
  <2>1. PollingThen \in Pl
    BY PollingKept DEF TxInv
  <2>2. /\ pdu_without_poll' = PollingThen.count /\ poll_retx_timer' = PollingThen.timer
        /\ poll_sn' = poll_sn
    BY DEF ReadNothing, SetPolling
  <2>3. /\ pdu_without_poll' \in 0 .. PollPdu + 1
        /\ poll_retx_timer' \in {"stopped", "running", "expired"}
    BY <2>1, <2>2, PollingKept DEF TxInv
  <2> QED
    BY <2>2, <2>3 DEF TxInv, PollTypes
<1>6. StackTypes'
  BY RescheduledKeeps DEF TxInv, StackTypes, ReadNothing
<1>7. EdgesOK'
  BY <1>1, EdgesUnchanged DEF TxInv
<1> QED
  BY <1>3, <1>4, <1>5, <1>6, <1>7 DEF TxInv, QueueTypes, SduTypes, ReadNothing

\* make_segment and the list of undelivered SDUs.
LEMMA NewUndeliveredTyped ==
  ASSUME PartsOK, SduTypes, vt_s \in SN, NEW n \in Nat \ {0}
  PROVE  /\ DOMAIN NewUndelivered(n) \subseteq 1 .. NSdu
         /\ NewUndelivered(n) \in
              [DOMAIN NewUndelivered(n) -> [fully_txed : BOOLEAN, segs : SUBSET SN]]
<1> DEFINE Info == [fully_txed : BOOLEAN, segs : SUBSET SN]
           und == NewUndelivered(n)
           old(s) == IF s \in DOMAIN undelivered THEN undelivered[s]
                     ELSE [fully_txed |-> FALSE, segs |-> {}]
           ends == {NewCells(n)[c].s : c \in {d \in DOMAIN NewCells(n) : NewCells(n)[d].e}}
           sdus == {Part(i).s : i \in Taken(n)} \ ({tx_sdu.s} \ DOMAIN undelivered)
           new(s) == [fully_txed |-> s \in ends, segs |-> old(s).segs \cup {vt_s}]
<1>1. und = [s \in DOMAIN undelivered \cup sdus |->
               IF s \in sdus THEN new(s) ELSE undelivered[s]]
  BY DEF NewUndelivered
<1>2. sdus \subseteq 1 .. NSdu
  <2>1. ASSUME NEW i \in Taken(n) PROVE Part(i).s \in 1 .. NSdu
    <3>1. i \in 0 .. Len(tx_sdu_queue) /\ PartLen(i) > 0
      BY DEF Taken
    <3> QED
      BY <3>1, PartLens
  <2> QED
    BY <2>1
<1>3. ASSUME NEW s PROVE new(s) \in Info
  <2>1. old(s).segs \in SUBSET SN
    BY DEF SduTypes
  <2> HIDE DEF old
  <2> DEFINE full == s \in ends
             segs == old(s).segs \cup {vt_s}
  <2>2. full \in BOOLEAN /\ segs \in SUBSET SN
    BY <2>1
  <2>3. new(s) = [fully_txed |-> full, segs |-> segs]
    OBVIOUS
  <2> HIDE DEF full, segs, new
  <2> QED
    BY <2>2, <2>3
<1> HIDE DEF sdus, new, und
<1>4. DOMAIN und = DOMAIN undelivered \cup sdus
  BY <1>1
<1>5. ASSUME NEW s \in DOMAIN und PROVE und[s] \in Info
  <2>1. CASE s \in sdus
    BY <1>1, <1>3, <1>4, <2>1
  <2>2. CASE s \notin sdus
    BY <1>1, <1>4, <2>2 DEF SduTypes
  <2> QED
    BY <2>1, <2>2
<1>6. und = [s \in DOMAIN und |-> und[s]]
  BY <1>1, <1>4
<1> HIDE DEF Info
<1>7. und \in [DOMAIN und -> Info]
  BY <1>5, <1>6
<1> QED
  BY <1>2, <1>4, <1>7 DEF und, Info, SduTypes

\* A new PDU takes SN VT(S) and carries the next cells of the queue: the one step
\* that moves VT(S).
LEMMA ReadDataKept ==
  ASSUME TxInv, NEW n \in Nat, ReadData(n), InWindow'
  PROVE  TxInv'
<1>1. /\ n \in Nat \ {0} /\ vt_s' = Inc(vt_s)
      /\ UNCHANGED <<vt_a, vt_ms, stack, notified, notify_info_vec, written, accepted,
                     tx_enabled>>
      /\ retx_queue' = ReadyRetxQueue /\ tx_window' = NewWindow(n)
      /\ undelivered' = NewUndelivered(n) /\ tx_sdu' = RestOfSdu(n)
      /\ tx_sdu_queue' = RestOfQueue(n)
  BY DEF ReadData
<1>2. PartsOK
  BY DEF TxInv, PartsOK, QueueTypes, SduInv, SduOK, SduBegun
<1>3. TxOff(Inc(vt_s)) <= W
  BY <1>1 DEF InWindow, TxOff
<1>4. vt_a \in SN /\ vt_s \in SN /\ TxOff(vt_s) <= W
  BY DEF TxInv, RetxInv
<1>5. W \in Nat /\ W > 1 /\ MOD = 2 * W /\ SN = 0 .. MOD - 1
  BY WindowAssumption DEF MOD, SN
<1>6. TxOff(vt_s) \in SN /\ Inc(vt_s) \in SN /\ TxOff(Inc(vt_s)) = TxOff(vt_s) + 1
  <2>1. TxOff(vt_s) \in SN
    BY <1>4, ModBaseValue DEF TxOff
  <2>2. TxOff(vt_s) < MOD - 1
    BY <2>1, <1>4, <1>5
  <2> QED
    BY <2>1, <2>2, <1>4, IncOffset DEF TxOff
<1>7. RetxInv'
  <2>1. /\ WindowOK(NewWindow(n))
        /\ \A sn \in DOMAIN NewWindow(n) : TxOff(sn) < TxOff(Inc(vt_s))
        /\ InPdu(ReadyRetxQueue, NewWindow(n)) /\ Near(ReadyRetxQueue, NewWindow(n), Inc(vt_s))
    BY <1>1, <1>2, <1>3, ReadDataRetx DEF TxInv
  <2>2. ReadyRetxQueue \in Seq(Retx)
    BY ReadyKeeps DEF TxInv
  <2> QED
    BY <2>1, <2>2, <1>1, <1>3, <1>4, <1>6 DEF RetxInv, RetxNear, TxOff
<1>8. SduInv'
  <2>1. written \in Nat /\ DOMAIN undelivered \subseteq 1 .. NSdu
    BY TxAssumption DEF TxInv, QueueTypes, SduTypes
  <2>2. SduOK(RestOfQueue(n), RestOfSdu(n), NewUndelivered(n), NewWindow(n), Told, written)
    BY <1>1, <1>2, <1>3, <2>1, SduRead DEF TxInv
  <2> QED
    BY <1>1, <2>2 DEF SduInv, Told
<1>9. EdgesOK'
  <2>1. ASSUME stack.pc = "control"
        PROVE  TxOff(stack.vt_s_local) <= TxOff(vt_s) + 1
    <3>1. stack \in ControlState
      BY <2>1 DEF TxInv, StackTypes
    <3>2. stack.vt_s_local \in SN
      BY <3>1 DEF ControlState
    <3>3. TxOff(stack.vt_s_local) \in SN
      BY <3>2, <1>4, ModBaseValue DEF TxOff
    <3>4. TxOff(stack.vt_s_local) <= TxOff(vt_s)
      BY <2>1 DEF TxInv, EdgesOK
    <3> QED
      BY <3>3, <3>4, <1>5, <1>6
  <2> QED
    BY <2>1, <1>1, <1>6 DEF TxInv, EdgesOK, TxOff
<1>10. PollTypes'
  <2>1. AfterPoll(CountPdu(PollingThen), DataPolls(n)) \in Pl
    BY PollingKept DEF TxInv
  <2>2. /\ pdu_without_poll' = AfterPoll(CountPdu(PollingThen), DataPolls(n)).count
        /\ poll_retx_timer' = AfterPoll(CountPdu(PollingThen), DataPolls(n)).timer
        /\ poll_sn' = IF DataPolls(n) THEN vt_s ELSE poll_sn
    BY DEF ReadData, SetPolling
  <2>3. /\ pdu_without_poll' \in 0 .. PollPdu + 1
        /\ poll_retx_timer' \in {"stopped", "running", "expired"}
    BY <2>1, <2>2, PollingKept DEF TxInv
  <2> QED
    BY <2>2, <2>3, <1>4 DEF TxInv, PollTypes
<1>11. StackTypes'
  BY <1>1, RescheduledKeeps DEF TxInv, StackTypes, ReadData
<1>12. QueueTypes'
  <2>1. RestOfSdu(n) \in [s : 0 .. NSdu, k : Nat] /\ RestOfQueue(n) \in Seq(0 .. NSdu)
    BY <1>1, <1>2, NewPduRest
  <2> QED
    BY <1>1, <2>1 DEF TxInv, QueueTypes
<1>13. SduTypes'
  <2>1. /\ DOMAIN NewUndelivered(n) \subseteq 1 .. NSdu
        /\ NewUndelivered(n) \in
             [DOMAIN NewUndelivered(n) -> [fully_txed : BOOLEAN, segs : SUBSET SN]]
    BY <1>1, <1>2, <1>4, NewUndeliveredTyped DEF TxInv
  <2> QED
    BY <1>1, <2>1 DEF TxInv, SduTypes
<1> QED
  BY <1>7, <1>8, <1>9, <1>10, <1>11, <1>12, <1>13 DEF TxInv

-----------------------------------------------------------------------------
(* handle_control_pdu keeps the invariant, one critical section at a time.      *)

\* The first critical section of handle_control_pdu remembers VT(S), checks ACK_SN,
\* and may clear the retransmission queue.
LEMMA ControlStartKept ==
  ASSUME TxInv, NEW status \in [ack_sn : SN, nacks : SUBSET SN], ControlStart(status)
  PROVE  TxInv'
<1>1. /\ stack' = [pc |-> "control", status |-> status, i |-> vt_a, vt_s_local |-> vt_s,
                   update_vt_a |-> TRUE]
      /\ UNCHANGED <<vt_a, vt_ms, vt_s, tx_window, rrc_events>>
      /\ retx_queue' = IF status.nacks # {} THEN << >> ELSE retx_queue
  BY DEF ControlStart
<1>2. vt_a \in SN /\ vt_s \in SN
  BY DEF TxInv, RetxInv
<1>3. StackTypes'
  BY <1>1, <1>2 DEF TxInv, StackTypes, ControlState
<1>4. EdgesOK'
  <2>1. TxOff(vt_s) <= TxOff(vt_s)
    <3>1. TxOff(vt_s) \in SN
      BY <1>2, ModBaseValue DEF TxOff
    <3> QED
      BY <3>1, WindowAssumption DEF SN, MOD
  <2> QED
    BY <1>1, <2>1 DEF TxInv, EdgesOK, TxOff
<1>5. RetxInv'
  <2>1. << >> \in Seq(Retx) /\ InPdu(<< >>, tx_window) /\ Near(<< >>, tx_window, vt_s)
    BY DEF InPdu, Near
  <2>2. /\ retx_queue' \in Seq(Retx) /\ InPdu(retx_queue', tx_window)
        /\ Near(retx_queue', tx_window, vt_s)
    BY <1>1, <2>1 DEF TxInv, RetxInv, RetxNear
  <2>3. WindowOK(tx_window') /\ SameCells(tx_window', tx_window)
    BY <1>1 DEF TxInv, RetxInv, SameCells
  <2> QED
    BY <1>1, <2>2, <2>3, RetxSameCells DEF TxInv
<1>6. SduInv'
  BY DEF TxInv, SduInv, Told, ControlStart
<1> QED
  BY <1>3, <1>4, <1>5, <1>6 DEF TxInv, QueueTypes, PollTypes, SduTypes, ControlStart

\* What the loop finds when it goes on.
LEMMA ControlRound ==
  ASSUME TxInv, ControlMore
  PROVE  /\ stack \in ControlState /\ stack.i \in SN /\ stack.vt_s_local \in SN
         /\ NextRound(TRUE) \in ControlState /\ NextRound(FALSE) \in ControlState
         /\ NextRound(TRUE).update_vt_a = FALSE
         /\ NextRound(FALSE).update_vt_a = stack.update_vt_a
         /\ \A b \in BOOLEAN : /\ NextRound(b).i = Inc(stack.i)
                               /\ NextRound(b).vt_s_local = stack.vt_s_local
         /\ TxOff(stack.i) \in SN /\ TxOff(stack.vt_s_local) \in SN /\ TxOff(vt_s) \in SN
         /\ TxOff(stack.i) < TxOff(stack.vt_s_local)
         /\ TxOff(stack.vt_s_local) <= TxOff(vt_s)
<1>1. stack.pc = "control" /\ TxOff(stack.i) < TxOff(stack.vt_s_local)
  BY DEF ControlMore
<1>2. stack \in ControlState
  BY <1>1 DEF TxInv, StackTypes
<1>3. stack.i \in SN /\ stack.vt_s_local \in SN /\ stack.update_vt_a \in BOOLEAN
  BY <1>2 DEF ControlState
<1>4. vt_a \in SN /\ vt_s \in SN
  BY DEF TxInv, RetxInv
<1>5. Inc(stack.i) \in SN
  BY <1>3, IncOffset
<1>6. TxOff(stack.i) \in SN /\ TxOff(stack.vt_s_local) \in SN /\ TxOff(vt_s) \in SN
  BY <1>3, <1>4, ModBaseValue DEF TxOff
<1>7. ASSUME NEW b \in BOOLEAN
      PROVE  /\ NextRound(b) \in ControlState
             /\ NextRound(b).i = Inc(stack.i)
             /\ NextRound(b).vt_s_local = stack.vt_s_local
  BY <1>2, <1>3, <1>5 DEF NextRound, ControlState
<1>8. /\ NextRound(TRUE).update_vt_a = FALSE
      /\ NextRound(FALSE).update_vt_a = stack.update_vt_a
  BY <1>2, <1>3 DEF NextRound, ControlState
<1>9. TxOff(stack.vt_s_local) <= TxOff(vt_s)
  BY <1>1 DEF TxInv, EdgesOK
<1> QED
  BY <1>1, <1>2, <1>3, <1>6, <1>7, <1>8, <1>9

\* One round of handle_control_pdu for a NACK queues the PDU, or part of it, if it
\* is still in the window.
LEMMA NackKept ==
  ASSUME TxInv, ControlNack
  PROVE  TxInv'
<1> DEFINE i == stack.i
<1>1. /\ ControlMore /\ stack' = NextRound(TRUE)
      /\ UNCHANGED <<vt_a, vt_ms, vt_s>>
      /\ UNCHANGED <<tx_sdu_queue, tx_sdu, undelivered, notified, notify_info_vec, written>>
      /\ \/ /\ i \in DOMAIN tx_window /\ tx_window' = CountRetx(i)
            /\ rrc_events' = rrc_events \cup MaxRetxEvent(i)
            /\ \E part \in NackedParts(i) : retx_queue' = Append(retx_queue, part)
         \/ UNCHANGED <<tx_window, rrc_events, retx_queue>>
  BY DEF ControlNack
<1>2. /\ NextRound(TRUE) \in ControlState
      /\ NextRound(TRUE).update_vt_a = FALSE
      /\ NextRound(TRUE).vt_s_local = stack.vt_s_local
      /\ TxOff(stack.vt_s_local) <= TxOff(vt_s)
  BY <1>1, ControlRound
<1> HIDE DEF i
<1>3. RetxInv' /\ SameCells(tx_window', tx_window) /\ rrc_events' \subseteq Events
  <2>1. CASE i \in DOMAIN tx_window /\ tx_window' = CountRetx(i)
             /\ rrc_events' = rrc_events \cup MaxRetxEvent(i)
             /\ \E part \in NackedParts(i) : retx_queue' = Append(retx_queue, part)
    <3>1. PICK r \in NackedParts(i) : retx_queue' = Append(retx_queue, r)
      BY <2>1
    <3>2. WindowOK(CountRetx(i)) /\ SameCells(CountRetx(i), tx_window)
      BY <2>1, CountRetxKeeps DEF TxInv, RetxInv
    <3>3. r \in Retx /\ r.sn = i /\ PartOf(r, tx_window)
      <4>1. CASE r = WholePdu(i)
        BY <4>1, <2>1, WholePduPart DEF TxInv, RetxInv
      <4>2. CASE r # WholePdu(i)
        <5> DEFINE len == Len(tx_window[i].cells)
        <5>1. i \in SN /\ tx_window[i].cells \in Seq(Cell)
          BY <2>1 DEF TxInv, RetxInv, WindowOK, TxPdu
        <5>2. len \in Nat
          BY <5>1
        <5>3. PICK x \in (0 .. len) \X (1 .. len) :
                     x[1] < x[2] /\ r = [sn |-> i, is_segment |-> TRUE,
                                         so_start |-> x[1], so_end |-> x[2]]
          BY <4>2 DEF NackedParts
        <5> HIDE DEF len
        <5>4. x[1] \in Nat /\ x[2] \in Nat /\ x[2] <= len
          BY <5>2, <5>3
        <5>5. r \in Retx /\ r.sn = i /\ r.so_start < r.so_end /\ r.so_end <= len
          BY <5>1, <5>3, <5>4 DEF Retx
        <5> QED
          BY <5>5 DEF PartOf, len
      <4> QED
        BY <4>1, <4>2
    <3>4. /\ Append(retx_queue, r) \in Seq(Retx)
          /\ InPdu(Append(retx_queue, r), tx_window)
          /\ Near(Append(retx_queue, r), tx_window, vt_s)
      BY <2>1, <3>3, AppendRetx DEF TxInv, RetxInv, RetxNear, WindowOK
    <3>5. RetxInv'
      BY <1>1, <2>1, <3>1, <3>2, <3>4, RetxSameCells DEF TxInv
    <3>6. rrc_events' \subseteq Events
      BY <2>1 DEF TxInv, StackTypes, MaxRetxEvent, Events
    <3> QED
      BY <2>1, <3>2, <3>5, <3>6
  <2>2. CASE UNCHANGED <<tx_window, rrc_events, retx_queue>>
    BY <1>1, <2>2, RetxUnchanged DEF TxInv, StackTypes, SameCells
  <2> QED
    BY <1>1, <2>1, <2>2
<1>4. SduInv'
  BY <1>1, <1>3, SduSameCells DEF TxInv, SduInv, Told
<1>5. EdgesOK'
  BY <1>1, <1>2 DEF TxInv, EdgesOK, TxOff
<1>6. StackTypes'
  BY <1>1, <1>2, <1>3 DEF StackTypes
<1> QED
  BY <1>3, <1>4, <1>5, <1>6 DEF TxInv, QueueTypes, PollTypes, SduTypes, ControlNack

\* VT(A) moves by one: so do both edges, and every other SN comes one nearer.
LEMMA NextEdge ==
  ASSUME vt_a \in SN
  PROVE  /\ Inc((vt_a + W) % MOD) = (Inc(vt_a) + W) % MOD /\ Inc(vt_a) \in SN
         /\ \A x \in SN : TxOff(x) # 0 => ModBase(x, Inc(vt_a)) = TxOff(x) - 1
<1>1. W \in Nat /\ W > 1 /\ MOD = 2 * W /\ SN = 0 .. MOD - 1
  BY WindowAssumption DEF MOD, SN
<1>2. Inc(vt_a) \in SN
  BY IncOffset
<1>3. Inc(vt_a) = IF vt_a = MOD - 1 THEN 0 ELSE vt_a + 1
  BY <1>1 DEF Inc
<1>4. \A y \in SN : Inc(y) = IF y = MOD - 1 THEN 0 ELSE y + 1
  BY <1>1 DEF Inc
<1>5. \A y \in SN : (y + W) % MOD = IF y + W < MOD THEN y + W ELSE y + W - MOD
  BY <1>1
<1>6. Inc((vt_a + W) % MOD) = (Inc(vt_a) + W) % MOD
  <2> DEFINE e == (vt_a + W) % MOD
             a == Inc(vt_a)
  <2>1. e \in SN /\ e = IF vt_a + W < MOD THEN vt_a + W ELSE vt_a + W - MOD
    BY <1>1, <1>5
  <2>2. Inc(e) = IF e = MOD - 1 THEN 0 ELSE e + 1
    BY <2>1, <1>4
  <2>3. (a + W) % MOD = IF a + W < MOD THEN a + W ELSE a + W - MOD
    BY <1>2, <1>5
  <2>4. a = IF vt_a = MOD - 1 THEN 0 ELSE vt_a + 1
    BY <1>3
  <2> HIDE DEF e, a
  <2> QED
    BY <2>1, <2>2, <2>3, <2>4, <1>1 DEF e, a
<1>7. ASSUME NEW x \in SN, TxOff(x) # 0 PROVE ModBase(x, Inc(vt_a)) = TxOff(x) - 1
  <2>1. TxOff(vt_a) = 0 /\ ModBase(Inc(vt_a), vt_a) = 1
    <3>1. TxOff(vt_a) = 0
      BY ZeroOffset DEF TxOff
    <3> QED
      BY <3>1, <1>1, IncOffset DEF TxOff
  <2>2. TxOff(x) \in SN
    BY ModBaseValue DEF TxOff
  <2> QED
    BY <2>1, <2>2, <1>1, <1>2, <1>7, Shift DEF TxOff
<1> QED
  BY <1>2, <1>6, <1>7

\* One round of handle_control_pdu for an ACK removes the PDU, moves VT(A) if
\* nothing before it is NACKed, and updates the SDU records.
LEMMA AckKept ==
  ASSUME TxInv, ControlAck
  PROVE  TxInv'
<1> DEFINE i == stack.i
<1>1. /\ ControlMore /\ stack' = NextRound(FALSE)
      /\ vt_a'  = IF stack.update_vt_a THEN Inc(vt_a) ELSE vt_a
      /\ vt_ms' = IF stack.update_vt_a THEN Inc(vt_ms) ELSE vt_ms
      /\ UNCHANGED <<tx_sdu_queue, tx_sdu, vt_s, retx_queue, notified, written, rrc_events>>
      /\ \/ /\ i \in DOMAIN tx_window
            /\ undelivered' = AckSegments(i) /\ tx_window' = Without(tx_window, i)
            /\ \E acked \in InOrder(FullyAcked(i)) :
                  notify_info_vec' = notify_info_vec \o acked
         \/ /\ i \notin DOMAIN tx_window
            /\ UNCHANGED <<undelivered, notify_info_vec, tx_window>>
  BY DEF ControlAck
<1>2. /\ NextRound(FALSE) \in ControlState /\ i \in SN
      /\ NextRound(FALSE).update_vt_a = stack.update_vt_a
      /\ NextRound(FALSE).vt_s_local = stack.vt_s_local
      /\ NextRound(FALSE).i = Inc(i)
      /\ stack.vt_s_local \in SN
      /\ TxOff(i) \in SN /\ TxOff(stack.vt_s_local) \in SN /\ TxOff(vt_s) \in SN
      /\ TxOff(i) < TxOff(stack.vt_s_local)
      /\ TxOff(stack.vt_s_local) <= TxOff(vt_s)
  BY <1>1, ControlRound
<1>3. /\ vt_a \in SN /\ vt_s \in SN /\ vt_ms = (vt_a + W) % MOD
      /\ stack.update_vt_a => i = vt_a
      /\ TxOff(vt_s) <= W
      /\ \A sn \in DOMAIN tx_window : sn \in SN /\ TxOff(sn) < TxOff(vt_s)
  <2>1. stack.pc = "control"
    BY <1>1 DEF ControlMore
  <2> QED
    BY <2>1 DEF TxInv, EdgesOK, RetxInv, WindowOK
<1> HIDE DEF i
<1>4. /\ DOMAIN tx_window' = DOMAIN tx_window \ {i}
      /\ \A sn \in DOMAIN tx_window' : tx_window'[sn] = tx_window[sn]
      /\ tx_window' = [sn \in DOMAIN tx_window' |-> tx_window'[sn]]
  <2>1. tx_window \in [DOMAIN tx_window -> TxPdu]
    BY DEF TxInv, RetxInv, WindowOK
  <2> QED
    BY <1>1, <2>1 DEF Without
<1>5. /\ vt_a' \in SN /\ vt_ms' = (vt_a' + W) % MOD
      /\ \/ vt_a' = vt_a
         \/ /\ vt_a' = Inc(vt_a) /\ i = vt_a
            /\ \A x \in SN : TxOff(x) # 0 => ModBase(x, vt_a') = TxOff(x) - 1
  BY <1>1, <1>3, NextEdge
<1>6. W \in Nat /\ W > 1 /\ MOD = 2 * W /\ SN = 0 .. MOD - 1
  BY WindowAssumption DEF MOD, SN
<1>7. /\ TxOff(vt_s)' <= W
      /\ TxOff(stack.vt_s_local)' <= TxOff(vt_s)'
      /\ \A sn \in DOMAIN tx_window' : TxOff(sn)' < TxOff(vt_s)'
  <2>1. /\ TxOff(vt_s)' = ModBase(vt_s, vt_a')
        /\ TxOff(stack.vt_s_local)' = ModBase(stack.vt_s_local, vt_a')
        /\ \A sn : TxOff(sn)' = ModBase(sn, vt_a') /\ TxOff(sn) = ModBase(sn, vt_a)
    BY <1>1, <1>2 DEF TxOff
  <2>2. CASE vt_a' = vt_a
    BY <2>1, <2>2, <1>2, <1>3, <1>4
  <2>3. CASE vt_a' # vt_a
    <3>1. /\ i = vt_a
          /\ \A x \in SN : TxOff(x) # 0 => ModBase(x, vt_a') = TxOff(x) - 1
      BY <2>3, <1>5
    <3>2. TxOff(vt_s) # 0 /\ TxOff(stack.vt_s_local) # 0
      BY <1>2, <1>6
    <3>3. ASSUME NEW sn \in DOMAIN tx_window' PROVE TxOff(sn)' < TxOff(vt_s)'
      <4>1. sn \in SN /\ sn # vt_a /\ TxOff(sn) < TxOff(vt_s)
        BY <3>1, <3>3, <1>3, <1>4
      <4>2. TxOff(sn) \in SN /\ TxOff(sn) # 0
        BY <4>1, <1>3, ModBaseValue, ZeroOffset DEF TxOff
      <4>3. ModBase(sn, vt_a') = TxOff(sn) - 1 /\ ModBase(vt_s, vt_a') = TxOff(vt_s) - 1
        BY <3>1, <3>2, <4>1, <4>2, <1>3
      <4> QED
        BY <2>1, <4>1, <4>2, <4>3, <1>2, <1>6
    <3>4. /\ ModBase(vt_s, vt_a') = TxOff(vt_s) - 1
          /\ ModBase(stack.vt_s_local, vt_a') = TxOff(stack.vt_s_local) - 1
      BY <3>1, <3>2, <1>2, <1>3
    <3> QED
      BY <2>1, <3>3, <3>4, <1>2, <1>3, <1>6
  <2> QED
    BY <2>2, <2>3
<1>8. EdgesOK'
  <2>1. stack'.update_vt_a => stack'.i = vt_a'
    BY <1>1, <1>2, <1>3
  <2> QED
    BY <2>1, <1>5, <1>7 DEF EdgesOK
<1>9. RetxInv'
  <2>1. WindowOK(tx_window')
    BY <1>4 DEF TxInv, RetxInv, WindowOK
  <2>2. /\ retx_queue' \in Seq(Retx) /\ InPdu(retx_queue', tx_window')
        /\ Near(retx_queue', tx_window', vt_s')
    BY <1>1, <1>4 DEF TxInv, RetxInv, RetxNear, InPdu, PartOf, Near
  <2> QED
    BY <2>1, <2>2, <1>1, <1>3, <1>5, <1>7 DEF RetxInv, RetxNear
<1>10. notified \in Seq(1 .. NSdu) /\ notify_info_vec \in Seq(1 .. NSdu)
       /\ DOMAIN undelivered \subseteq 1 .. NSdu
  BY DEF TxInv, SduTypes
<1>11. SduInv' /\ SduTypes'
  <2>1. CASE i \in DOMAIN tx_window
    <3>1. /\ undelivered' = AckSegments(i) /\ tx_window' = Without(tx_window, i)
          /\ \E acked \in InOrder(FullyAcked(i)) :
                  notify_info_vec' = notify_info_vec \o acked
      BY <1>1, <2>1
    <3>2. PICK acked \in InOrder(FullyAcked(i)) : notify_info_vec' = notify_info_vec \o acked
      BY <3>1
    <3>3. acked \in Seq(1 .. NSdu)
      BY <1>10, AckedOnce
    <3>4. Told \in Seq(1 .. NSdu) /\ notify_info_vec' \in Seq(1 .. NSdu)
      <4>1. \A a, b \in Seq(1 .. NSdu) : a \o b \in Seq(1 .. NSdu)
        BY ConcatProperties
      <4> QED
        BY <1>10, <3>2, <3>3, <4>1 DEF Told
    <3>5. Told' = Told \o acked
      <4>1. notified \o (notify_info_vec \o acked) = (notified \o notify_info_vec) \o acked
        BY <1>10, <3>3, ConcatAssociative
      <4>2. notified' = notified
        BY <1>1
      <4> QED
        BY <3>2, <4>1, <4>2, Zenon DEF Told
    <3>6. SduOK(tx_sdu_queue, tx_sdu, AckSegments(i), Without(tx_window, i),
                Told \o acked, written)
      BY <1>10, <2>1, <3>4, SduAcked DEF TxInv
    <3>7. SduInv'
      BY <1>1, <3>1, <3>5, <3>6 DEF SduInv
    <3>8. /\ DOMAIN AckSegments(i) \subseteq 1 .. NSdu
          /\ AckSegments(i) \in
               [DOMAIN AckSegments(i) -> [fully_txed : BOOLEAN, segs : SUBSET SN]]
      <4> DEFINE Info == [fully_txed : BOOLEAN, segs : SUBSET SN]
      <4>1. ASSUME NEW u \in Info PROVE [u EXCEPT !.segs = @ \ {i}] \in Info
        OBVIOUS
      <4>2. undelivered \in [DOMAIN undelivered -> Info]
        BY DEF TxInv, SduTypes
      <4> HIDE DEF Info
      <4>3. \A s \in DOMAIN undelivered \ FullyAcked(i) :
               [undelivered[s] EXCEPT !.segs = @ \ {i}] \in Info
        BY <4>1, <4>2
      <4>4. /\ DOMAIN AckSegments(i) \subseteq 1 .. NSdu
            /\ AckSegments(i) \in [DOMAIN AckSegments(i) -> Info]
        BY <1>10, <4>3 DEF AckSegments
      <4> QED
        BY <4>4 DEF Info
    <3>9. SduTypes'
      BY <1>1, <1>10, <3>1, <3>4, <3>8 DEF SduTypes
    <3> QED
      BY <3>7, <3>9
  <2>2. CASE i \notin DOMAIN tx_window
    BY <2>2, <1>1 DEF TxInv, SduInv, SduTypes, Told
  <2> QED
    BY <2>1, <2>2
<1>12. StackTypes'
  BY <1>1, <1>2 DEF TxInv, StackTypes
<1> QED
  BY <1>8, <1>9, <1>11, <1>12 DEF TxInv, QueueTypes, PollTypes, ControlAck

\* The end of handle_control_pdu passes the SDUs it completed on to PDCP.
LEMMA DoneKept ==
  ASSUME TxInv, ControlDone
  PROVE  TxInv'
<1>1. notified \in Seq(1 .. NSdu) /\ notify_info_vec \in Seq(1 .. NSdu)
  BY DEF TxInv, SduTypes
<1>2. /\ notified' = notified \o notify_info_vec /\ notify_info_vec' = << >>
      /\ stack' = Idle
  BY DEF ControlDone
<1>3. notified' \in Seq(1 .. NSdu) /\ notify_info_vec' \in Seq(1 .. NSdu)
  BY <1>1, <1>2, ConcatProperties
<1>4. Told' = Told
  BY <1>1, <1>2, <1>3, ConcatEmptySeq DEF Told
<1>5. SduInv'
  BY <1>4 DEF TxInv, SduInv, ControlDone
<1>6. SduTypes'
  BY <1>3 DEF TxInv, SduTypes, ControlDone
<1>7. StackTypes' /\ EdgesOK'
  BY <1>2 DEF TxInv, StackTypes, EdgesOK, Idle, ControlDone, Events
<1>8. RetxInv'
  BY RetxUnchanged DEF TxInv, ControlDone
<1> QED
  BY <1>5, <1>6, <1>7, <1>8 DEF TxInv, QueueTypes, PollTypes, ControlDone

\* All steps but build_data_pdu and an acknowledgement leave the SDUs, the payload of the
\* window and the list of SDUs PDCP is told of as they are.
LEMMA TellKept ==
  ASSUME TxInv,
         \/ WriteSdu \/ \E s : DiscardSdu(s) \/ PollRetxExpires \/ PollRetxCallback
         \/ \E n : ReadRetx(n) \/ ReadNothing(n)
         \/ \E status : ControlStart(status)
         \/ ControlNack \/ ControlDone
         \/ UNCHANGED txVars
  PROVE  SameCells(tx_window', tx_window) /\ UNCHANGED <<undelivered, tx_sdu>> /\ Told' = Told
<1>1. WindowOK(tx_window) /\ RetxInv /\ SameCells(tx_window, tx_window)
  BY DEF TxInv, RetxInv, SameCells
<1>2. SameCells(ReadyWindow, tx_window)
  BY <1>1, ReadyKeeps
<1>3. ASSUME UNCHANGED <<notified, notify_info_vec>> PROVE Told' = Told
  BY <1>3 DEF Told
<1>4. CASE WriteSdu
  BY <1>1, <1>3, <1>4 DEF WriteSdu
<1>5. CASE \E s : DiscardSdu(s)
  BY <1>1, <1>3, <1>5 DEF DiscardSdu
<1>6. CASE PollRetxExpires
  BY <1>1, <1>3, <1>6 DEF PollRetxExpires
<1>7. CASE PollRetxCallback
  <2>1. UNCHANGED <<undelivered, tx_sdu, notified, notify_info_vec>>
    BY <1>7 DEF PollRetxCallback
  <2>2. RetransmitPdu(vt_a) \/ UNCHANGED tx_window
    BY <1>7 DEF PollRetxCallback
  <2>3. SameCells(tx_window', tx_window)
    <3>1. CASE UNCHANGED tx_window
      BY <1>1, <3>1
    <3>2. CASE RetransmitPdu(vt_a)
      BY <1>1, <3>2, CountRetxKeeps DEF RetransmitPdu
    <3> QED
      BY <2>2, <3>1, <3>2
  <2> QED
    BY <1>3, <2>1, <2>3
<1>8. CASE \E n : ReadRetx(n) \/ ReadNothing(n)
  <2>1. /\ tx_window' = ReadyWindow
        /\ UNCHANGED <<undelivered, tx_sdu, notified, notify_info_vec>>
    BY <1>8 DEF ReadRetx, ReadNothing
  <2> QED
    BY <1>2, <1>3, <2>1
<1>9. CASE \E status : ControlStart(status)
  BY <1>1, <1>3, <1>9 DEF ControlStart
<1>10. CASE ControlNack
  <2>1. UNCHANGED <<undelivered, tx_sdu, notified, notify_info_vec>>
    BY <1>10 DEF ControlNack
  <2>2. \/ tx_window' = tx_window
        \/ stack.i \in DOMAIN tx_window /\ tx_window' = CountRetx(stack.i)
    BY <1>10 DEF ControlNack
  <2>3. SameCells(tx_window', tx_window)
    BY <1>1, <2>2, CountRetxKeeps
  <2> QED
    BY <1>3, <2>1, <2>3
<1>11. CASE ControlDone
  <2>1. notified \in Seq(1 .. NSdu) /\ notify_info_vec \in Seq(1 .. NSdu)
    BY DEF TxInv, SduTypes
  <2>2. /\ notified' = notified \o notify_info_vec /\ notify_info_vec' = << >>
        /\ UNCHANGED <<undelivered, tx_sdu, tx_window>>
    BY <1>11 DEF ControlDone
  <2>3. notified' \in Seq(1 .. NSdu)
    BY <2>1, <2>2, ConcatProperties
  <2>4. Told' = Told
    BY <2>2, <2>3, ConcatEmptySeq DEF Told
  <2> QED
    BY <1>1, <2>2, <2>4
<1>12. CASE UNCHANGED txVars
  BY <1>1, <1>3, <1>12 DEF txVars
<1> QED
  BY <1>4, <1>5, <1>6, <1>7, <1>8, <1>9, <1>10, <1>11, <1>12

\* build_data_pdu loses no cell of an SDU, and PDCP is told of nothing new.
LEMMA TellRead ==
  ASSUME TxInv, NEW n \in Nat, ReadData(n), InWindow',
         NEW recv, HeldBack(undelivered, tx_sdu, tx_window, recv)
  PROVE  HeldBack(undelivered', tx_sdu', tx_window', recv) /\ Told' = Told
<1>1. /\ n \in Nat \ {0} /\ vt_s' = Inc(vt_s)
      /\ UNCHANGED <<vt_a, notified, notify_info_vec>>
      /\ tx_window' = NewWindow(n) /\ undelivered' = NewUndelivered(n)
      /\ tx_sdu' = RestOfSdu(n)
  BY DEF ReadData
<1>2. PartsOK /\ SduInv /\ RetxInv /\ DOMAIN undelivered \subseteq 1 .. NSdu
  BY DEF TxInv, PartsOK, QueueTypes, SduTypes, SduInv, SduOK, SduBegun
<1>3. TxOff(Inc(vt_s)) <= W
  BY <1>1 DEF InWindow, TxOff
<1>4. HeldBack(NewUndelivered(n), RestOfSdu(n), NewWindow(n), recv)
  BY <1>1, <1>2, <1>3, HeldRead
<1>5. Told' = Told
  BY <1>1 DEF Told
<1> QED
  BY <1>1, <1>4, <1>5

\* An SDU is passed on for notification when its last PDU is acknowledged, which the peer
\* has then.
LEMMA TellAcked ==
  ASSUME TxInv, ControlAck,
         NEW recv, HeldBack(undelivered, tx_sdu, tx_window, recv), ToldHas(Told, recv),
         stack.i \in DOMAIN tx_window =>
            \A c \in DOMAIN tx_window[stack.i].cells : tx_window[stack.i].cells[c] \in recv
  PROVE  HeldBack(undelivered', tx_sdu', tx_window', recv) /\ ToldHas(Told', recv)
<1> DEFINE i == stack.i
<1>1. /\ UNCHANGED <<tx_sdu, notified>>
      /\ \/ /\ i \in DOMAIN tx_window
            /\ undelivered' = AckSegments(i) /\ tx_window' = Without(tx_window, i)
            /\ \E acked \in InOrder(FullyAcked(i)) :
                  notify_info_vec' = notify_info_vec \o acked
         \/ /\ i \notin DOMAIN tx_window
            /\ UNCHANGED <<undelivered, notify_info_vec, tx_window>>
  BY DEF ControlAck
<1>2. /\ notified \in Seq(1 .. NSdu) /\ notify_info_vec \in Seq(1 .. NSdu)
      /\ DOMAIN undelivered \subseteq 1 .. NSdu /\ SduInv
  BY DEF TxInv, SduTypes
<1>3. i \in DOMAIN tx_window =>
        \A c \in DOMAIN tx_window[i].cells : tx_window[i].cells[c] \in recv
  OBVIOUS
<1> HIDE DEF i
<1>4. CASE i \in DOMAIN tx_window
  <2>1. PICK acked \in InOrder(FullyAcked(i)) : notify_info_vec' = notify_info_vec \o acked
    BY <1>1, <1>4
  <2>2. acked \in Seq(1 .. NSdu)
    BY <1>2, AckedOnce
  <2>3. Told \in Seq(1 .. NSdu)
    BY <1>2, ConcatProperties DEF Told
  <2>4. Told' = Told \o acked
    <3>1. notified \o (notify_info_vec \o acked) = (notified \o notify_info_vec) \o acked
      BY <1>2, <2>2, ConcatAssociative
    <3>2. notified' = notified
      BY <1>1
    <3> QED
      BY <2>1, <3>1, <3>2, Zenon DEF Told
  <2>5. /\ HeldBack(AckSegments(i), tx_sdu, Without(tx_window, i), recv)
        /\ ToldHas(Told \o acked, recv)
    BY <1>2, <1>3, <1>4, <2>3, HeldAcked
  <2>6. undelivered' = AckSegments(i) /\ tx_window' = Without(tx_window, i) /\ tx_sdu' = tx_sdu
    BY <1>1, <1>4
  <2> QED
    BY <2>4, <2>5, <2>6
<1>5. CASE i \notin DOMAIN tx_window
  BY <1>1, <1>5 DEF Told
<1> QED
  BY <1>4, <1>5

-----------------------------------------------------------------------------

\* A bearer that has gone quiet satisfies the inductive invariant.
LEMMA TxInvInit ==
  ASSUME TxInit
  PROVE  TxInv
<1>1. PICK s \in Starts : TxQuiet(s)
  BY DEF TxInit
<1>2. /\ tx_enabled = TRUE /\ tx_sdu_queue = << >> /\ tx_sdu = NoSdu
      /\ vt_a = s /\ vt_s = s /\ vt_ms = (s + W) % MOD
      /\ poll_sn = s /\ pdu_without_poll = 0
      /\ tx_window = NoEntries /\ retx_queue = << >> /\ poll_retx_timer = "stopped"
      /\ undelivered = NoEntries /\ notify_info_vec = << >> /\ stack = Idle
      /\ written = 0 /\ accepted = << >> /\ notified = << >> /\ rrc_events = {}
  BY <1>1 DEF TxQuiet
<1>3. s \in SN /\ NSdu \in Nat /\ PollPdu \in Nat
  BY <1>1, StartsAssumption, TxAssumption
<1>4. ModBase(s, s) = 0 /\ W \in Nat
  BY <1>3, ZeroOffset, WindowAssumption
<1>5. DOMAIN NoEntries = {} /\ \A S : NoEntries \in [DOMAIN NoEntries -> S]
  BY DEF NoEntries
<1>6. DOMAIN << >> = {} /\ \A S : << >> \in Seq(S)
  OBVIOUS
<1>7. NoSdu \in [s : 0 .. NSdu, k : Nat]
  BY <1>3 DEF NoSdu
<1>8. QueueTypes
  BY <1>2, <1>3, <1>6, <1>7 DEF QueueTypes
<1>9. PollTypes
  BY <1>2, <1>3 DEF PollTypes
<1>10. SduTypes
  BY <1>2, <1>5, <1>6 DEF SduTypes
<1>11. StackTypes
  BY <1>2 DEF StackTypes, Idle
<1>12. RetxInv
  BY <1>2, <1>3, <1>4, <1>5, <1>6
     DEF RetxInv, RetxNear, InPdu, Near, WindowOK, TxOff
<1>13. EdgesOK
  BY <1>2 DEF EdgesOK, Idle
<1>14. SduInv
  <2>1. Told = << >>
    BY <1>2, <1>6, ConcatEmptySeq DEF Told
  <2> QED
    BY <2>1, <1>2, <1>5, <1>6
       DEF SduInv, SduOK, QueuedOK, UndeliveredOK, ToldOK, Fresh, Carried
<1> QED
  BY <1>8, <1>9, <1>10, <1>11, <1>12, <1>13, <1>14 DEF TxInv

\* No step of the transmitter breaks the inductive invariant, short of VT(S)
\* leaving the window.
LEMMA TxInvNext ==
  ASSUME TxInv, [TxNext /\ InWindow' /\ RetxQueueFits']_txVars
  PROVE  TxInv'
<1>1. CASE UNCHANGED txVars
  <2>1. RetxInv' /\ EdgesOK'
    BY <1>1, RetxUnchanged, EdgesUnchanged DEF TxInv, txVars
  <2> QED
    BY <1>1, <2>1 DEF TxInv, txVars, QueueTypes, PollTypes, SduTypes, StackTypes,
                      SduInv, Told
<1>2. CASE TxNext /\ InWindow'
  <2>1. CASE WriteSdu
    BY <2>1, WriteKept
  <2>2. CASE \E s \in Discardable : DiscardSdu(s)
    BY <2>2, DiscardKept
  <2>3. CASE TxRead
    <3>1. PICK n \in 0 .. MaxGrant : ReadRetx(n) \/ ReadData(n) \/ ReadNothing(n)
      BY <2>3 DEF TxRead
    <3>2. n \in Nat
      BY TxAssumption
    <3> QED
      BY <3>1, <3>2, <1>2, ReadRetxKept, ReadDataKept, ReadNothingKept
  <2>4. CASE PollRetxExpires
    BY <2>4, ExpiresKept
  <2>5. CASE PollRetxCallback
    BY <2>5, CallbackKept
  <2>6. CASE TxControl
    <3>1. CASE \E k \in 0 .. W : \E nacks \in SUBSET {(vt_a + j) % MOD : j \in -1 .. k - 1} :
                 ControlStart([ack_sn |-> (vt_a + k) % MOD, nacks |-> nacks])
      <4>0. PICK k \in 0 .. W : \E nacks \in SUBSET {(vt_a + j) % MOD : j \in -1 .. k - 1} :
                 ControlStart([ack_sn |-> (vt_a + k) % MOD, nacks |-> nacks])
        BY <3>1
      <4>1. PICK nacks \in SUBSET {(vt_a + j) % MOD : j \in -1 .. k - 1} :
                 ControlStart([ack_sn |-> (vt_a + k) % MOD, nacks |-> nacks])
        BY <4>0
      <4>2. vt_a \in SN
        BY DEF TxInv, RetxInv
      <4>3. \A j \in Int : (vt_a + j) % MOD \in SN
        BY <4>2, WindowAssumption DEF SN, MOD
      <4>4. W \in Nat
        BY WindowAssumption
      <4>5. (vt_a + k) % MOD \in SN /\ nacks \in SUBSET SN
        BY <4>1, <4>3, <4>4
      <4>6. [ack_sn |-> (vt_a + k) % MOD, nacks |-> nacks] \in [ack_sn : SN, nacks : SUBSET SN]
        BY <4>5
      <4> QED
        BY <4>1, <4>6, ControlStartKept
    <3>2. CASE \E ack_sn \in SN : ControlDropped([ack_sn |-> ack_sn, nacks |-> {}])
      BY <3>2, <1>1 DEF ControlDropped
    <3>3. CASE ControlStep
      BY <3>3, NackKept, AckKept, DoneKept DEF ControlStep
    <3> QED
      BY <2>6, <3>1, <3>2, <3>3 DEF TxControl
  <2>7. CASE EmptyQueue
    BY <2>7, EmptyKept
  <2>8. CASE \E enabled \in BOOLEAN : StopTx(enabled)
    BY <2>8, StopKept
  <2> QED
    BY <1>2, <2>1, <2>2, <2>3, <2>4, <2>5, <2>6, <2>7, <2>8 DEF TxNext
<1> QED
  BY <1>1, <1>2

\* The inductive invariant holds in every state of the transmitter.
LEMMA TxInvHolds == TxBoundedSpec => []TxInv
<1>1. TxInit => TxInv
  BY TxInvInit
<1>2. TxInv /\ [TxNext /\ InWindow' /\ RetxQueueFits']_txVars => TxInv'
  BY TxInvNext
<1> QED
  BY <1>1, <1>2, PTL DEF TxBoundedSpec

\* The fields of rlc_am_lte_tx keep their types, whatever is written, read,
\* acknowledged, discarded or stopped in whatever order.
THEOREM TxTypeCorrect == TxBoundedSpec => []TxTypeOK
<1>1. TxInv => TxTypeOK
  BY TxInvShows
<1> QED
  BY <1>1, TxInvHolds, PTL

\* tx_window holds PDUs from VT(A) up to VT(S) only, also between two critical
\* sections of handle_control_pdu.
THEOREM TxWindowAlwaysSound == TxBoundedSpec => []TxWindowSound
<1>1. TxInv => TxWindowSound
  BY TxInvShows
<1> QED
  BY <1>1, TxInvHolds, PTL

\* What build_retx_pdu and build_segment are asked for is a part of the PDU, although
\* the entry may have been queued for an earlier PDU of the same SN, if the NACKs ask
\* for no more than that.
THEOREM RetxAlwaysInPdu == TxBoundedSpec => []RetxInPdu
<1>1. TxInv => RetxInPdu
  BY TxInvShows
<1> QED
  BY <1>1, TxInvHolds, PTL

\* undelivered_sdu_info_queue and the segment lists of the PDUs in tx_window agree.
THEOREM UndeliveredAlwaysSound == TxBoundedSpec => []UndeliveredSound
<1>1. TxInv => UndeliveredSound
  BY TxInvShows
<1> QED
  BY <1>1, TxInvHolds, PTL

\* notify_delivery tells PDCP of an SDU once, when no part of it is left to be sent
\* or acknowledged.
THEOREM NotifiedAlwaysOnce == TxBoundedSpec => []NotifiedOnce
<1>1. TxInv => NotifiedOnce
  BY TxInvShows
<1> QED
  BY <1>1, TxInvHolds, PTL
=============================================================================
