-------------------------- MODULE RlcAmCommonProofs --------------------------
(***************************************************************************)
(* The arithmetic on sequence numbers of RLC AM, for every window size W:  *)
(* what the proofs about both halves of an entity rest on.                 *)
(***************************************************************************)
EXTENDS RlcAmCommon, TLAPS, NaturalsInduction, WellFoundedInduction

-----------------------------------------------------------------------------
(* Arithmetic modulo 2 W.                                                      *)

\* An offset is a sequence number, and subtracts as integers do, up to one MOD
\* (macros TX_MOD_BASE and RX_MOD_BASE).
LEMMA ModBaseValue ==
  ASSUME NEW a \in SN, NEW b \in SN
  PROVE  /\ ModBase(a, b) = IF a >= b THEN a - b ELSE a - b + MOD
         /\ ModBase(a, b) \in SN
BY WindowAssumption DEF ModBase, SN, MOD

\* Moving the base of an offset from b to r, as RX_MOD_BASE does when vr_r moves.
LEMMA Shift ==
  ASSUME NEW a \in SN, NEW b \in SN, NEW r \in SN
  PROVE  ModBase(a, r) = IF ModBase(a, b) >= ModBase(r, b)
                         THEN ModBase(a, b) - ModBase(r, b)
                         ELSE ModBase(a, b) - ModBase(r, b) + MOD
<1>1. MOD \in Nat /\ SN = 0 .. MOD - 1
  BY WindowAssumption DEF MOD, SN
<1>2. ModBase(a, r) = IF a >= r THEN a - r ELSE a - r + MOD
  BY ModBaseValue
<1>3. ModBase(a, b) = IF a >= b THEN a - b ELSE a - b + MOD
  BY ModBaseValue
<1>4. ModBase(r, b) = IF r >= b THEN r - b ELSE r - b + MOD
  BY ModBaseValue
<1> QED
  BY <1>1, <1>2, <1>3, <1>4

\* The upper edge follows the lower edge (vr_mr = (vr_mr + 1) % MOD in step with vr_r).
LEMMA UpperEdge ==
  ASSUME NEW b \in SN, NEW r \in SN
  PROVE  /\ (((b + W) % MOD) + ModBase(r, b)) % MOD = (r + W) % MOD
         /\ (r + W) % MOD \in SN
         /\ ModBase((r + W) % MOD, r) = W
BY WindowAssumption DEF ModBase, SN, MOD

\* The SN after a has the next offset, unless the offset of a is the last one.
LEMMA IncOffset ==
  ASSUME NEW a \in SN, NEW b \in SN
  PROVE  /\ Inc(a) \in SN
         /\ ModBase(a, b) < MOD - 1 => ModBase(Inc(a), b) = ModBase(a, b) + 1
BY WindowAssumption DEF ModBase, SN, MOD, Inc

\* RX_MOD_BASE is 0 at the base itself, and nowhere else.
LEMMA ZeroOffset ==
  ASSUME NEW a \in SN, NEW b \in SN
  PROVE  /\ ModBase(b, b) = 0
         /\ ModBase(a, b) = 0 => a = b
BY WindowAssumption DEF ModBase, SN, MOD

\* An offset determines its SN (vr_r plus the number of increments modulo MOD).
LEMMA SnAt ==
  ASSUME NEW b \in SN, NEW j \in SN
  PROVE  /\ (b + j) % MOD \in SN
         /\ ModBase((b + j) % MOD, b) = j
BY WindowAssumption DEF ModBase, SN, MOD

\* An SN is found again from its offset (the loop variable of get_status_pdu).
LEMMA SnOf ==
  ASSUME NEW b \in SN, NEW a \in SN
  PROVE  (b + ModBase(a, b)) % MOD = a
BY WindowAssumption DEF ModBase, SN, MOD

-----------------------------------------------------------------------------
(* Sequence numbers as remainders of numbers that do not wrap: the u-th PDU of *)
(* a bearer has the SN u % MOD.                                                *)

\* Quotient and remainder, and that they are unique.
LEMMA Division ==
  ASSUME NEW x \in Int, NEW n \in Nat \ {0}
  PROVE  /\ x = (x \div n) * n + (x % n) /\ x % n \in 0 .. n - 1 /\ x \div n \in Int
         /\ \A q \in Int, r \in 0 .. n - 1 : x = q * n + r => x % n = r
<1> DEFINE p == x \div n
           s == x % n
<1>1. x = n * p + s /\ s \in 0 .. n - 1 /\ p \in Int
  OBVIOUS
<1>2. n * p = p * n
  BY <1>1
<1> HIDE DEF p, s
<1>3. ASSUME NEW q \in Int, NEW r \in 0 .. n - 1, x = q * n + r
      PROVE  s = r
  <2>1. (q - p) * n = q * n - p * n
    BY <1>1
  <2>2. (q - p) * n = s - r
    BY <1>1, <1>2, <1>3, <2>1
  <2>3. \A d \in Int : (d >= 1 => d * n >= n) /\ (d <= -1 => d * n <= -n)
    OBVIOUS
  <2>4. ~(q - p >= 1) /\ ~(q - p <= -1)
    BY <1>1, <2>2, <2>3
  <2>5. q = p
    BY <1>1, <2>4
  <2> QED
    BY <1>1, <1>2, <1>3, <2>5
<1> QED
  BY <1>1, <1>2, <1>3 DEF p, s

\* Numbers less than MOD apart are as far apart as their SNs (TX_MOD_BASE, RX_MOD_BASE).
LEMMA Unwrapped ==
  ASSUME NEW b \in Nat, NEW u \in Nat, b <= u, u < b + MOD
  PROVE  /\ b % MOD \in SN /\ u % MOD \in SN
         /\ ModBase(u % MOD, b % MOD) = u - b
<1> DEFINE q == b \div MOD
           r == b % MOD
           t == u % MOD
<1>1. MOD \in Nat \ {0} /\ SN = 0 .. MOD - 1
  BY WindowAssumption DEF MOD, SN
<1>2. b = q * MOD + r /\ r \in SN /\ q \in Int /\ t \in SN
  BY <1>1, Division
<1> HIDE DEF q, r, t
<1>3. ModBase(t, r) = IF t >= r THEN t - r ELSE t - r + MOD
  BY <1>2, ModBaseValue
<1>4. (q + 1) * MOD = q * MOD + MOD
  BY <1>1, <1>2
<1>5. \A x \in Int, y \in 0 .. MOD - 1 : u = x * MOD + y => t = y
  <2>1. u \in Int
    OBVIOUS
  <2>2. \A x \in Int, y \in 0 .. MOD - 1 : u = x * MOD + y => u % MOD = y
    BY <1>1, <2>1, Division, Zenon
  <2> QED
    BY <2>2 DEF t
<1>6. ModBase(t, r) = u - b
  <2>1. CASE r + (u - b) < MOD
    <3>1. u = q * MOD + (r + (u - b)) /\ r + (u - b) \in 0 .. MOD - 1
      BY <1>1, <1>2, <2>1
    <3>2. t = r + (u - b)
      BY <1>2, <1>5, <3>1
    <3> QED
      BY <1>1, <1>2, <1>3, <3>2
  <2>2. CASE r + (u - b) >= MOD
    <3>1. u = (q + 1) * MOD + (r + (u - b) - MOD) /\ r + (u - b) - MOD \in 0 .. MOD - 1
          /\ q + 1 \in Int
      BY <1>1, <1>2, <1>4, <2>2
    <3>2. t = r + (u - b) - MOD
      BY <1>5, <3>1
    <3> QED
      BY <1>1, <1>2, <1>3, <3>2
  <2> QED
    BY <1>1, <1>2, <2>1, <2>2
<1> QED
  BY <1>2, <1>6 DEF t, r

\* An SN is that of one number from b up to b + MOD (exclusive).
LEMMA UnwrappedAt ==
  ASSUME NEW b \in Nat, NEW sn \in SN
  PROVE  LET u == b + ModBase(sn, b % MOD) IN
         u \in Nat /\ b <= u /\ u < b + MOD /\ u % MOD = sn
<1> DEFINE r == b % MOD
           d == ModBase(sn, r)
           t == (b + d) % MOD
<1>1. MOD \in Nat \ {0} /\ SN = 0 .. MOD - 1
  BY WindowAssumption DEF MOD, SN
<1>2. r \in SN
  BY <1>1, Division
<1> HIDE DEF r
<1>3. d \in SN /\ (r + d) % MOD = sn
  BY <1>2, ModBaseValue, SnOf
<1> HIDE DEF d
<1>4. b + d \in Nat /\ b <= b + d /\ b + d < b + MOD /\ (b + d) - b = d
  BY <1>1, <1>3
<1>5. ModBase(t, r) = d /\ t \in SN
  BY <1>4, Unwrapped DEF r
<1> HIDE DEF t
<1>6. (r + ModBase(t, r)) % MOD = t
  BY <1>2, <1>5, SnOf
<1>7. t = sn
  BY <1>3, <1>5, <1>6
<1> QED
  BY <1>4, <1>7 DEF d, r, t

\* Numbers less than MOD apart have different SNs.
LEMMA UnwrappedOnce ==
  ASSUME NEW u \in Nat, NEW v \in Nat, u < v + MOD, v < u + MOD, u % MOD = v % MOD
  PROVE  u = v
<1>1. CASE u <= v
  <2>1. ModBase(v % MOD, u % MOD) = v - u /\ v % MOD \in SN
    BY <1>1, Unwrapped
  <2>2. ModBase(v % MOD, u % MOD) = 0
    BY <2>1, ZeroOffset
  <2> QED
    BY <2>1, <2>2
<1>2. CASE v <= u
  <2>1. ModBase(u % MOD, v % MOD) = u - v /\ u % MOD \in SN
    BY <1>2, Unwrapped
  <2>2. ModBase(u % MOD, v % MOD) = 0
    BY <2>1, ZeroOffset
  <2> QED
    BY <2>1, <2>2
<1> QED
  BY <1>1, <1>2

\* The SN after that of u is that of u + 1.
LEMMA UnwrappedNext ==
  ASSUME NEW u \in Nat
  PROVE  u % MOD \in SN /\ Inc(u % MOD) = (u + 1) % MOD
<1>1. MOD \in Nat \ {0, 1} /\ SN = 0 .. MOD - 1
  BY WindowAssumption DEF MOD, SN
<1>2. /\ ModBase((u + 1) % MOD, u % MOD) = 1
      /\ u % MOD \in SN /\ (u + 1) % MOD \in SN
  <2>1. u + 1 \in Nat /\ u <= u + 1 /\ u + 1 < u + MOD /\ (u + 1) - u = 1
    BY <1>1
  <2> QED
    BY <2>1, Unwrapped
<1>3. ((u % MOD) + 1) % MOD = (u + 1) % MOD
  BY <1>2, SnOf
<1> QED
  BY <1>2, <1>3 DEF Inc

-----------------------------------------------------------------------------
\* A non-empty set of numbers has a lowest one: where a loop over them stops.
LEMMA LowestOf ==
  ASSUME NEW S \in SUBSET Nat, S # {}
  PROVE  \E x \in S : \A y \in S : x <= y
<1> DEFINE LT == {ss \in Nat \X Nat : ss[1] < ss[2]}
<1>1. IsWellFoundedOn(LT, Nat)
  BY NatLessThanWellFounded DEF OpToRel
<1> HIDE DEF LT
<1>2. PICK x \in S : \A y \in S : ~(<<y, x>> \in LT)
  BY <1>1, WFMin
<1>3. \A y \in S : ~(y < x)
  BY <1>2 DEF LT
<1> QED
  BY <1>3
=============================================================================
