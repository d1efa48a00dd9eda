------------------------------- MODULE RlcUmTx -------------------------------
(***************************************************************************)
(* The transmitting half of an RLC UM entity: rlc_um_base_tx in            *)
(* lib/src/rlc/rlc_um_base.cc and rlc_um_lte_tx in rlc_um_lte.cc.          *)
(*                                                                         *)
(* PDCP writes SDUs and RRC re-establishes the entity on the stack thread; *)
(* the MAC reads PDUs from another thread.  build_data_pdu of the base     *)
(* class finds out that there is something to send and releases the mutex  *)
(* before that of the subclass takes it again, so reading a PDU is two     *)
(* steps.                                                                  *)
(*                                                                         *)
(* An SDU is a sequence of cells [s, k], the k-th run of bytes of SDU s.   *)
(* A PDU carries parts of SDUs: every part but the last one has an LI      *)
(* field and ends its SDU, and the FI field says whether the first part    *)
(* starts and the last part ends an SDU.                                   *)
(***************************************************************************)
EXTENDS Integers, Sequences, FiniteSets

CONSTANTS
  W,                \* rx_window_size, half of tx_mod and rx_mod
  Starts,           \* SNs a bearer may have reached when it is first looked at
  NSdu,             \* PDCP writes the SDUs 1, 2, ..., NSdu
  SduLen,           \* SduLen[s]: number of cells of SDU s
  QueueLen,         \* tx_queue_length
  MaxGrant,         \* largest number of cells the MAC asks for
  LiMax,            \* longest SDU part another SDU may follow (127 bytes)
  MacReadsOn        \* the MAC may be inside read_pdu during a re-establishment

\* tx_mod and rx_mod, 32 or 1024 in the code with windows of 16 and 512.
MOD == 2 * W

SN == 0 .. MOD - 1

ASSUME UmTxAssumption ==
  /\ W \in Nat \ {0} /\ Starts \subseteq SN
  /\ NSdu \in Nat /\ QueueLen \in Nat /\ MaxGrant \in Nat /\ LiMax \in Nat
  /\ SduLen \in [1 .. NSdu -> Nat \ {0}]
  /\ MacReadsOn \in BOOLEAN

VARIABLES
  vt_us,            \* SN of the next PDU
  tx_sdu_queue,     \* SDUs waiting
  tx_sdu,           \* [s, k]: SDU s is being sent, its first k cells are gone
  mac,              \* "idle", or "reading" between the two critical sections
  tx_enabled,       \* FALSE while the entity is being re-established
  written,          \* number of SDUs PDCP has written
  accepted          \* the ones that went into the queue, in order

umTxVars == <<vt_us, tx_sdu_queue, tx_sdu, mac, tx_enabled, written, accepted>>

NoSdu == [s |-> 0, k |-> 0]

UmTxQuiet(s) ==
  /\ vt_us = s /\ tx_sdu_queue = << >> /\ tx_sdu = NoSdu /\ mac = "idle"
  /\ tx_enabled = TRUE /\ written = 0 /\ accepted = << >>

-----------------------------------------------------------------------------
\* rlc_um_base::write_sdu and try_write_sdu: a full queue drops the SDU.
WriteSdu ==
  /\ written < NSdu /\ tx_enabled
  /\ written' = written + 1
  /\ IF Len(tx_sdu_queue) < QueueLen
     THEN /\ tx_sdu_queue' = Append(tx_sdu_queue, written + 1)
          /\ accepted' = Append(accepted, written + 1)
     ELSE UNCHANGED <<tx_sdu_queue, accepted>>
  /\ UNCHANGED <<vt_us, tx_sdu, mac, tx_enabled>>

\* rlc_um_base::read_pdu and rlc_um_base_tx::build_data_pdu: there is data.
ReadPduStart ==
  /\ mac = "idle" /\ tx_enabled
  /\ tx_sdu # NoSdu \/ tx_sdu_queue # << >>
  /\ mac' = "reading"
  /\ UNCHANGED <<vt_us, tx_sdu_queue, tx_sdu, tx_enabled, written, accepted>>

\* What is left to send, the SDU that has been started first.
Pending == (IF tx_sdu = NoSdu THEN << >> ELSE <<tx_sdu>>)
             \o [i \in DOMAIN tx_sdu_queue |-> [s |-> tx_sdu_queue[i], k |-> 0]]

Remaining(part) == SduLen[part.s] - part.k

\* Cells of the first i pending SDUs.
Upto(i) == LET sum[j \in 0 .. i] == IF j = 0 THEN 0 ELSE sum[j - 1] + Remaining(Pending[j])
           IN  sum[i]

\* Number of SDUs that a PDU with room for n cells has a part of: it is full, or
\* the queue is empty, or the last part is too long for an LI field.
Parts(n) ==
  Cardinality({i \in DOMAIN Pending :
                 \A j \in 1 .. i - 1 : Upto(j) < n /\ Remaining(Pending[j]) <= LiMax})

\* Number of cells of its i-th part.
CellsOf(i, n) == IF Upto(i) <= n THEN Remaining(Pending[i]) ELSE n - Upto(i - 1)

LastComplete(n) == Upto(Parts(n)) <= n

\* rlc_um_lte_tx::build_data_pdu with room for n cells.  When nothing is left to
\* send after all, the PDU has one empty part that starts and ends an SDU.
UmPdu(n) ==
  [sn    |-> vt_us,
   parts |-> IF Pending = << >> THEN << << >> >>
             ELSE [i \in 1 .. Parts(n) |->
                     [c \in 1 .. CellsOf(i, n) |->
                        [s |-> Pending[i].s, k |-> Pending[i].k + c]]],
   start |-> tx_sdu = NoSdu,
   end   |-> Pending = << >> \/ LastComplete(n)]

\* Mutant: the SDU that did not fit is taken up at its first cell again.
LeftMutant(n) == [Pending[Parts(n)] EXCEPT !.k = 0]

\* The SDU that did not fit.
Left(n) == [Pending[Parts(n)] EXCEPT !.k = @ + CellsOf(Parts(n), n)]

BuildPdu(n) ==
  /\ mac = "reading"
  /\ mac' = "idle"
  /\ vt_us' = (vt_us + 1) % MOD
  /\ IF Pending = << >> THEN UNCHANGED <<tx_sdu, tx_sdu_queue>>
     ELSE /\ tx_sdu' = IF LastComplete(n) THEN NoSdu ELSE Left(n)
          /\ LET pulled == Parts(n) - (IF tx_sdu = NoSdu THEN 0 ELSE 1)
             IN  tx_sdu_queue' = SubSeq(tx_sdu_queue, pulled + 1, Len(tx_sdu_queue))
  /\ UNCHANGED <<tx_enabled, written, accepted>>

\* A grant too small for the header and a byte: no PDU.
BuildNothing ==
  /\ mac = "reading" /\ mac' = "idle"
  /\ UNCHANGED <<vt_us, tx_sdu_queue, tx_sdu, tx_enabled, written, accepted>>

\* rlc_um_base::reestablish, its first half: no further PDU is begun, and
\* empty_queue drops what is left.
TxReestablishStart ==
  /\ tx_enabled /\ (mac = "idle" \/ MacReadsOn)
  /\ tx_enabled' = FALSE
  /\ tx_sdu_queue' = << >> /\ tx_sdu' = NoSdu
  /\ UNCHANGED <<vt_us, mac, written, accepted>>

\* Its second half: reset, which does not take the mutex.
TxReestablishEnd ==
  /\ ~tx_enabled
  /\ tx_enabled' = TRUE
  /\ vt_us' = 0
  /\ UNCHANGED <<tx_sdu_queue, tx_sdu, mac, written, accepted>>
=============================================================================
