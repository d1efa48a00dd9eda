------------------------------ MODULE RlcAmCommon ------------------------------
(***************************************************************************)
(* What both halves of an RLC AM entity share: the modular arithmetic on   *)
(* sequence numbers and the shape of PDUs (lib/src/rlc/rlc_am_lte.cc,      *)
(* lib/include/srsran/rlc/rlc_common.h).                                   *)
(*                                                                         *)
(* The payload of a PDU is a sequence of cells.  A cell stands for a run   *)
(* of bytes of one SDU: cell [s, k, e] is the k-th run of SDU s, and e     *)
(* says that the SDU ends after it.  The code carries e in the header: an  *)
(* LI field for an SDU that ends inside the PDU, the FI field for one that *)
(* ends with it.                                                           *)
(***************************************************************************)
EXTENDS Integers, Sequences, FiniteSets

CONSTANTS
  W,                \* RLC_AM_WINDOW_SIZE, 512 in the code
  Starts            \* SNs a bearer may have reached when it is first looked at

\* The window is half the sequence number space, and not trivial.
ASSUME WindowAssumption == W \in Nat \ {0, 1}

\* MOD, 1024 in the code.
MOD == 2 * W

SN == 0 .. MOD - 1

ASSUME StartsAssumption == Starts \subseteq SN

\* Mutant: the sequence number does not wrap around.
IncMutant(x) == x + 1

Inc(x) == (x + 1) % MOD

\* TX_MOD_BASE(x) and RX_MOD_BASE(x) for base vt_a and vr_r.
ModBase(x, base) == (x - base) % MOD

\* rlc_am_is_valid_status_pdu: ACK_SN within a window of rx_win_min, and every
\* NACK strictly below ACK_SN.
IsValidStatusPdu(status, rx_win_min) ==
  /\ ModBase(status.ack_sn, rx_win_min) <= W
  /\ \A sn \in status.nacks : /\ ModBase(status.ack_sn, sn) <= W
                              /\ sn # status.ack_sn

\* The function f without the argument x.
Without(f, x) == [y \in DOMAIN f \ {x} |-> f[y]]

\* The function f with the value v at x, which need not be in its domain.
With(f, x, v) == [y \in DOMAIN f \cup {x} |-> IF y = x THEN v ELSE f[y]]

\* The sequence q without its i-th element.
Drop(q, i) == SubSeq(q, 1, i - 1) \o SubSeq(q, i + 1, Len(q))

\* The map with no entry (a function of empty domain, not a sequence operator).
NoEntries == [x \in {} |-> x]
=============================================================================
