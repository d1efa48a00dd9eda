------------------------------ MODULE MCRlcAmRx ------------------------------
(* The receiver alone, on small instances.                                     *)
EXTENDS RlcAmRx

Cell(k, e) == [s |-> 1, k |-> k, e |-> e]

\* One-cell PDUs that hold a whole SDU.
OneCell == {<<Cell(1, TRUE)>>}

\* The halves of a PDU of two cells.
Halves ==
  {[so |-> 0, lsf |-> FALSE, p |-> FALSE, cells |-> <<Cell(1, FALSE)>>],
   [so |-> 1, lsf |-> TRUE, p |-> TRUE, cells |-> <<Cell(2, TRUE)>>]}

NoSegments == {}
=============================================================================
