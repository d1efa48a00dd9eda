------------------------------ MODULE MCTimers ------------------------------
(* A timer handler with few timers and a small wheel.                          *)
EXTENDS Timers

TimersSymmetry == Permutations(Timer)
=============================================================================
