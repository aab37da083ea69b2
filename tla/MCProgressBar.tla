--------------------------- MODULE MCProgressBar ---------------------------
(* Two threads report to the bar of one id.                                 *)
EXTENDS ProgressBar, TLC

Symmetry == Permutations(Threads)

=============================================================================
