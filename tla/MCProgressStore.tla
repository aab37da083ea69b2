-------------------------- MODULE MCProgressStore --------------------------
(* The store, without a webview.                                           *)
EXTENDS ProgressStore, TLC

Symmetry == Permutations(Threads) \cup Permutations(Ids)

=============================================================================
