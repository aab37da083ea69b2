------------------------- MODULE MCDownloadFailures -------------------------
(* Downloads of one id across reloads of the page.                          *)
EXTENDS DownloadFailures, TLC

Symmetry == Permutations(Threads)

=============================================================================
