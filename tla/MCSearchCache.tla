--------------------------- MODULE MCSearchCache ---------------------------
(* Databases of one folder.                                                *)
EXTENDS SearchCache, TLC

MCFolder == [d \in Keys |-> CHOOSE e \in Keys : TRUE]

Symmetry == Permutations(Procs) \cup Permutations(Locks) \cup Permutations(Queries)

=============================================================================
