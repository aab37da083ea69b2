------------------------ MODULE MCOperationRegistry ------------------------
(***************************************************************************)
(* Instances of OperationRegistry for TLC.  Owners, tickets, installs and   *)
(* keys are model values; the registry never orders them, so permuting     *)
(* them is a symmetry of the specification.                                 *)
(***************************************************************************)
EXTENDS OperationRegistry, TLC

Symmetry == Permutations(Tickets) \cup Permutations(Owners)
              \cup Permutations(Installs) \cup Permutations(Engines)

=============================================================================
