--------------------------- MODULE MCGameSession ---------------------------
(* The sessions of one game id on small boards.                            *)
EXTENDS GameSession

=============================================================================
