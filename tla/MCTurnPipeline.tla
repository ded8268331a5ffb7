--------------------------- MODULE MCTurnPipeline ---------------------------
(* Finite instances of TurnPipeline for TLC.                               *)
EXTENDS TurnPipeline
=============================================================================
