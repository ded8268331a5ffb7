--------------------------- MODULE MCSentenceLane ---------------------------
(* Finite instances of SentenceLane for TLC.                               *)
EXTENDS SentenceLane
=============================================================================
