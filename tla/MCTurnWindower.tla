--------------------------- MODULE MCTurnWindower ---------------------------
(* Finite instances of TurnWindower for TLC.                               *)
EXTENDS TurnWindower, TLC

\* Two pollers are interchangeable.
PollerSymmetry == Permutations(Pollers)
=============================================================================
