-------------------------- MODULE MCAnalysisService --------------------------
(* Finite instances of AnalysisService for TLC.                            *)
EXTENDS AnalysisService
=============================================================================
