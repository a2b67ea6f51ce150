------------------------------- MODULE MCEngine ------------------------------
(***************************************************************************)
(* Engine for TLC.  Goroutines are interchangeable, which the runs without *)
(* liveness use to fold states together.                                   *)
(***************************************************************************)
EXTENDS Engine, TLC

RunnerSymmetry == Permutations(Runners)

=============================================================================
