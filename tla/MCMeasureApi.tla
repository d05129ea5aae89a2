---------------------------- MODULE MCMeasureApi ----------------------------
(* MeasureApi for TLC: the identities of tasks and clients are             *)
(* interchangeable, which the runs without liveness properties use.        *)
EXTENDS MeasureApi, TLC

Symmetry == Permutations(Tasks) \union Permutations(Clients)
=============================================================================
