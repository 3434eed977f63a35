------------------------------ MODULE MCJobRun ------------------------------
(* JobRun on small sets, for TLC. *)
EXTENDS JobRun, TLC

\* Runs and handlers are interchangeable: no property names one of them.
Interchangeable == Permutations(Runs) \cup Permutations(Handlers)
=============================================================================
