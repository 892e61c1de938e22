--------------------------- MODULE MCObservation ----------------------------
(***************************************************************************)
(* Instances of Observation for TLC, and a statement of the repository's   *)
(* documents about observations that its code does not meet.               *)
(***************************************************************************)
EXTENDS Observation

\* plan-package-risk-intelligence.md "Run every maintainer script and hook
\* independently.": when observe() has merged its results, every task has at
\* least been taken up by a worker.
EveryTaskTaken == main = "merged" => \A i \in Task : slot[i] = "filled"
=============================================================================
