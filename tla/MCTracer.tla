------------------------------ MODULE MCTracer ------------------------------
(***************************************************************************)
(* Instances of Tracer for TLC, and a statement of the repository's        *)
(* documents about the tracer that its code does not meet.                 *)
(***************************************************************************)
EXTENDS Tracer

\* plan.md "Per-task syscall entry/exit state.": the phase follows every
\* registered task, across execve as well.
PhaseFollowsExec ==
    \A t \in tasks : run[t] \in Alive => (phase[t] = "exit" <=> InsideCall(t))
=============================================================================
