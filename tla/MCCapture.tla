----------------------------- MODULE MCCapture ------------------------------
(***************************************************************************)
(* Instances of Capture for TLC, and a statement of the repository's       *)
(* documents about concurrent observations that its code does not meet.    *)
(***************************************************************************)
EXTENDS Capture

\* plan-package-risk-intelligence.md "Run executable smoke tests in independent
\* sandboxes.": a call captures the output of its own task only.
OutputOwned == mixed = {}
=============================================================================
