------------------------------- MODULE MCScan -------------------------------
(***************************************************************************)
(* Instance of Scan for TLC: scores on both sides of the thresholds, among *)
(* them one that 15 points carry from audit to reject.                     *)
(***************************************************************************)
EXTENDS Scan

Thresholds == {0, 35, 50, 95}
=============================================================================
