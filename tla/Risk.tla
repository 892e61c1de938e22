-------------------------------- MODULE Risk --------------------------------
(***************************************************************************)
(* The risk engine (src/src/risk/risk.cpp) and the correction that scan()  *)
(* (src/src/package/package.cpp) makes when a version behaves unlike the   *)
(* one before it.                                                          *)
(***************************************************************************)
EXTENDS Naturals

Level == {"none", "low", "medium", "high", "critical"}
Action == {"allow", "audit", "reject"}

\* Mutant: the score has no maximum.
Uncapped(score) == score

Capped(score) == IF score > 100 THEN 100 ELSE score

\* Engine::assess for the sum of the weights and the direct_reject_ flag.
assess(sum, direct) ==
    LET score == Capped(sum) IN
    [score  |-> score,
     level  |-> CASE direct \/ score >= 75 -> "critical"
                  [] ~direct /\ score \in 50 .. 74 -> "high"
                  [] ~direct /\ score \in 25 .. 49 -> "medium"
                  [] ~direct /\ score \in 1 .. 24 -> "low"
                  [] OTHER -> "none",
     action |-> IF direct \/ score >= 50 THEN "reject"
                ELSE IF score >= 25 THEN "audit" ELSE "allow"]

\* Mutant: the delta is assessed by itself.
delta_alone(score) ==
    [score |-> score, level |-> "medium", action |-> "audit"]

\* The assessment after a behavioural delta.
delta(score) ==
    LET raised == Capped(score + 15) IN
    [score  |-> raised,
     level  |-> IF raised >= 50 THEN "high" ELSE "medium",
     action |-> IF raised >= 50 THEN "reject" ELSE "audit"]

Severity(action) == CASE action = "allow" -> 0 [] action = "audit" -> 1 [] action = "reject" -> 2
=============================================================================
