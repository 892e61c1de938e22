------------------------------ MODULE WorkPool ------------------------------
(***************************************************************************)
(* What observe() (src/src/package/observation.cpp) promises about the     *)
(* slots of `partial`: a slot is filled by at most one worker, once, and   *)
(* the results are merged when no worker is in the middle of one.          *)
(***************************************************************************)
CONSTANT Slot

VARIABLES
    slot,    \* state of each element of partial
    merged   \* the results have been put together

vars == <<slot, merged>>

Init ==
    /\ slot = [i \in Slot |-> "free"]
    /\ merged = FALSE

Take(i) ==
    /\ ~merged /\ slot[i] = "free"
    /\ slot' = [slot EXCEPT ![i] = "busy"]
    /\ UNCHANGED merged

Fill(i) ==
    /\ slot[i] = "busy"
    /\ slot' = [slot EXCEPT ![i] = "filled"]
    /\ UNCHANGED merged

Merge ==
    /\ ~merged /\ \A i \in Slot : slot[i] # "busy"
    /\ merged' = TRUE
    /\ UNCHANGED slot

Next == Merge \/ \E i \in Slot : Take(i) \/ Fill(i)

Spec == Init /\ [][Next]_vars
=============================================================================
