------------------------------- MODULE Policy -------------------------------
(***************************************************************************)
(* The policy engine and its reporter (src/src/policy/), and the reporters *)
(* they feed: the summary's counters and the JSON array of events          *)
(* (src/src/report/).  A text is a sequence of tokens, one of them the "/" *)
(* of a path; a JSON array is a sequence of its brackets, commas and       *)
(* elements.                                                               *)
(***************************************************************************)
EXTENDS Integers, Sequences

VARIABLES
    config,         \* policy::Config
    process_count,  \* Engine::process_count_
    violations,     \* Engine::violations_
    denied,         \* Reporter::denied_, stop_requested()
    summary,        \* report::Summary
    json            \* JsonReporter: what it has written, and finished_

policy == <<config, process_count, violations, denied>>
reports == <<summary, json>>

\* The fields of an event that a reporter looks at: `resource` is its path or
\* endpoint and empty when it has neither (a rename has two names, and no path).
Event(kind, resource, syscall, context) ==
    [kind |-> kind, resource |-> resource, syscall |-> syscall, context |-> context]

PolicyViolation(violation) ==
    [kind |-> "PolicyViolation", resource |-> violation.resource, syscall |-> <<>>,
     rule |-> violation.rule, context |-> violation.context]

\* FileOpened stands for the three counters of files, NetworkConnected for the
\* three events that count as network attempts.
Counters == {"FileOpened", "ProcessSpawned", "NetworkConnected", "SyscallFailed"}

ReportersInit ==
    /\ process_count = 0
    /\ violations = <<>>
    /\ denied = FALSE
    /\ summary = [c \in Counters |-> 0]
    /\ json = [text |-> <<>>, finished |-> FALSE]

starts_with(text, prefix) ==
    Len(prefix) <= Len(text) /\ SubSeq(text, 1, Len(prefix)) = prefix

\* Mutant: a rule covers its own name only.
matches_exact(rules, text) == text \in rules

matches(rules, text) == \E rule \in rules : starts_with(text, rule)

\* Engine::evaluate, for the number of processes spawned so far: the violation
\* it records, or none.
evaluate(e, count) ==
    LET violation(rule, resource) ==
            <<[rule |-> rule, resource |-> resource, context |-> e.context]>>
    IN
    IF matches(config.denied_paths, e.resource) THEN violation("denied-path", e.resource)
    ELSE IF e.resource # <<>> /\ matches(config.denied_endpoints, e.resource)
    THEN violation("denied-endpoint", e.resource)
    ELSE IF e.syscall \in config.denied_syscalls THEN violation("denied-syscall", e.syscall)
    ELSE IF /\ e.kind = "ProcessSpawned"
            /\ config.max_processes # 0
            /\ count > config.max_processes
    THEN violation("process-limit", <<"process">>)
    ELSE <<>>

\* Summary::report
Counted(s, e) == IF e.kind \in Counters THEN [s EXCEPT ![e.kind] = @ + 1] ELSE s

\* JsonReporter::report
Written(j, e) ==
    IF j.finished THEN j
    ELSE [text |-> j.text \o <<IF j.text = <<>> THEN "[" ELSE ",", e>>, finished |-> FALSE]

\* JsonReporter::finish
Finished(j) == IF j.finished THEN j ELSE [text |-> Append(j.text, "]"), finished |-> TRUE]

\* What the two reporters make of an event and then of its violation, if any.
CountedBoth(s, e, found) ==
    IF found = <<>> THEN Counted(s, e) ELSE Counted(Counted(s, e), PolicyViolation(found[1]))

WrittenBoth(j, e, found) ==
    IF found = <<>> THEN Written(j, e) ELSE Written(Written(j, e), PolicyViolation(found[1]))

\* The reporters of `chain` are given an event and its violation.
Downstream(chain, e, found) ==
    /\ summary' = IF "summary" \in chain THEN CountedBoth(summary, e, found) ELSE summary
    /\ json' = IF "json" \in chain THEN WrittenBoth(json, e, found) ELSE json

\* Mutant: every event counts as a process.
Spawned_any(e) == 1

Spawned(e) == IF e.kind = "ProcessSpawned" THEN 1 ELSE 0

\* policy::Reporter::report: the event goes downstream, then its violation.
report(chain, e) ==
    LET count == process_count + Spawned(e)
        found == evaluate(e, count)
    IN
    /\ process_count' = count
    /\ violations' = violations \o found
    /\ denied' = (denied \/ found # <<>>)
    /\ Downstream(chain, e, found)
    /\ UNCHANGED config
=============================================================================
