-------------------------------- MODULE Scan --------------------------------
(***************************************************************************)
(* execell::package::scan (src/src/package/package.cpp): scanner processes *)
(* that validate a package, install, observe and assess it in a rootfs     *)
(* session (module Rootfs), keep the observation in the database they      *)
(* share, and compare it with the previous version.  Any of them may be    *)
(* killed at any step.                                                     *)
(***************************************************************************)
EXTENDS Risk, Storage

CONSTANTS
    Scanner,           \* processes
    Names, Versions,   \* names and versions of packages, strings
    Scores             \* sums of risk weights that observations give

ASSUME PackageAssumption ==
    /\ Free \notin Scanner
    /\ Scores \subseteq Nat

VARIABLES
    pc,         \* control point of each scanner
    package,    \* name and version of the package it scans
    previous,   \* version returned by previous_version
    result      \* the Result under construction

vars == <<storage, pc, package, previous, result>>

\* A Result before anything is known; its verdict is always the risk_action.
NoResult == [ok |-> FALSE, score |-> 0, level |-> "none", action |-> "reject",
             baseline |-> FALSE, delta |-> FALSE]

Assessed(r, assessment) ==
    [r EXCEPT !.score = assessment.score, !.level = assessment.level, !.action = assessment.action]

\* The database is new, of a later release, or holds an observation.
Init ==
    /\ \/ rows = <<>> /\ schema \in {0, 2}
       \/ \E n \in Names, v \in Versions :
             rows = <<[name |-> n, version |-> v, baseline |-> TRUE, events |-> TRUE]>> /\ schema = 1
    /\ lock = Free
    /\ pending = NoRow
    /\ pc = [s \in Scanner |-> "inspect"]
    /\ package \in [Scanner -> [name : Names, version : Versions]]
    /\ previous = [s \in Scanner |-> ""]
    /\ result = [s \in Scanner |-> NoResult]

-----------------------------------------------------------------------------
At(s, from, to) == pc[s] = from /\ pc' = [pc EXCEPT ![s] = to] /\ UNCHANGED package

Becomes(s, r) == result' = [result EXCEPT ![s] = r]

SameResult == UNCHANGED <<previous, result>>

\* Privileged mode, a package that inspect() refuses, or the mirror policy.
Refuse(s) ==
    /\ At(s, "inspect", "returned")
    /\ Becomes(s, Assessed(NoResult, assess(0, TRUE)))
    /\ UNCHANGED <<storage, previous>>

\* The session directory or the workspace cannot be made, Session::create or
\* the staging of the package fails, or pacman fails or runs out of time.
PrepareFails(s) ==
    /\ At(s, "inspect", "returned")
    /\ UNCHANGED storage /\ SameResult

\* The rootfs session is not isolated.
NotIsolated(s) ==
    /\ At(s, "inspect", "returned")
    /\ Becomes(s, Assessed(NoResult, [score |-> 0, level |-> "critical", action |-> "reject"]))
    /\ UNCHANGED <<storage, previous>>

\* inspect, install, file diff, staging and observe() give the factors that the
\* engine adds up.
Assess(s, sum) ==
    /\ At(s, "inspect", "open")
    /\ LET assessment == assess(sum, FALSE) IN
       Becomes(s, [Assessed(result[s], assessment) EXCEPT !.ok = assessment.action # "reject"])
    /\ UNCHANGED <<storage, previous>>

OpenDatabase(s) ==
    /\ At(s, "open", "previous") /\ open
    /\ SameResult

PreviousVersion(s) ==
    /\ At(s, "previous", "insert")
    /\ previous' = [previous EXCEPT ![s] = previous_version(package[s].name, package[s].version)]
    /\ UNCHANGED <<storage, result>>

StoreRow(s) ==
    /\ At(s, "insert", "events") /\ insert(s, package[s].name, package[s].version, previous[s])
    /\ SameResult

StoreEvents(s) ==
    /\ At(s, "events", "commit") /\ insert_events(s)
    /\ SameResult

\* COMMIT, and the baseline flag read back.
Commit(s) ==
    /\ At(s, "commit", IF previous[s] = "" THEN "artifacts" ELSE "compare") /\ commit(s)
    /\ Becomes(s, [result[s] EXCEPT !.baseline = pending.baseline])
    /\ UNCHANGED previous

\* COMMIT, but the flag cannot be read back.
CommitUnread(s) ==
    /\ At(s, "commit", "artifacts") /\ commit(s)
    /\ SameResult

\* A behavioural delta raises the score; result.ok is not touched.
Compare(s, changed) ==
    /\ At(s, "compare", "artifacts")
    /\ Becomes(s, IF changed /\ compared(package[s].name, previous[s], package[s].version)
                  THEN [Assessed(result[s], delta(result[s].score)) EXCEPT !.delta = TRUE]
                  ELSE result[s])
    /\ UNCHANGED <<storage, previous>>

\* The catch clause: a busy database, or any other error of SQLite.
StorageFails(s) ==
    /\ \E from \in {"open", "previous", "insert", "events", "commit", "compare"} : At(s, from, "artifacts")
    /\ rollback(s)
    /\ SameResult

\* write_artifacts; the Result is complete.
WriteArtifacts(s) ==
    /\ At(s, "artifacts", "returned")
    /\ UNCHANGED storage /\ SameResult

\* The scanner is killed.
Killed(s) ==
    /\ pc[s] \notin {"returned", "killed"}
    /\ At(s, pc[s], "killed") /\ rollback(s)
    /\ Becomes(s, NoResult)
    /\ previous' = [previous EXCEPT ![s] = ""]

-----------------------------------------------------------------------------
Scanning(s) ==
    \/ Refuse(s) \/ PrepareFails(s) \/ NotIsolated(s)
    \/ \E sum \in Scores : Assess(s, sum)
    \/ OpenDatabase(s) \/ PreviousVersion(s) \/ StoreRow(s) \/ StoreEvents(s) \/ Commit(s) \/ CommitUnread(s)
    \/ \E changed \in BOOLEAN : Compare(s, changed)
    \/ StorageFails(s)
    \/ WriteArtifacts(s)

Next == \E s \in Scanner : Scanning(s) \/ Killed(s)

Spec == Init /\ [][Next]_vars

-----------------------------------------------------------------------------
(***************************************************************************)
(* Properties.                                                             *)
(***************************************************************************)
Row == [name : Names \cup {""}, version : Versions \cup {""}, baseline : BOOLEAN, events : BOOLEAN]

Storing == {"open", "previous", "insert", "events", "commit", "compare", "artifacts"}

\* Types of every variable.
TypeOK ==
    /\ schema \in 0 .. 2
    /\ rows \in Seq(Row)
    /\ lock \in Scanner \cup {Free}
    /\ pending \in Row
    /\ pc \in [Scanner -> Storing \cup {"inspect", "returned", "killed"}]
    /\ package \in [Scanner -> [name : Names, version : Versions]]
    /\ previous \in [Scanner -> Versions \cup {""}]
    /\ result \in [Scanner -> [ok : BOOLEAN, score : 0 .. 100, level : Level, action : Action,
                               baseline : BOOLEAN, delta : BOOLEAN]]

\* However many scanners store observations of a package at once, its first
\* row is the baseline, and the only one.
OneBaseline ==
    \A i \in DOMAIN rows : rows[i].baseline <=> \A j \in Named(rows[i].name) : i <= j

\* A row is in the database with its events or not at all, although a scanner
\* may be killed between the statements of store().
StoredWhole == \A i \in DOMAIN rows : rows[i].events

\* When scan() compares, the previous version it looked up earlier and its own
\* are both still there to compare.
ComparisonFindsBoth ==
    \A s \in Scanner : pc[s] = "compare" => compared(package[s].name, previous[s], package[s].version)

\* Once the engine has assessed a package, what follows (store, delta, an error
\* of the database) never makes its action milder, and never turns ok on.
NeverSoftened ==
    [][\A s \in Scanner : pc[s] \in Storing /\ pc'[s] # "killed" =>
          /\ Severity(result'[s].action) >= Severity(result[s].action)
          /\ result'[s].ok => result[s].ok]_vars
=============================================================================
