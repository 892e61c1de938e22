----------------------------- MODULE Observation ----------------------------
(***************************************************************************)
(* execell::package::observation::observe (src/src/package/observation.cpp)*)
(* and run_one: worker threads claim the scripts, hooks and executables of *)
(* a package through an atomic counter and run each one in a rootfs session*)
(* of its own; the main thread destroys the jthreads one after the other,  *)
(* which asks each to stop and joins it, and merges the partial results.   *)
(***************************************************************************)
EXTENDS Naturals, FiniteSets

CONSTANTS
    NumTasks,     \* tasks.size(), observe() starts no thread for none
    MaxWorkers,   \* Options::max_workers
    UseCgroups    \* Options::cgroup_root is set

ASSUME SizeAssumption ==
    /\ NumTasks \in Nat \ {0} /\ MaxWorkers \in Nat
    /\ UseCgroups \in BOOLEAN

\* worker_count
Count ==
    LET most == IF MaxWorkers > 1 THEN MaxWorkers ELSE 1
    IN  IF most < NumTasks THEN most ELSE NumTasks

Worker == 1 .. Count
Task == 0 .. NumTasks - 1

VARIABLES
    main,       \* control point of observe()
    joining,    \* the worker being started or joined
    pc,         \* control point of each worker
    index,      \* the task a worker has claimed
    stop,       \* workers whose stop was requested
    next,       \* the shared counter
    expired,    \* the global deadline has passed
    sequence,   \* run_one's static counter
    session,    \* number of the rootfs session a worker uses
    cgroup,     \* number of the cgroup a worker created
    cgroups,    \* the cgroups that exist
    partial     \* the coverage each slot of partial records

pool == <<next, stop, expired>>
vars == <<main, joining, pc, index, pool, sequence, session, cgroup, cgroups, partial>>

None == NumTasks + 1   \* no session or cgroup has that number

Init ==
    /\ main = "start"
    /\ joining = 1
    /\ pc = [w \in Worker |-> "unborn"]
    /\ index = [w \in Worker |-> NumTasks]
    /\ stop = {}
    /\ next = 0
    /\ expired = FALSE
    /\ sequence = 0
    /\ session = [w \in Worker |-> None]
    /\ cgroup = [w \in Worker |-> None]
    /\ cgroups = {}
    /\ partial = [i \in Task |-> "empty"]

-----------------------------------------------------------------------------
(***************************************************************************)
(* The main thread.                                                        *)
(***************************************************************************)
\* workers.emplace_back
StartWorker ==
    /\ main = "start" /\ joining \in Worker
    /\ pc' = [pc EXCEPT ![joining] = "check"]
    /\ joining' = joining + 1
    /\ UNCHANGED <<main, index, pool, sequence, session, cgroup, cgroups, partial>>

AllStarted ==
    /\ main = "start" /\ joining \notin Worker
    /\ main' = "stop"
    /\ joining' = 1
    /\ UNCHANGED <<pc, index, pool, sequence, session, cgroup, cgroups, partial>>

\* workers.clear(): ~jthread requests the stop of one thread and joins it.
RequestStop ==
    /\ main = "stop" /\ joining \in Worker
    /\ stop' = stop \cup {joining}
    /\ main' = "join"
    /\ UNCHANGED <<joining, pc, index, next, expired, sequence, session, cgroup, cgroups, partial>>

\* Mutant: the thread is detached.
JoinDetached ==
    /\ main = "join"
    /\ joining' = joining + 1
    /\ main' = "stop"
    /\ UNCHANGED <<pc, index, pool, sequence, session, cgroup, cgroups, partial>>

Join ==
    /\ main = "join" /\ pc[joining] = "ended"
    /\ joining' = joining + 1
    /\ main' = "stop"
    /\ UNCHANGED <<pc, index, pool, sequence, session, cgroup, cgroups, partial>>

Merge ==
    /\ main = "stop" /\ joining \notin Worker
    /\ main' = "merged"
    /\ UNCHANGED <<joining, pc, index, pool, sequence, session, cgroup, cgroups, partial>>

\* Time passes.
Expire ==
    /\ ~expired /\ main # "merged"
    /\ expired' = TRUE
    /\ UNCHANGED <<main, joining, pc, index, next, stop, sequence, session, cgroup, cgroups, partial>>

-----------------------------------------------------------------------------
(***************************************************************************)
(* A worker thread.                                                        *)
(***************************************************************************)
Goto(w, point) == pc' = [pc EXCEPT ![w] = point]

\* if (stop.stop_requested()) return;
CheckStop(w) ==
    /\ pc[w] = "check"
    /\ Goto(w, IF w \in stop THEN "ended" ELSE "claim")
    /\ UNCHANGED <<main, joining, index, pool, sequence, session, cgroup, cgroups, partial>>

\* Mutant: the bound of the tasks is one too large.
ClaimPastEnd(w) ==
    /\ pc[w] = "claim"
    /\ next' = next + 1
    /\ index' = [index EXCEPT ![w] = next]
    /\ Goto(w, IF next > NumTasks THEN "ended" ELSE "budget")
    /\ UNCHANGED <<main, joining, stop, expired, sequence, session, cgroup, cgroups, partial>>

\* next.fetch_add(1)
Claim(w) ==
    /\ pc[w] = "claim"
    /\ next' = next + 1
    /\ index' = [index EXCEPT ![w] = next]
    /\ Goto(w, IF next >= NumTasks THEN "ended" ELSE "budget")
    /\ UNCHANGED <<main, joining, stop, expired, sequence, session, cgroup, cgroups, partial>>

\* Mutant: an exhausted budget is waited out.
BudgetWaits(w) ==
    /\ pc[w] = "budget" /\ ~expired
    /\ Goto(w, "open")
    /\ UNCHANGED <<main, joining, index, pool, sequence, session, cgroup, cgroups, partial>>

\* The global budget: a task past it is recorded as skipped, and the worker returns.
Budget(w) ==
    /\ pc[w] = "budget"
    /\ IF expired
       THEN Goto(w, "ended") /\ partial' = [partial EXCEPT ![index[w]] = "skipped"]
       ELSE Goto(w, "open") /\ UNCHANGED partial
    /\ UNCHANGED <<main, joining, index, pool, sequence, session, cgroup, cgroups>>

\* run_one ends early: an unsafe path or an exception of the filesystem leaves
\* no coverage, a file that is not staged is skipped.
Refuse(w, outcome) ==
    /\ pc[w] = "open"
    /\ partial' = [partial EXCEPT ![index[w]] = outcome]
    /\ Goto(w, "check")
    /\ UNCHANGED <<main, joining, index, pool, sequence, session, cgroup, cgroups>>

\* sequence.fetch_add(1) names the workspace; Session::create.
OpenSession(w) ==
    /\ pc[w] = "open"
    /\ session' = [session EXCEPT ![w] = sequence]
    /\ sequence' = sequence + 1
    /\ Goto(w, IF UseCgroups THEN "cgroup" ELSE "run")
    /\ UNCHANGED <<main, joining, index, pool, cgroup, cgroups, partial>>

\* No isolated session, or the snapshot lacks the file or cannot be looked at.
RejectSession(w, outcome) ==
    /\ pc[w] = "open"
    /\ sequence' = sequence + 1
    /\ partial' = [partial EXCEPT ![index[w]] = outcome]
    /\ Goto(w, "check")
    /\ UNCHANGED <<main, joining, index, pool, session, cgroup, cgroups>>

\* Mutant: a cgroup that exists already is used.
MakeCgroupShared(w) ==
    /\ pc[w] = "cgroup"
    /\ cgroups' = cgroups \cup {sequence}
    /\ cgroup' = [cgroup EXCEPT ![w] = sequence]
    /\ Goto(w, "run")
    /\ UNCHANGED <<main, joining, index, pool, sequence, session, partial>>

\* The cgroup is named by what the counter is now; create_directory accepts no
\* name in use.
MakeCgroup(w) ==
    /\ pc[w] = "cgroup" /\ sequence \notin cgroups
    /\ cgroups' = cgroups \cup {sequence}
    /\ cgroup' = [cgroup EXCEPT ![w] = sequence]
    /\ Goto(w, "run")
    /\ UNCHANGED <<main, joining, index, pool, sequence, session, partial>>

\* Another worker has a cgroup of that name, or none can be made: the task is
\* not run, and has no coverage.
CgroupFails(w) ==
    /\ pc[w] = "cgroup"
    /\ partial' = [partial EXCEPT ![index[w]] = "empty"]
    /\ session' = [session EXCEPT ![w] = None]
    /\ Goto(w, "check")
    /\ UNCHANGED <<main, joining, index, pool, sequence, cgroup, cgroups>>

\* run_captured, then the removal of the cgroup (which fails while a process
\* is left in it) and of the session; "executed" stands for timed-out, too.
RunTask(w, removed) ==
    /\ pc[w] = "run"
    /\ partial' = [partial EXCEPT ![index[w]] = "executed"]
    /\ cgroups' = IF removed THEN cgroups \ {cgroup[w]} ELSE cgroups
    /\ cgroup' = [cgroup EXCEPT ![w] = None]
    /\ session' = [session EXCEPT ![w] = None]
    /\ Goto(w, "check")
    /\ UNCHANGED <<main, joining, index, pool, sequence>>

-----------------------------------------------------------------------------
Step(w) ==
    \/ CheckStop(w)
    \/ Claim(w)
    \/ Budget(w)
    \/ \E outcome \in {"empty", "skipped"} : Refuse(w, outcome)
    \/ OpenSession(w)
    \/ \E outcome \in {"empty", "rejected"} : RejectSession(w, outcome)
    \/ MakeCgroup(w)
    \/ CgroupFails(w)
    \/ \E removed \in BOOLEAN : RunTask(w, removed)

Main == StartWorker \/ AllStarted \/ RequestStop \/ Join \/ Merge

Next == Main \/ Expire \/ \E w \in Worker : Step(w)

Spec == Init /\ [][Next]_vars

\* The threads are scheduled.  Nothing is assumed of run_captured, which need
\* not return (property Returns of Capture).
FairSpec == Spec /\ WF_vars(Main) /\ \A w \in Worker : WF_vars(pc[w] # "run" /\ Step(w))

-----------------------------------------------------------------------------
(***************************************************************************)
(* Properties.                                                             *)
(***************************************************************************)
Busy == {"budget", "open", "cgroup", "run"}

\* Types of every variable; a worker with a task has one that exists, so that
\* tasks and partial are indexed within their bounds.
TypeOK ==
    /\ main \in {"start", "stop", "join", "merged"}
    /\ joining \in 1 .. Count + 1
    /\ pc \in [Worker -> Busy \cup {"unborn", "check", "claim", "ended"}]
    /\ index \in [Worker -> Nat]
    /\ \A w \in Worker : pc[w] \in Busy => index[w] \in Task
    /\ stop \subseteq Worker
    /\ next \in Nat
    /\ expired \in BOOLEAN
    /\ sequence \in Nat
    /\ session \in [Worker -> Nat]
    /\ cgroup \in [Worker -> Nat]
    /\ cgroups \subseteq Nat
    /\ partial \in [Task -> {"empty", "skipped", "rejected", "executed"}]

\* Observations that are open at the same time never share a rootfs session,
\* and never a cgroup, although the name of the cgroup comes from a counter
\* that other workers move between the two uses run_one makes of it.
TasksIsolated ==
    \A v, w \in Worker : v # w =>
        /\ session[v] = session[w] => session[v] = None
        /\ cgroup[v] = cgroup[w] => cgroup[v] = None

\* The slot of a claimed task is busy until its worker records it.
slot == [i \in Task |->
    IF \E w \in Worker : pc[w] \in Busy /\ index[w] = i THEN "busy"
    ELSE IF i < next THEN "filled" ELSE "free"]

Pool == INSTANCE WorkPool WITH Slot <- Task, slot <- slot, merged <- main = "merged"

\* The workers and the main thread implement the pool: no slot is written by
\* two workers or twice, and none is read by the merge while it is written.
ImplementsPool == Pool!Spec

\* observe() returns, however the workers interleave, whenever the budget runs
\* out and however early the stop is requested, unless the main thread joins a
\* worker whose run_captured never returns: no budget, failed
\* session or stop request holds it up.
Terminates ==
    \/ <>(main = "merged")
    \/ \E w \in Worker : <>[](main = "join" /\ joining = w /\ pc[w] = "run")
=============================================================================
