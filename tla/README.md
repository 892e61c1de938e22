# A TLA+ model of ExeCell

ExeCell runs a program under `ptrace`, decodes its system calls into events,
applies a policy to them, confines programs with namespaces and seccomp, and
builds a scanner for Arch packages on top of that. This directory holds TLA+
modules of its parts, the TLC configurations that check them on small
instances, and TLAPS proofs of all the safety properties for instances of any
size. `PROJECT.json` lists the components, the runs, the source lines each
definition models, the hazards, and the theorems.

Running it, in this directory:

    tlc -config MCTracer.cfg MCTracer      # any .cfg with the module of its run
    tlapm TracerProofs.tla                 # or any other module *Proofs

## 1. The system and its parts

Source paths below are relative to `src/` or `include/execell/` of the repository.

```
 execell trace / inspect / analyze    execell package scan         execell package build (AUR)
        |                                 |                               |
   reporters, policy                 package::scan ---- inspect, archive  |
        |                              |  |    |  \--- storage (SQLite)   |
        |                              |  |    \------ risk engine        |
        |                         rootfs  observation pool                |
        |                        session  | one thread per task     rootfs session
        |                              \  v                               v
        |                               -> sandbox::run_captured <---------
        |                                  | forks
        v                                  v
   trace::run  -- decoder, fd table    sandbox::run -- forks, confines, executes the target
        |
        v
   kernel: ptrace stops, waitpid
```

| part | source | state it keeps | modules |
|---|---|---|---|
| trace loop | `trace/tracer.cpp`, `trace/stop.cpp`, `task_registry.hpp`, `trace_session.hpp`, `linux/ptrace.hpp` | registered tasks and their phase, the signal to inject | `Tracer` |
| syscall decoder, fd table | `trace/syscall_decoder.cpp`, `trace/fd_table.cpp` | operands of the call in progress, path of each descriptor | `Decoder`, `FdTable` |
| policy engine, reporters | `policy/*.cpp`, `report/*.cpp` | process counter, violations, denial, counters, a JSON array | `Policy` |
| analyze workflow, trace and inspect commands | `analyze/analyze.cpp`, `main.cpp` | a `Result`, the session's files | `Analyze` |
| sandbox | `sandbox/sandbox.cpp` `run` | two processes, a pipe, namespaces and limits in force | `Sandbox` |
| captured runs | `sandbox/sandbox.cpp` `run_captured` | pipes, buffers, deadline | `Capture` |
| observation pool | `package/observation.cpp` | threads, shared counter, result slots, cgroups | `Observation`, `WorkPool` |
| rootfs sessions | `package/rootfs.cpp` | directories or subvolumes, a guardian process | `Rootfs` |
| AUR build | `package/build.cpp`, `main.cpp` | build tree, artifact directory, a `Result` | `Build` |
| archive reader | `package/archive.cpp` | the pass over an archive | `Archive`, `Inspect` |
| inspection | `package/package.cpp` `inspect` | metadata, the list of files | `Inspect` |
| package scan | `package/package.cpp` `scan` | a `Result` under construction | `Scan` |
| database | `package/storage.cpp` | schema version, rows, transaction | `Storage` |
| risk engine | `risk/risk.cpp` | none, pure | `Risk` |
| PKGBUILD checks, mirror validation, other package commands, tables, helpers | the rest | data or none | section 6 |

How they interact. The trace loop is the only code that talks to a tracee; it
calls the decoder of the task at hand at a syscall stop and hands every event
to the policy's reporter, which hands it on. `run_captured` forks a process
that calls `sandbox::run`, which forks the target. The observation pool calls
`run_captured` from several threads of one process, each in its own rootfs
session. `scan` inspects the archive, owns a session, runs the pool, then
assesses and stores; several scanners share one database. A build owns a
session as well, and shares its workspace and its artifact directory with
every other build.

## 2. Modules

### Tracer

`Tracer` is `trace::run` and the kernel side it depends on. The kernel state of
a task (`run`, `call`, `stop`, `sig`, `fresh`, `msg`) is external: it says when
a stop exists, whether `waitpid` has collected it, and what
`PTRACE_GETEVENTMSG` returns. The tracer state has the names of the code
(`current`, `resume_current`, `pending_signal`, `tasks`, `phase`); `pc` is the
place in the loop: resuming, in `waitpid`, or handling the status.

Each branch of the loop is an action: resume, wait, and one `Handle...` action
per kind of stop, with the early `continue`s and the failing requests as
disjuncts. A new child can be collected before its parent's clone event, a task
can make system calls before it is registered, and SIGKILL can hit any task
between any two steps, so every `ptrace` request may fail with ESRCH. The
policy's rules are an arbitrary verdict here (`Policy` has them); the process
limit, the sticky stop request and the SIGKILL it injects are exact.

Two history variables serve the properties: `offender` marks a denied syscall
event, `unsynced` the tasks that executed a new image or had a syscall stop
before they were registered.

### FdTable and Decoder

`FdTable` has the operations of the class as operators on a function from
descriptors to paths. `Decoder` has each task's kernel descriptors (`fds`)
beside the decoder's table and the members it keeps between entry and exit.
Families decoded by the same lines are one name; the kernel's result of a call
is any result it may give (a failing `close` that releases the descriptor
included). `Shown` says what the decoder reads of each path: the path itself,
the part before the word that `PTRACE_PEEKDATA` fails on, which may spell another
path, or nothing. `read_process_memory_string` returns that with a status, which
`read_process_string` drops, as the code does. A stop and its handling are one step, which
is sound because the tracee is stopped and a decoder is touched only at the
stops of its own task; `Tracer` has the interleavings of the stops.

The decoder's table is not meant to be right, and is not, for a task that
executed a new image (the phase is off by one, section 5), one that shares its
descriptors with a thread, one that ran before it was registered, or one whose
`close` reported an error. `stale` is the history variable for these.

### Policy and Analyze

`Policy` has `Engine::evaluate` rule by rule (textual prefixes of paths and
endpoints, names of calls, the process limit), `policy::Reporter::report`,
which passes an event on before its violation, and the two reporters below it:
the summary's counters and the JSON array, a sequence of brackets, commas and
elements. `Analyze` is the three commands that trace a program under these
reporters, with the whole of `analyze::run`: the session directory, the
sandboxed or the traced run, the redirection, the assessment, the records
appended to the array, the files of the session, each of which may fail to be
written unnoticed, and the exit status of `main`. What the trace reports is any
sequence of events of each kind the reporters tell apart, with an empty path or
endpoint where the decoder could not read one; its protocol is `Tracer`'s. Names are sequences of tokens, so that a rule may cover a path, one
below it, and one that merely begins like it.

### Sandbox

Both processes of `sandbox::run`: the parent's `setpgid`, cgroup assignment,
maps, byte on the pipe and wait; the child's sequence of steps
(`set_parent_death_signal` in its three calls, `unshare`, read from the pipe,
mounts, chroot, capability drop, seccomp, limits, `execve`). A configuration is
the set of options asked for, `validate` the condition `run` imposes on it.
Every step that the code checks can fail. The maps succeed only in the states
in which the kernel accepts them. The caller can be killed at any step.

### Capture

`run_captured` by one or several threads of a process. The process has one
descriptor table with the lowest-free-number rule; write ends of the pipes are
held by the calls' children and by a descendant of each child. A `drain` call
reads a chunk, sees an empty pipe, or sees end of file and closes; the loop
then checks limit and deadline. A pipe holds `PipeSize` chunks, and a target may
write for ever: a `drain` that never finds the pipe empty never returns to these
checks. The deadline may pass before the child has
called `setpgid`; its kill then finds no process group. Chunks carry no
contents; `mixed` records that a call read from a pipe that is not its own,
`missed` that a kill was lost.

### Observation and WorkPool

`Observation` has the main thread (start the threads, then for each one
`request_stop` and join, then merge) and the workers (check the stop request,
claim, budget, session, cgroup, run, record), with each early return of
`run_one`. `WorkPool` is the abstract promise: a slot goes from free to busy to
filled, once, and the merge happens when none is busy. `ImplementsPool` is the
refinement with slots computed from the workers' control points. Of a filled
slot the model keeps the coverage: empty, skipped, rejected or executed, which a
run that timed out is as well.

### Rootfs and Build

`Rootfs` is one session: `create` with its failures and fallbacks, the
guardian's `prctl`, `getppid`, handler installation and clean-up, `release` path
by path, and the death of the owner anywhere. The paths nest as they do on disk:
the snapshots are inside the workspace, or beside a rootfs that is given. A
read-only snapshot with files in it cannot be removed, as `remove_all` cannot.
Names come from the process id, so a killed process has a successor that finds
its leftovers: the collision path of `create` and the destructor that then
removes what it collided with are part of the model.

`Build` composes a session with its user. For a scan that is only the time it
holds the session; for a build it is `build::run` with each early return, the
two phases of makepkg, the copies to the artifact directory, the repetitions,
and the loop of `main` that scans each artifact and decides the exit status.
Another build may at any time remove the common workspace or replace a file of
the artifact directory.

### Archive and Inspect

`Archive` has the rules of the reader as operators: `safe_path` with its
normalisation of leading dots, `safe_link`, `entry_of` with the kinds of
entries (the type decides for a symbolic link, the name it links to for a hard
link, whatever its type). A path is the sequence of its components. `Inspect` has the two passes
of `inspect` over an archive: `read` for `.PKGINFO` and `list`, block by block,
with their limits, a header that declares more or less than there is, corrupt
data and truncated archives, then the verification of the signature. libarchive
is what it returns.

### Scan, Storage and Risk

`Storage` has the database as a sequence of rows with a write lock and a
pending row; each SQL statement is an operator. It starts empty or with a row
of the first schema, which `open` migrates. `Risk` has `assess` and the
re-assessment `delta` as operators on scores. `Scan` composes the two for
several scanner processes: the early returns of `scan`, assessment, the three
transactions (previous version, store, compare), errors of SQLite, and death at
any step, which rolls back. The session around it is in `Build`; it shares no
state with the database and is checked apart.

## 3. What the runs check

| run | instance | states | shows |
|---|---|---|---|
| `tracer` | a root and a child, any verdicts, every signal and kill | 23,647 | the safety properties of the loop; a dead root ends the trace |
| `phase_follows_exec` | one task | violated | section 5, 1 |
| `decoder` | two tasks, two descriptors, three paths (read whole, cut, not at all) | 116,851 | tables of parent and child are truthful and complete, events name the right descriptor and path |
| `sandbox` | all accepted subsets of eleven options | 104,760 | confinement, death with the caller, no mutual waiting |
| `capture` | one call, pipes of two chunks, limit 2, a target that may write for ever | 125,663 | bounded and complete output, no leak, return |
| `output_owned` | two calls | violated | section 5, 2 |
| `observation` | three tasks, two workers, cgroups | 179,572 | isolation, refinement of the pool, termination |
| `every_task_taken` | two tasks, one worker | violated | section 5, 3 |
| `build` | a scan or a build of up to two files with one repetition, restarted after every kill, beside other builds | 231,289 | no removal in use, nothing left behind, success vouches for every artifact |
| `scan` | two scanners, two names, two versions | 219,792 | one baseline, whole rows, verdict never softened |
| `analyze` | three commands, seven policies, up to three events between start and end | 748,489 | the reports agree with each other and with what happened; the exit status |
| `inspect` | archives of up to three entries out of 27 | 293,680 | accepted archives are safe, identity and listing agree, bounded reading |

A module `MCx` gives the constants of module `x` their values; `Build` needs
none. `MCTracer`, `MCCapture` and `MCObservation` also state `PhaseFollowsExec`,
`OutputOwned` and `EveryTaskTaken`: what documents say and the code does not do.
`TypeOK` is each module's type invariant (`RunTypeOK` in `Sandbox`).

The properties, by what they would catch:

* `NoTaskLeftStopped`: one of the many `continue`s forgets to resume a task.
* `PhaseAgrees`: signal stops, clone events or another task's stops flip the
  entry/exit parity of a task.
* `OffenderKilled`, `SignalForwarded`: `pending_signal` is one variable for all
  tasks; its value reaches the task it was set for. What the code injects is the
  signal it collected, and nothing for a job-control signal or a SIGTRAP.
* `RootStatusFaithful`, `RootDeathEndsTrace`: an ESRCH or an empty registry is
  taken for the status of the root; the loop goes on without its root.
* `TableTruthful`, `TableComplete`, `EventsTruthful`: a descriptor number is
  reused, duplicated or closed by range, and an old path stays or a new one is
  lost. A name is what was read of the path; with a failed read it is empty or
  cut, and still on the right descriptor.
* `TargetConfined`, `StatusOwned`, `NoOrphanTarget`, `Finishes`: an order of the
  two set-ups, or a failure in one, starts the target early, hides its status,
  leaves a process behind or blocks both.
* `OutputComplete`, `NoDescriptorLeak`, `Returns`: an order of output, close,
  exit and deadline. `Returns` has two exceptions, stated as what goes on for
  ever: `KillLost`, the kill came before the child's `setpgid`, and `Flooded`,
  `drain` finds data at every read.
* `TasksIsolated`, `ImplementsPool`, `Terminates`: two workers meet in one
  session, cgroup or slot, or the merge reads a slot in use; `observe()` hangs
  other than in a `run_captured` that does not return.
* `NotRemovedInUse`, `SessionGone`, `GuardedSessionRemoved`: the guardian and
  `release` race, a kill falls between them, or a successor trips over what is
  left.
* `SuccessVouches`: a build passes although a repetition differed, an artifact
  was not scanned, or the file scanned is not the one that was built. Accepted
  means the `ok` of `scan`, by which `main` decides.
* `OneBaseline`, `StoredWhole`, `ComparisonFindsBoth`, `NeverSoftened`:
  transactions of two scanners interleave, one is killed between statements, or
  the delta's thresholds undo the engine's.
* `ReportsAgree`: the array is not framed as JSON, an event or its violation is lost,
  doubled or out of order, a forbidden event has no violation, or summary, array
  and session file differ.
* `ExitContract`: a failure on some path of `analyze` ends with 0, or a clean
  run does not.
* `AcceptedIsSafe`, `IdentityOfListing`, `BoundedEffort`: an entry gets past
  the path, link, kind or size rules in one of the passes, the two passes are
  about different entries, or a header's lie escapes the limit.

Bounds, and why they are enough to be interesting. In `Tracer` a root and a
child give a child collected before its parent's event, killed at every point,
and a root that dies first; more tasks are covered by the proofs. In `Decoder`
two tasks give fork before and after registration, two descriptors a `dup2`
onto, and a `close_range` across, an open one; of the three paths one is read as
it is, one up to a part that spells the first, one not at all. `Observed` stops the exploration
at the first excepted task; that an excepted task does not disturb the tables
of others is part of the proof. `OneInCall` keeps one task at a time inside a
plain call: the calls of tasks that share no descriptors commute. `Alone`
follows a table that lacks paths (`close_range` was asked to set close-on-exec,
and the decoder forgot the descriptors) while the root is the only task:
registered tasks do not touch each other's tables. `Beside` lets the root only
open, copy and close beside a registered child, which tells a copied table from
a shared one. In `Sandbox`
the two options whose steps are independent of all others
(`working_directory`, `clean_environment`) are represented by `limits` and
`rootfs`. In `Capture` a limit equal to the chunks of one pipe lets output stay
below it, meet it and exceed it; the counters of chunks stop at the limit and at
`MostWritten`, above which no property tells amounts apart, so that a target may
write without end. Two workers with three tasks give a worker
that claims again while the other is joined. In `Build` one process with its
successors meets its own leftovers, and everything a second build can do to it
is an action; two files and one repetition give a copy that fails with another
made, and a repetition in which one of two files differs. In `Scan` the four
sums lie in four of the engine's five bands (low is allowed, as none is), with
35 and 95 chosen so that the delta's 15 crosses a threshold and the cap. In
`Analyze` three events give two violations with an event between them, and the
process limit met and exceeded; the policies have one for each kind of rule and
the empty rule, and an endpoint may be unread. In `Inspect` the 27 entries have one for each rule of the
reader and its neighbour; with limits of four bytes and two entries, archives
of three stay below, meet and exceed each limit.

No run uses symmetry: the three paths of `decoder` are read differently, the
instances are small enough without it, and it would be unsound for liveness.

Deadlock checking is off where the program ends: all modules but `Decoder`.

### Fairness

* `Tracer`: the tracer thread is scheduled; `waitpid` is strongly fair to the
  root, since the kernel scans a thread's own children before other tracees.
  Nothing is assumed of tracees.
* `Sandbox`: both processes are scheduled; the target ends, as `run` itself has
  no timeout and leaves that to limits and to `run_captured`.
* `Capture`: threads are scheduled and time passes; a process that exits or was
  killed gets to its end. A target need not end, nor stop writing.
* `Observation`: threads are scheduled. Nothing is assumed of `run_captured`, which
  need not return (run `capture`); `Terminates` says that only this can keep
  `observe()`.
* `Build`: owner and guardian are scheduled, and the owner's work ends, as each
  of its runs has a deadline (the two exceptions of `Returns` apart). A killed process need not have a successor.

`Scan`, `Analyze` and `Inspect` have safety properties only: their processes are
straight-line code between calls that return.

## 4. What is proved

The theorems hold for every value of the constants. The constants' assumptions
are few: the root is a task (`RootAssumption`, `TaskAssumption`), the policy
parameters have their types (`PolicyAssumption`), descriptors are natural
numbers (`FdAssumption`), what is read of a path is a path or nothing
(`ShownAssumption`), no path equals one of the markers for "no path", an
unread string or a closed or untracked descriptor (`PathAssumption`,
`NameAssumption`), the numbers of tasks, workers, repetitions, chunks, bytes and
entries are numbers, the fields of an archive's entry have their types
(`RawAssumption`), options are options (`OfferedAssumption`), a policy, a path
and an endpoint, empty or not, are of their types (`ConfigsAssumption`,
`TextAssumption`). TLC evaluates them in the runs. Two
theorems about `Capture` have the hypothesis `Alone`, one call at a time.

The types come first: `TypeCorrect` in `TracerProofs`, `DecoderTypes`, and
`TypesHold` in each of `CaptureProofs` (with `RunTypes` for `Sandbox`),
`ObservationProofs`, `ScanProofs`, `BuildProofs` and `AnalyzeProofs`. None of the
other properties is inductive as it stands. For each module the proof is of an
invariant that adds what the code relies on; each of these was checked with TLC
on the instance of the run before it was proved.

**Trace loop** (`TracerProofs`). `NoTaskLeftStopped` speaks of
the moment the loop blocks, and to know it there one needs to know at every
other point which stop is collected and not resumed. `IndInv` adds to the types

* `LoopInv`: the only collected stop belongs to `current` and is about to be
  handled or resumed; a status under way is that stop's; the root is waitable
  until its own exit is handled;
* `PhaseInv`: the phase agreement, for tasks not yet registered as well, since
  these become registered with phase entry;
* `OffenderInv`: the SIGKILL of a denied event, from `emit` through the resume;
* `RetInv`: the return value is set once, from the status of the root.

`Invariance` proves it with one lemma per action, split for the kernel actions
by conjunct. From it: `StoppedTasksResume`, `WaitNeverFails`, `ParityKept`,
`DenialKills`, `StatusFromRoot`. `SignalsPassedOn` proves the action property
`SignalForwarded` with a second invariant about the signal pending for a
signal stop: a task leaves the stop with the signal the code has for it
(`Injected`), which is none for a SIGTRAP or a job-control signal.

**Decoder** (`DecoderProofs`). `DecoderTypes`, and `TrackedPathsTrue`: every
tracked path is what was read of the path its descriptor was opened with,
whatever reads fail. The core is the lemma `ExitKeepsTruth`: if a table is
truthful before a call, it is truthful after `on_exit` for whatever the kernel
did, for each family of calls. The invariant `Tracked` adds that the decoder
holds the operands of the call its task is really in (`Sync`) and that the
child of a clone event still has its parent's descriptors (`Forked`).

`NoFileLost` is the converse, `TableComplete`: a descriptor opened by a path,
or copied from one, is tracked under what was read of it until it is closed. It is
not a consequence of truth, since an empty table is truthful; `ExitKeepsAll` is
its lemma about `on_exit`, and `Kept` carries it through entry, exit, fork and
registration. `EventsTrue` proves the action property `EventsTruthful`:
`EntryNames` says what the entry stop keeps for each family of calls,
`ExitReports` that the event made of it at the exit names the descriptor and the
path of the call, for which the table has to be true before it.

**Sandbox** (`CaptureProofs`, which has both entry points of `sandbox.cpp`), for
any set of options. `Handshake` says what the
byte in the pipe stands for: it is written behind the cgroup and the maps, and
a child that passed its read found it. `Guarded` says that a child that passed
the second `getppid` is armed, or has changed its uid, and that a dead caller
leaves only children that will not pass it. `Ended` ties the return value to
the child. From them `ConfinementHolds`, `OrphanHolds` and `StatusHolds`.

**Capture** (`CaptureProofs`), for any limit, output and descriptor numbers.
There is no bound on what a target writes. `Limited` relates `total_output`, the bytes stored and `output_limited`; it needs
nothing of the pipes, so `OutputBounded` holds of any number of calls at a time.
For one call, `Descriptors` says which numbers of the table are ends of its pipes
at each control point and that it still closes them, `Accounted` that a chunk
written is in a pipe or in `total_output`, as long as that is below the limit, `Drained` that a stream no longer open
has nothing to read and no writer. `Descriptors` comes first: without it `drain`
could read from something else. From them `NothingLost` (`OutputComplete`) and
`AllClosed` (`NoDescriptorLeak`). Neither holds of two calls (section 5, 2).

**Observation** (`ObservationProofs`), for any number of tasks and workers.
`Claimed` says that workers with a task hold different claimed ones, `Joined`
how the main thread's index relates to the workers' state, `Numbered` that a
session has a number the counter has passed. From them `IsolationHolds` and
`Refinement`: the initial states of `Observation` are initial states of
`WorkPool` under the mapping, and each step is one of its steps or a stutter.

**Rootfs and Build** (`BuildProofs`), for any files and repetitions. `Watched`
says in which states of the owner there is a guardian, and that it removes
paths only while the owner waits for it or is dead; `Kept` says who answers for
the writable snapshot, a session that holds its name or the list of what is to
be removed; `Emptied` that the workspace goes last. From them `InUseHolds` and
`GoneHolds`. `Settled`, `Contents` and `Vouched` follow a package file from its
copy to its scan; from them `SuccessHolds`.

**Scan** (`ScanProofs`), for any scanners, packages and scores. `Transaction`
says that the lock belongs to the one scanner between BEGIN and COMMIT, and
that the pending row is baseline exactly when no committed row has its name;
`Found` that a previous version, once found, stays in the database. From them
`BaselineHolds`, `WholeHolds` and `ComparisonHolds`. `VerdictHolds` proves the
action property `NeverSoftened`; it needs that until the delta the action is
the one the score calls for (`ByScore`), since the delta decides by the score
alone.

**Inspect** (`InspectProofs`), for archives of any length and any limits.
`Passes` relates the position of each pass to what was found and listed so far,
`Effort` what was counted to what was read. From them `EffortBounded` and
`IdentityHolds`. `AcceptedHolds` (`AcceptedIsSafe`) adds `Listed`: every entry
listed so far came from the header at its place, obeys the rules, and was read
to its end without error, and the bytes there, summed entry by entry, are below
what was counted. The rules are the lemmas `SafePath` and `SafeEntry`: a path
that `safe_path` accepts, without the leading dots it removes, stays beneath the
root at every part, and so does a link from where it is. The number of dots is
a least number, whose existence (`Least`) is proved by the cardinality of finite
sets instead of an induction.

**Analyze** (`AnalyzeProofs`), for any policies, any texts in the events, and
traces of any length. The properties speak of the whole array and the whole
trace, but both only grow at their end: an event adds itself and at most one
violation (`Continued`). So what an array tells is first proved of one more
element, whatever the others are: `TellsEvent` and `TellsViolation` for the order
of the events, `AttachedEvent` and `AttachedViolation` for the place of the
violations, `CountsGrown` for the counters, `ViolatedGrown` for their number. No
induction over the array is needed; the invariant carries the rest:

* `Shaped`: the text of the JSON reporter is a bracket or a comma before each
  element, and the closing bracket once it is finished;
* `Narrated`: the elements written so far tell the events reported so far, each
  violation is attached to its event, every forbidden event has one, the engine's
  list is as long as the violations in the array, and the summary counts both
  the elements and the events;
* `Sequenced`: each event has its place as its context, and the engine has
  counted the processes among them, which ties its limit to the trace;
* `Ordered`: which results exist at which point of the run, so that what
  `assessment` read is still what the reports say when `main` exits.

`Caught` is the lemma about the rules: an event that the policy is there to stop
does not pass `evaluate`, whichever earlier rule it meets. What the policy is there
to stop is said of the event as it was reported: an endpoint that could not be
read is covered by no rule. From them
`ReportsHold` (`ReportsAgree`) and, with the thresholds of the score (`Allows`,
`AssessmentAllows`), `ExitHolds` (`ExitContract`).

Only model-checked:

* the liveness properties `RootDeathEndsTrace`, `Finishes`, `Returns`,
  `Terminates` and `GuardedSessionRemoved`: under fairness, out of the prover's
  reach;
* the properties of the runs that expect a violation (section 5), which have a
  counterexample instead.

## 5. Where code and documents disagree

Three disagreements have a run of their own:

1. `phase_follows_exec`. `PTRACE_EVENT_EXEC` sets the phase to entry
   (`tracer.cpp:171`) inside the `execve`, whose exit stop is still to come, so
   entry and exit are swapped for the rest of the task. `plan.md:26`: "Per-task
   syscall entry/exit state."
2. `output_owned`. `run_captured` drains both descriptors as long as one is
   open (`sandbox.cpp:563`), so it reads and closes a number it has closed
   already, which may belong to another observation thread by then.
   `plan-package-risk-intelligence.md:76`: "Run executable smoke tests in
   independent sandboxes."
3. `every_task_taken`. `workers.clear()` (`observation.cpp:186`) requests the
   stop of each `jthread` right after the start; unclaimed tasks are dropped
   without a coverage entry. `plan-package-risk-intelligence.md:75`: "Run every
   maintainer script and hook independently."

Others were met while modelling. They are in the models' behaviours (or, where
said, outside them) and the properties are stated so as to allow them:

* Trace loop. `run` returns when the root is reaped and other tasks go
  unreported (`tracer.cpp:134`, `plan-phase2.md:54`). A child killed between
  `waitpid` and `PTRACE_GETEVENTMSG` ends the trace with a failure
  (`tracer.cpp:149`, `plan-phase2.md:51`). A root killed at its own stop is
  reported as a failure, not by its signal (`tracer.cpp:192`,
  `plan-phase2.md:23`). Job-control stop signals and a SIGTRAP sent to the tracee
  are dropped (`stop.cpp:39`, `stop.cpp:51`; `plan-phase2.md:52`: "Signals reach
  tracee exactly once."); `SignalForwarded` and its theorem say what is injected,
  which is nothing for these. A denied event does kill its task:
  `policy::Reporter::stop_requested` is the sticky denial and `emit` then injects
  SIGKILL (`tracer.cpp:89`), which `OffenderKilled` is about.
  `plan-production-hardening.md:8-11` has this enforcement as done, but
  `docs/threat-model.md:18` says "policy violations are audit events until
  enforcement mode is enabled" and its line 25 "policy reporting does not yet
  terminate tracees"; there is no such mode. A SIGKILL for a denied event at an event stop is ignored
  by the kernel.
* Decoder. A failing `close` and an `execve` keep entries of descriptors that
  are gone (`syscall_decoder.cpp:536`, `plan-phase3.md:36`). Threads get a copy
  of the table instead of sharing it (`task_registry.hpp:33`,
  `plan-phase3.md:37`). `renameat` and `renameat2` are decoded with the
  registers of `rename` (`syscall_decoder.cpp:199`). A string of which a word
  cannot be read is taken up to that word, or as empty, and the status of the
  read is dropped (`memory.cpp:24`, `syscall_decoder.cpp:26`; `plan-phase3.md:38`:
  "Memory read failures remain visible to decoder policy."), so table and events
  may have an empty path or the name of another file.
* Policy. Rules are textual prefixes: one for `/a` also covers `/ab`, and an
  empty one covers every event. A rename has two names and no path, so no path
  rule covers it. An endpoint is empty when its address is null or cannot be read,
  or for an abstract socket (`syscall_decoder.cpp:61`, `:87`, `:156`), and then no
  endpoint rule covers it, the empty one included (`policy.cpp:44`); an empty path
  is covered by the empty path rule only. `Forbidden` is about what the event says.
* Analyze. When the session directory cannot be made, `run` returns the default
  `Result`, which allows, and `execell` exits with 0 (`analyze.cpp:83`;
  `plan-analyze-workflow-foundation.md:68`: "`0`: verdict `allow` and target
  exit status `0`."). A run that reports no event, as every run in the sandbox,
  leaves `]` as its array, and `append_event` then records neither a timeout nor
  an output limit (`analyze.cpp:137`; line 84 of that plan: "Add explicit
  timeout/output-limit event records to `events.json`."). Every policy finding
  is given the context of the first violation
  (`plan-risk-findings-hardening.md:53`: "Attach concrete event context to
  policy findings."). The score is not the plan's
  (`plan-analyze-workflow-foundation.md:42-48`: every failed call adds 10, every
  network attempt 20, every process 5, `review` from 30): the code adds 10, 20 and
  5 once each, however often it happened (`analyze.cpp:60-65`), and reviews from
  25. Network activity with a child process, 25, is `review` in the code and
  `allow` in the plan; three failed calls are `allow` and `review`. `ExitContract`
  states the code's. Outside the model: a control character below 0x10 is written
  with one hexadecimal digit (`json_reporter.cpp:24`, `\u001`), which is no JSON.
* Sandbox. Maps written before the child's `unshare` or its `setgroups` make a
  start fail without need. Without a user namespace the child does not wait for
  its cgroup. A configuration with `drop_to_unprivileged_user` never starts: it
  changes the uid after dropping the capabilities, and the kernel refuses its
  overlapping maps; every AUR build asks for it. The result of `capset` is not
  checked.
* Capture. Pipes without `O_CLOEXEC` are inherited by other threads' children.
  A deadline that passes before the child's `setpgid` finds no group to kill,
  and `waitpid` then waits for as long as the target runs. `drain` reads until the
  pipe is empty and looks at neither limit nor deadline meanwhile
  (`sandbox.cpp:546`): a target that writes as fast as it is read keeps the call,
  past both (`plan-analyze-workflow-foundation.md:83`: "Enforce combined
  stdout+stderr quota."). `Returns` excepts exactly these two, and `Terminates`
  the `observe()` that waits for such a call.
* Observation. A worker that meets the global deadline records one task and
  returns. Two workers can want the same cgroup name; the second task is not
  run and has no coverage entry.
* Rootfs. An owner killed before the guardian is armed leaves the session
  behind, and so does a guardian whose adopter is a subreaper. A read-only
  snapshot with files is never removed. The collision path of `create` removes
  the paths it collided with. Outside the model: `cleanup` looks for
  `execell-package-`, not for the `execell-rootfs-` of a session.
* Build. All builds have one workspace, and the first to end removes it with
  the sessions in it, unless a rootfs is given; they also have one artifact
  directory, so a file that is scanned may be another build's. A copy that fails
  ends the loop over the packages, and the build goes on with those copied.
* Archive. `safe_path` refuses a trailing slash, as archives store directories
  ("usr/"), and with it the package (`README.md:90`: "Package scans support
  local Arch archives"). `list` adds the declared size and the bytes read to one
  total, which halves the limit. `read` has its limit for each entry and no
  limit of entries (`BoundedEffort` is about `list` only), and comes before `list`
  (`plan-package-risk-intelligence.md:164`: "bounded paths, entries,
  decompression"). An entry with the name of a hard link is one whatever its type
  (`archive.cpp:102`), so a device that has such a name is listed as a link.
* Scan. There is no busy timeout: a scanner that meets another's transaction
  does not keep its observation. Two first scans of different versions may both
  find no previous version. A rejection by the delta leaves `ok` true
  (`package.cpp:598-601`), so a build whose artifact is rejected by it exits
  successfully (`main.cpp:408`), and the delta lowers the level from critical to
  high.

## 6. Not modelled

What a mount, a seccomp filter, a namespace or a limit does to the target is
the kernel's business; the models say when it is in force. `aur::parse` and the
mirror checks are tests on text; the system call tables are data; the report,
cleanup, compare and fetch commands read or remove files once, and keep no
state. Formatting is left out: of the reporters only brackets, commas, order
and counts remain, and whether a string is escaped as JSON wants it is not
checked. Paths relative to a directory descriptor, network endpoints
and byte counts are left out of `Decoder`. `scan`'s staging of files and its
diff of the tree enter `Scan` by success or failure. The VM backend is a stub
in the code, and the process helpers are `fork`, `exec` and `wait`, a special
case of `Sandbox`. Two concurrent calls of `Capture` are examined for
`OutputOwned` only: with the descriptor reused, nothing else holds of them.
