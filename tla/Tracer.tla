------------------------------- MODULE Tracer -------------------------------
(***************************************************************************)
(* The ptrace event loop of execell::trace::run (src/src/trace/tracer.cpp) *)
(* together with the kernel side it talks to.                              *)
(*                                                                         *)
(* Kernel side (external): every task is in user mode, inside a system     *)
(* call, in a ptrace-stop, a zombie or reaped.  Under PTRACE_SYSCALL a     *)
(* system call produces an entry stop and an exit stop; fork/clone and a   *)
(* successful execve produce a PTRACE_EVENT stop between the two.  A new   *)
(* child is attached automatically and starts with a SIGSTOP stop, which   *)
(* may be collected before the parent's PTRACE_EVENT_CLONE stop exists.    *)
(* SIGKILL may hit any task at any time, a stopped one included.           *)
(*                                                                         *)
(* Tracer side: the registry of tasks with their syscall phase, the signal *)
(* to inject at the next resume, and the policy reporter's sticky verdict. *)
(* What a decoder makes of the registers is the subject of module Decoder; *)
(* here a system call stop yields an event or none.                        *)
(***************************************************************************)
EXTENDS Naturals

CONSTANTS
    Task,          \* process ids
    Root,          \* root_pid
    DenyRules,     \* does the policy have path, endpoint or syscall rules?
    MaxProcesses   \* policy::Config::max_processes, 0 means no limit

ASSUME RootAssumption == Root \in Task
ASSUME PolicyAssumption == DenyRules \in BOOLEAN /\ MaxProcesses \in Nat

VARIABLES
    \* kernel
    run,            \* scheduling state of each task
    call,           \* the system call a task is inside of, and how far it got
    stop,           \* kind of the current (or last) stop, or of the death
    sig,            \* signal of a signal stop
    fresh,          \* the stop or death has not been collected by waitpid
    msg,            \* PTRACE_GETEVENTMSG of a clone stop: the child
    \* tracer
    pc,             \* control point of run()
    current,        \* current_pid
    resume_current,
    pending_signal,
    status,         \* wait status being handled: <<stop, signal>>
    tasks,          \* TaskRegistry: registered pids
    phase,          \* TaskRegistry::Task::phase
    process_count,  \* policy::Engine::process_count_
    denied,         \* policy::Reporter::denied_
    ret,            \* what run() returned
    \* history, read by the properties only
    offender,       \* the policy denied the event decoded from the current stop
    unsynced        \* live tasks that executed a new image or had an ignored syscall stop

kernel == <<run, call, stop, sig, fresh, msg>>
loop == <<pc, current, resume_current, status, ret>>
registry == <<tasks, phase>>
policy == <<process_count, denied, offender>>
vars == <<kernel, loop, pending_signal, registry, policy, unsynced>>

Alive == {"user", "incall", "stopped"}
Calls == {"plain", "fork", "exec", "exit"}
SentSignals == {"TERM", "CHLD", "TSTP", "TRAP"}   \* fatal, harmless, job-control stop, raise or int3
StopSignals == {"STOP", "TSTP"}                   \* SIGSTOP, SIGTSTP, SIGTTIN, SIGTTOU
NoSignal == "0"
NoStatus == <<"none", NoSignal>>
Signals == SentSignals \cup {"STOP", "KILL", NoSignal}
StopStates == {"none", "entry", "exit", "clone", "exec", "signal", "exited", "signaled"}

Init ==
    /\ run = [t \in Task |-> "unborn"]
    /\ call = [t \in Task |-> "none"]
    /\ stop = [t \in Task |-> "none"]
    /\ sig = [t \in Task |-> NoSignal]
    /\ fresh = [t \in Task |-> FALSE]
    /\ msg = [t \in Task |-> Root]
    /\ pc = "start"
    /\ current = Root
    /\ resume_current = FALSE
    /\ pending_signal = NoSignal
    /\ status = NoStatus
    /\ tasks = {}
    /\ phase = [t \in Task |-> "entry"]
    /\ process_count = 0
    /\ denied = FALSE
    /\ ret = "none"
    /\ offender = FALSE
    /\ unsynced = {}

-----------------------------------------------------------------------------
(***************************************************************************)
(* Kernel steps.                                                           *)
(***************************************************************************)
tracer == <<loop, pending_signal, registry, policy, unsynced>>

StopAt(t, kind, s) ==
    /\ run' = [run EXCEPT ![t] = "stopped"]
    /\ stop' = [stop EXCEPT ![t] = kind]
    /\ sig' = [sig EXCEPT ![t] = s]
    /\ fresh' = [fresh EXCEPT ![t] = TRUE]

Die(t, kind, s) ==
    /\ run' = [run EXCEPT ![t] = "zombie"]
    /\ stop' = [stop EXCEPT ![t] = kind]
    /\ sig' = [sig EXCEPT ![t] = s]
    /\ fresh' = [fresh EXCEPT ![t] = TRUE]
    /\ call' = [call EXCEPT ![t] = "none"]

EnterCall(t, c) ==
    /\ run[t] = "user"
    /\ StopAt(t, "entry", NoSignal)
    /\ call' = [call EXCEPT ![t] = c]
    /\ UNCHANGED <<msg, tracer>>

\* The new child is woken before the parent reaches its event stop.
ForkChild(t, u) ==
    /\ run[t] = "incall" /\ call[t] = "fork"
    /\ run[u] = "unborn"
    /\ StopAt(u, "signal", "STOP")
    /\ call' = [call EXCEPT ![t] = "forked"]
    /\ msg' = [msg EXCEPT ![t] = u]
    /\ UNCHANGED tracer

CloneStop(t) ==
    /\ run[t] = "incall" /\ call[t] = "forked"
    /\ StopAt(t, "clone", NoSignal)
    /\ call' = [call EXCEPT ![t] = "plain"]
    /\ UNCHANGED <<msg, tracer>>

ExecStop(t) ==
    /\ run[t] = "incall" /\ call[t] = "exec"
    /\ StopAt(t, "exec", NoSignal)
    /\ call' = [call EXCEPT ![t] = "plain"]
    /\ UNCHANGED <<msg, tracer>>

\* A fork or execve that fails goes straight to its exit stop.
CallExit(t) ==
    /\ run[t] = "incall" /\ call[t] \in {"plain", "fork", "exec"}
    /\ StopAt(t, "exit", NoSignal)
    /\ UNCHANGED <<call, msg, tracer>>

ExitCall(t) ==
    /\ run[t] = "incall" /\ call[t] = "exit"
    /\ Die(t, "exited", NoSignal)
    /\ UNCHANGED <<msg, tracer>>

Signal(t, s) ==
    /\ run[t] = "user"
    /\ StopAt(t, "signal", s)
    /\ UNCHANGED <<call, msg, tracer>>

\* SIGKILL from outside: another task, the OOM killer, a resource limit.
Kill(t) ==
    /\ run[t] \in Alive /\ pc # "start"
    /\ Die(t, "signaled", "KILL")
    /\ UNCHANGED <<msg, tracer>>

\* What tracees do after run() returned is left out: no code looks at it, and
\* PTRACE_O_EXITKILL ends them with the tracing process.
Kernel ==
    /\ pc # "returned"
    /\ \E t \in Task :
          \/ \E c \in Calls : EnterCall(t, c)
          \/ \E u \in Task : ForkChild(t, u)
          \/ CloneStop(t)
          \/ ExecStop(t)
          \/ CallExit(t)
          \/ ExitCall(t)
          \/ \E s \in SentSignals : Signal(t, s)
          \/ Kill(t)

\* PTRACE_SYSCALL(t, s).  Outside a ptrace-stop it fails with ESRCH.  The
\* signal is injected at a signal stop, sent at a syscall stop, and ignored
\* at an event stop.
SyscallContinue(t, s) ==
    LET fatal == \/ s = "KILL" /\ stop[t] \in {"entry", "exit", "signal"}
                 \/ s \in {"TERM", "TRAP"} /\ stop[t] = "signal"
    IN  IF run[t] # "stopped"
        THEN UNCHANGED kernel
        ELSE /\ IF fatal
                THEN Die(t, "signaled", s)
                ELSE /\ run' = [run EXCEPT ![t] =
                           IF stop[t] \in {"exit", "signal"} THEN "user" ELSE "incall"]
                     /\ stop' = [stop EXCEPT ![t] = "none"]
                     /\ sig' = [sig EXCEPT ![t] = NoSignal]
                     /\ call' = [call EXCEPT ![t] = IF stop[t] = "exit" THEN "none" ELSE @]
                     /\ UNCHANGED fresh
             /\ msg' = [msg EXCEPT ![t] = Root]

-----------------------------------------------------------------------------
(***************************************************************************)
(* Stop classification (src/src/trace/stop.cpp).                           *)
(***************************************************************************)
classify_stop(st) ==
    CASE st[1] \in {"exited", "signaled"} -> st[1]
      [] st[1] \in {"entry", "exit"} -> "syscall"
      [] st[1] \in {"clone", "exec"} -> "ptrace_event"
      [] st[1] = "signal" /\ st[2] \in StopSignals -> "group_stop"
      [] OTHER -> "signal"

resume_signal(st) ==
    IF classify_stop(st) = "signal" /\ st[2] # "TRAP" THEN st[2] ELSE NoSignal

(***************************************************************************)
(* The loop.                                                               *)
(***************************************************************************)
\* Mutant: stop_requested() is asked before the event is reported.
emit_asks_first(verdict, pending) ==
    /\ denied' = (denied \/ verdict)
    /\ pending_signal' = IF denied THEN "KILL" ELSE pending

\* emit: report the event, then request SIGKILL if the reporter wants a stop.
emit(verdict, pending) ==
    /\ denied' = (denied \/ verdict)
    /\ pending_signal' = IF denied' THEN "KILL" ELSE pending

\* Mutant: a new child starts in the exit phase.
insert_child_at_exit(t) ==
    /\ tasks' = tasks \cup {t}
    /\ phase' = [phase EXCEPT ![t] = IF t \in tasks THEN @ ELSE "exit"]

\* TaskRegistry: emplace keeps an existing entry, a new one starts at entry.
insert_child(t) ==
    /\ tasks' = tasks \cup {t}
    /\ phase' = [phase EXCEPT ![t] = IF t \in tasks THEN @ ELSE "entry"]

erase(t) ==
    /\ tasks' = tasks \ {t}
    /\ phase' = [phase EXCEPT ![t] = "entry"]

\* Every return destroys the TraceSession, which kills a root that still exists.
Return(r) ==
    /\ pc' = "returned"
    /\ ret' = r
    /\ IF run[Root] \in Alive
       THEN Die(Root, "signaled", "KILL") /\ UNCHANGED msg
       ELSE UNCHANGED kernel
    /\ status' = NoStatus
    /\ UNCHANGED <<current, resume_current>>

\* fork, PTRACE_TRACEME, execvp, the initial wait and PTRACE_SETOPTIONS; the
\* root is in the SIGTRAP stop of its execve and TraceStarted is emitted.
Start ==
    /\ pc = "start"
    /\ run' = [run EXCEPT ![Root] = "stopped"]
    /\ stop' = [stop EXCEPT ![Root] = "signal"]
    /\ sig' = [sig EXCEPT ![Root] = "TRAP"]
    /\ tasks' = {Root}
    /\ pc' = "loop"
    /\ resume_current' = TRUE
    /\ emit(FALSE, pending_signal)
    /\ UNCHANGED <<call, fresh, msg, current, status, ret, phase, process_count,
                   offender, unsynced>>

\* fork failed; or execvp failed, the initial wait reaped the exit 127 and
\* PTRACE_SETOPTIONS met ESRCH.
StartFails(forked) ==
    /\ pc = "start"
    /\ pc' = "returned"
    /\ ret' = "failure"
    /\ IF forked
       THEN /\ run' = [run EXCEPT ![Root] = "gone"]
            /\ stop' = [stop EXCEPT ![Root] = "exited"]
       ELSE UNCHANGED <<run, stop>>
    /\ UNCHANGED <<call, sig, fresh, msg, current, resume_current, status,
                   pending_signal, registry, policy, unsynced>>

Resume ==
    /\ pc = "loop" /\ tasks # {} /\ resume_current
    /\ SyscallContinue(current, pending_signal)
    /\ pending_signal' = NoSignal
    /\ resume_current' = FALSE
    /\ pc' = "wait"
    /\ UNCHANGED <<current, status, ret, registry, policy, unsynced>>

NoResume ==
    /\ pc = "loop" /\ tasks # {} /\ ~resume_current
    /\ pc' = "wait"
    /\ UNCHANGED <<kernel, current, resume_current, status, ret, pending_signal,
                   registry, policy, unsynced>>

\* Mutant: an emptied registry counts as a finished trace.
NoTasksSucceeds ==
    /\ pc = "loop" /\ tasks = {}
    /\ Return("exited")
    /\ UNCHANGED <<pending_signal, registry, policy, unsynced>>

NoTasks ==
    /\ pc = "loop" /\ tasks = {}
    /\ Return("failure")
    /\ UNCHANGED <<pending_signal, registry, policy, unsynced>>

\* wait_for(-1, __WALL) collects any unreported stop and reaps a zombie.
Wait(t) ==
    /\ pc = "wait"
    /\ run[t] \in {"stopped", "zombie"} /\ fresh[t]
    /\ fresh' = [fresh EXCEPT ![t] = FALSE]
    /\ run' = [run EXCEPT ![t] = IF @ = "zombie" THEN "gone" ELSE @]
    /\ current' = t
    /\ status' = <<stop[t], sig[t]>>
    /\ pc' = "handle"
    /\ offender' = FALSE
    /\ unsynced' = IF run[t] = "zombie" THEN unsynced \ {t} ELSE unsynced
    /\ UNCHANGED <<call, stop, sig, msg, resume_current, ret, pending_signal,
                   registry, process_count, denied>>

\* Mutant: the root's exit no longer ends the loop, an emptied registry does.
HandleExitGoesOn ==
    /\ pc = "handle" /\ classify_stop(status) \in {"exited", "signaled"}
    /\ emit(FALSE, pending_signal)
    /\ erase(current)
    /\ pc' = "loop"
    /\ status' = NoStatus
    /\ UNCHANGED <<kernel, current, resume_current, ret, process_count, offender, unsynced>>

HandleExit ==
    /\ pc = "handle" /\ classify_stop(status) \in {"exited", "signaled"}
    /\ emit(FALSE, pending_signal)
    /\ erase(current)
    /\ IF current = Root
       THEN Return(status[1])
       ELSE /\ pc' = "loop"
            /\ status' = NoStatus
            /\ UNCHANGED <<kernel, current, resume_current, ret>>
    /\ UNCHANGED <<process_count, offender, unsynced>>

\* Mutant: a `continue` without resume_current = true.
ResumeNextForgets ==
    /\ pc' = "loop"
    /\ status' = NoStatus
    /\ UNCHANGED <<kernel, current, resume_current, ret>>

ResumeNext ==
    /\ pc' = "loop"
    /\ resume_current' = TRUE
    /\ status' = NoStatus
    /\ UNCHANGED <<kernel, current, ret>>

\* A tracee killed since waitpid makes PTRACE_GETEVENTMSG fail: run() gives up.
EventMessageFails ==
    /\ pc = "handle" /\ classify_stop(status) = "ptrace_event"
    /\ run[current] # "stopped"
    /\ Return("failure")
    /\ UNCHANGED <<pending_signal, registry, policy, unsynced>>

HandleClone ==
    /\ pc = "handle" /\ status[1] = "clone" /\ run[current] = "stopped"
    /\ IF current \in tasks
       THEN LET child == msg[current] IN
            /\ insert_child(child)
            /\ process_count' = process_count + 1
            /\ emit(MaxProcesses # 0 /\ process_count' > MaxProcesses, pending_signal)
       ELSE UNCHANGED <<registry, process_count, denied, pending_signal>>
    /\ ResumeNext
    /\ UNCHANGED <<offender, unsynced>>

\* Mutant: exec leaves the phase without a value of SyscallPhase.
HandleExecNoPhase ==
    /\ pc = "handle" /\ status[1] = "exec" /\ run[current] = "stopped"
    /\ phase' = [phase EXCEPT ![current] = "none"]
    /\ unsynced' = unsynced \cup {current}
    /\ ResumeNext
    /\ UNCHANGED <<pending_signal, tasks, policy>>

HandleExec ==
    /\ pc = "handle" /\ status[1] = "exec" /\ run[current] = "stopped"
    /\ phase' = [phase EXCEPT ![current] = IF current \in tasks THEN "entry" ELSE @]
    /\ unsynced' = unsynced \cup {current}
    /\ ResumeNext
    /\ UNCHANGED <<pending_signal, tasks, policy>>

\* Mutant: a pending signal is not overwritten by the one of the stop.
HandleSignalKeepsPending ==
    /\ pc = "handle" /\ classify_stop(status) \in {"signal", "group_stop"}
    /\ pending_signal' = IF pending_signal = NoSignal THEN resume_signal(status) ELSE pending_signal
    /\ ResumeNext
    /\ UNCHANGED <<registry, policy, unsynced>>

HandleSignal ==
    /\ pc = "handle" /\ classify_stop(status) \in {"signal", "group_stop"}
    /\ pending_signal' = resume_signal(status)
    /\ ResumeNext
    /\ UNCHANGED <<registry, policy, unsynced>>

HandleUnknown ==
    /\ pc = "handle" /\ classify_stop(status) = "syscall" /\ current \notin tasks
    /\ unsynced' = unsynced \cup {current}
    /\ ResumeNext
    /\ UNCHANGED <<pending_signal, registry, policy>>

\* PTRACE_GETREGS meets ESRCH: the task is forgotten and the loop goes on.
RegistersFail ==
    /\ pc = "handle" /\ classify_stop(status) = "syscall" /\ current \in tasks
    /\ run[current] # "stopped"
    /\ erase(current)
    /\ ResumeNext
    /\ UNCHANGED <<pending_signal, policy, unsynced>>

\* on_entry or on_exit of the decoder, by the task's phase; with an event the
\* policy may deny, or one it allows, or none.
HandleSyscall(event, verdict) ==
    /\ pc = "handle" /\ classify_stop(status) = "syscall" /\ current \in tasks
    /\ run[current] = "stopped"
    /\ verdict => event /\ DenyRules
    /\ phase' = [phase EXCEPT ![current] = IF @ = "entry" THEN "exit" ELSE "entry"]
    /\ IF event
       THEN emit(verdict, pending_signal)
       ELSE UNCHANGED <<denied, pending_signal>>
    /\ offender' = verdict
    /\ ResumeNext
    /\ UNCHANGED <<tasks, process_count, unsynced>>

Handle ==
    \/ HandleExit
    \/ EventMessageFails
    \/ HandleClone
    \/ HandleExec
    \/ HandleSignal
    \/ HandleUnknown
    \/ RegistersFail
    \/ \E event, verdict \in BOOLEAN : HandleSyscall(event, verdict)

Next ==
    \/ Kernel
    \/ Start
    \/ \E forked \in BOOLEAN : StartFails(forked)
    \/ Resume \/ NoResume \/ NoTasks
    \/ \E t \in Task : Wait(t)
    \/ Handle

Spec == Init /\ [][Next]_vars

(***************************************************************************)
(* The tracer thread is scheduled, and waitpid(-1) prefers the root: it is *)
(* the caller's own child, and the kernel scans a thread's children before *)
(* the other tasks it traces, so a dead root is not starved by them.       *)
(***************************************************************************)
FairSpec ==
    /\ Spec
    /\ WF_vars(Resume \/ NoResume \/ NoTasks)
    /\ WF_vars(Handle)
    /\ WF_vars(\E t \in Task : Wait(t))
    /\ SF_vars(Wait(Root))

-----------------------------------------------------------------------------
(***************************************************************************)
(* Properties.                                                             *)
(***************************************************************************)
\* Types of every variable.
TypeOK ==
    /\ run \in [Task -> Alive \cup {"unborn", "zombie", "gone"}]
    /\ call \in [Task -> Calls \cup {"none", "forked"}]
    /\ stop \in [Task -> StopStates]
    /\ sig \in [Task -> Signals]
    /\ fresh \in [Task -> BOOLEAN]
    /\ msg \in [Task -> Task]
    /\ pc \in {"start", "loop", "wait", "handle", "returned"}
    /\ current \in Task
    /\ resume_current \in BOOLEAN
    /\ pending_signal \in Signals
    /\ status \in StopStates \X Signals
    /\ tasks \subseteq Task
    /\ phase \in [Task -> {"entry", "exit"}]
    /\ process_count \in Nat
    /\ denied \in BOOLEAN
    /\ ret \in {"none", "failure", "exited", "signaled"}
    /\ offender \in BOOLEAN
    /\ unsynced \subseteq Task

\* A stop the loop has collected is always resumed: whenever run() blocks in
\* waitpid, every stopped tracee still has an uncollected stop, so no tracee
\* is left frozen by one of the early `continue` paths.
NoTaskLeftStopped ==
    pc = "wait" => \A t \in Task : run[t] = "stopped" => fresh[t]

\* waitpid(-1) never fails with ECHILD: the root is not reaped while the loop runs.
WaitHasChild ==
    pc = "wait" => run[Root] \in Alive \cup {"zombie"}

\* The stop of t that waitpid will return, or returned, is not yet handled.
Unhandled(t) == fresh[t] \/ (pc = "handle" /\ current = t)

\* The kernel has t inside a system call, between its two handled stops.
InsideCall(t) ==
    \/ run[t] = "incall"
    \/ /\ run[t] = "stopped"
       /\ \/ stop[t] \in {"clone", "exec"}
          \/ stop[t] = "entry" /\ ~Unhandled(t)
          \/ stop[t] = "exit" /\ Unhandled(t)

\* The registry's entry/exit parity agrees with the kernel for every
\* registered live task, except a task that executed a new image or whose
\* first syscall stop arrived before it was registered.  Signal stops, clone
\* events, kills and other tasks' stops never flip it.
PhaseAgrees ==
    \A t \in tasks \ unsynced :
        run[t] \in Alive => (phase[t] = "exit" <=> InsideCall(t))

\* A denied system call event kills its task: the SIGKILL set by emit is the
\* one the next resume delivers, before the loop waits again.  This is what
\* tracer.cpp and policy::Reporter do, without any enforcement switch;
\* docs/threat-model.md still says that reporting terminates no tracee.
OffenderKilled ==
    pc = "wait" /\ offender => run[current] \notin Alive

\* run() reports success or 128+signal only from the root's own death, never
\* from an ESRCH of the root or an emptied registry.
RootStatusFaithful ==
    ret \in {"exited", "signaled"} => run[Root] = "gone" /\ ret = stop[Root]

\* A signal stop is resumed according to its own signal, whatever
\* pending_signal a ProcessExited of another task left behind: an ordinary
\* signal is injected exactly as it was received; a job-control stop and a
\* SIGTRAP, which resume_signal suppresses, are dropped and no other task's
\* signal takes their place.
Injected(s) == IF s \in StopSignals \cup {"TRAP"} THEN NoSignal ELSE s

ResumesFrom(t, s) ==
    /\ pc = "loop" /\ pc' = "wait" /\ resume_current /\ current = t
    /\ run[t] = "stopped" /\ stop[t] = "signal" /\ sig[t] = s

SignalForwarded ==
    [][\A t \in Task : \A s \in SentSignals \cup {"STOP"} :
          ResumesFrom(t, s) => pending_signal = Injected(s)]_vars

\* A dead root ends the trace: run() returns.
RootDeathEndsTrace ==
    run[Root] = "zombie" ~> pc = "returned"

=============================================================================
