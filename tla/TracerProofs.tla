---------------------------- MODULE TracerProofs ----------------------------
(***************************************************************************)
(* Proofs about Tracer for any number of tasks and any policy.             *)
(***************************************************************************)
EXTENDS Tracer, TLAPS

\* Time for the backends.
\* Zenon proves the leaves that do not name SMT.
USE ZenonT(60)

-----------------------------------------------------------------------------
(***************************************************************************)
(* Type correctness.                                                       *)
(***************************************************************************)
\* What the handlers' guards on classify_stop say about the wait status.
LEMMA ClassifyStop ==
    ASSUME NEW st \in StopStates \X Signals
    PROVE  /\ classify_stop(st) \in {"exited", "signaled"} <=> st[1] \in {"exited", "signaled"}
           /\ classify_stop(st) = "syscall" <=> st[1] \in {"entry", "exit"}
           /\ classify_stop(st) = "ptrace_event" <=> st[1] \in {"clone", "exec"}
           /\ classify_stop(st) \in {"signal", "group_stop"} <=> st[1] \in {"signal", "none"}
           /\ resume_signal(st) \in Signals
  BY DEF classify_stop, resume_signal, StopStates, Signals, StopSignals, SentSignals, NoSignal

-----------------------------------------------------------------------------
\* Every variable keeps its type.
LEMMA InitTypeOK == Init => TypeOK
  <1> SUFFICES ASSUME Init PROVE TypeOK
    OBVIOUS
  <1>1. status \in StopStates \X Signals
    BY DEF Init, NoStatus, NoSignal, Signals, StopStates
  <1> QED
    BY <1>1, RootAssumption DEF Init, TypeOK, NoSignal, Signals, StopStates, Alive, Calls

\* No step of a tracee, stops and deaths included, breaks a type.
LEMMA KernelTypeOK == TypeOK /\ Kernel => TypeOK'
  <1> SUFFICES ASSUME TypeOK, Kernel PROVE TypeOK'
    OBVIOUS
  <1> USE DEF TypeOK, NoSignal, Signals, SentSignals, StopStates, Alive, Calls, StopAt, Die,
              tracer, loop, registry, policy
  <1>1. ASSUME NEW t \in Task, NEW c \in Calls, EnterCall(t, c) PROVE TypeOK'
    BY SMTT(60), <1>1 DEF EnterCall
  <1>2. ASSUME NEW t \in Task, NEW u \in Task, ForkChild(t, u) PROVE TypeOK'
    BY SMTT(60), <1>2 DEF ForkChild
  <1>3. ASSUME NEW t \in Task, CloneStop(t) PROVE TypeOK'
    BY SMTT(60), <1>3 DEF CloneStop
  <1>4. ASSUME NEW t \in Task, ExecStop(t) PROVE TypeOK'
    BY SMTT(60), <1>4 DEF ExecStop
  <1>5. ASSUME NEW t \in Task, CallExit(t) PROVE TypeOK'
    BY SMTT(60), <1>5 DEF CallExit
  <1>6. ASSUME NEW t \in Task, ExitCall(t) PROVE TypeOK'
    BY SMTT(60), <1>6 DEF ExitCall
  <1>7. ASSUME NEW t \in Task, NEW s \in SentSignals, Signal(t, s) PROVE TypeOK'
    BY SMTT(60), <1>7 DEF Signal
  <1>8. ASSUME NEW t \in Task, Kill(t) PROVE TypeOK'
    BY SMTT(60), <1>8 DEF Kill
  <1> QED
    BY SMTT(60), <1>1, <1>2, <1>3, <1>4, <1>5, <1>6, <1>7, <1>8 DEF Kernel

\* The parts of TypeOK about the kernel, and the steps that change them.
KernelTypes ==
    /\ run \in [Task -> Alive \cup {"unborn", "zombie", "gone"}]
    /\ call \in [Task -> Calls \cup {"none", "forked"}]
    /\ stop \in [Task -> StopStates]
    /\ sig \in [Task -> Signals]
    /\ fresh \in [Task -> BOOLEAN]
    /\ msg \in [Task -> Task]

\* PTRACE_SYSCALL keeps the kernel types, whether it resumes, kills or fails.
LEMMA ContinueTypes ==
    ASSUME TypeOK, NEW t \in Task, NEW s \in Signals, SyscallContinue(t, s)
    PROVE  KernelTypes'
  <1> USE RootAssumption DEF TypeOK, KernelTypes, NoSignal, Signals, SentSignals, StopStates, Alive, Calls
  <1>1. CASE run[t] # "stopped"
    BY SMTT(60), <1>1 DEF SyscallContinue, kernel
  <1>2. CASE run[t] = "stopped" /\ Die(t, "signaled", s)
    BY SMTT(60), <1>2 DEF SyscallContinue, Die
  <1>3. CASE run[t] = "stopped" /\ ~Die(t, "signaled", s)
    BY SMTT(60), <1>3 DEF SyscallContinue
  <1> QED
    BY <1>1, <1>2, <1>3

\* Leaving run(), with the TraceSession destructor, keeps the types.
LEMMA ReturnTypes ==
    ASSUME TypeOK, NEW r \in {"failure", "exited", "signaled"}, Return(r)
    PROVE  /\ KernelTypes'
           /\ pc' \in {"start", "loop", "wait", "handle", "returned"}
           /\ current' \in Task /\ resume_current' \in BOOLEAN
           /\ status' \in StopStates \X Signals
           /\ ret' \in {"none", "failure", "exited", "signaled"}
  <1>1. KernelTypes'
    <2> USE RootAssumption DEF TypeOK, KernelTypes, Signals, StopStates, Alive, Calls
    <2>1. CASE run[Root] \in Alive
      BY <2>1 DEF Return, Die
    <2>2. CASE run[Root] \notin Alive
      BY SMTT(60), <2>2 DEF Return, kernel
    <2> QED
      BY <2>1, <2>2
  <1>2. status' \in StopStates \X Signals
    BY DEF Return, NoStatus, NoSignal, Signals, StopStates
  <1> QED
    BY <1>1, <1>2 DEF Return, TypeOK

\* The `continue` that resumes the task at hand keeps the types.
LEMMA ResumeNextTypes ==
    ASSUME TypeOK, ResumeNext
    PROVE  /\ KernelTypes'
           /\ pc' \in {"start", "loop", "wait", "handle", "returned"}
           /\ current' \in Task /\ resume_current' \in BOOLEAN
           /\ status' \in StopStates \X Signals
           /\ ret' \in {"none", "failure", "exited", "signaled"}
  BY DEF TypeOK, KernelTypes, ResumeNext, kernel, NoStatus, NoSignal, Signals, StopStates

\* emit keeps the types of the verdict and of the signal to inject.
LEMMA EmitTypes ==
    ASSUME TypeOK, NEW v \in BOOLEAN, emit(v, pending_signal)
    PROVE  denied' \in BOOLEAN /\ pending_signal' \in Signals
  BY DEF TypeOK, emit, Signals

\* No step of run() breaks a type.
LEMMA TracerTypeOK == TypeOK /\ [Next]_vars /\ ~Kernel => TypeOK'
  <1> SUFFICES ASSUME TypeOK, [Next]_vars, ~Kernel PROVE TypeOK'
    OBVIOUS
  <1>1. CASE Start
    <2>1. denied' \in BOOLEAN /\ pending_signal' \in Signals
      BY <1>1, EmitTypes DEF Start
    <2> QED
      BY <1>1, <2>1, RootAssumption DEF Start, TypeOK, Signals, SentSignals, StopStates, Alive
  <1>2. ASSUME NEW forked \in BOOLEAN, StartFails(forked) PROVE TypeOK'
    <2>1. run' \in [Task -> Alive \cup {"unborn", "zombie", "gone"}] /\ stop' \in [Task -> StopStates]
      BY SMTT(60), <1>2 DEF StartFails, TypeOK, StopStates
    <2> QED
      BY <1>2, <2>1 DEF StartFails, TypeOK, registry, policy
  <1>3. CASE Resume
    <2>1. KernelTypes'
      BY <1>3, ContinueTypes DEF Resume, TypeOK
    <2> QED
      BY <1>3, <2>1 DEF Resume, TypeOK, KernelTypes, registry, policy, NoSignal, Signals
  <1>4. CASE NoResume
    BY <1>4 DEF NoResume, TypeOK, kernel, registry, policy
  <1>5. CASE NoTasks
    BY <1>5, ReturnTypes DEF NoTasks, TypeOK, KernelTypes, registry, policy
  <1>6. ASSUME NEW t \in Task, Wait(t) PROVE TypeOK'
    BY <1>6 DEF Wait, TypeOK, registry
  <1>7. CASE HandleExit
    <2>1. denied' \in BOOLEAN /\ pending_signal' \in Signals
      BY <1>7, EmitTypes DEF HandleExit
    <2>2. status[1] \in {"exited", "signaled"}
      BY <1>7, ClassifyStop DEF HandleExit, TypeOK
    <2>3. CASE current = Root
      BY <1>7, <2>1, <2>2, <2>3, ReturnTypes DEF HandleExit, erase, TypeOK, KernelTypes
    <2>4. CASE current # Root
      BY SMTT(60), <1>7, <2>1, <2>4 DEF HandleExit, erase, TypeOK, kernel, NoStatus, NoSignal, Signals, StopStates
    <2> QED
      BY <2>3, <2>4
  <1>8. CASE EventMessageFails
    BY <1>8, ReturnTypes DEF EventMessageFails, TypeOK, KernelTypes, registry, policy
  <1>9. CASE HandleClone
    <2>1. CASE current \in tasks
      <3>1. denied' \in BOOLEAN /\ pending_signal' \in Signals
        BY <1>9, <2>1, EmitTypes DEF HandleClone
      <3> QED
        BY SMTT(60), <1>9, <2>1, <3>1, ResumeNextTypes DEF HandleClone, insert_child, TypeOK, KernelTypes
    <2>2. CASE current \notin tasks
      BY SMTT(60), <1>9, <2>2, ResumeNextTypes DEF HandleClone, TypeOK, KernelTypes, registry
    <2> QED
      BY <2>1, <2>2
  <1>10. CASE HandleExec
    BY <1>10, ResumeNextTypes DEF HandleExec, TypeOK, KernelTypes, policy
  <1>11. CASE HandleSignal
    BY <1>11, ResumeNextTypes, ClassifyStop DEF HandleSignal, TypeOK, KernelTypes, registry, policy
  <1>12. CASE HandleUnknown
    BY <1>12, ResumeNextTypes DEF HandleUnknown, TypeOK, KernelTypes, registry, policy
  <1>13. CASE RegistersFail
    BY <1>13, ResumeNextTypes DEF RegistersFail, erase, TypeOK, KernelTypes, policy
  <1>14. ASSUME NEW event \in BOOLEAN, NEW verdict \in BOOLEAN, HandleSyscall(event, verdict)
         PROVE  TypeOK'
    <2>1. denied' \in BOOLEAN /\ pending_signal' \in Signals
      BY <1>14, EmitTypes DEF HandleSyscall, TypeOK
    <2> QED
      BY <1>14, <2>1, ResumeNextTypes DEF HandleSyscall, TypeOK, KernelTypes
  <1>15. CASE UNCHANGED vars
    BY <1>15 DEF vars, TypeOK, kernel, loop, registry, policy
  <1> QED
    BY <1>1, <1>2, <1>3, <1>4, <1>5, <1>6, <1>7, <1>8, <1>9, <1>10, <1>11, <1>12, <1>13, <1>14,
       <1>15 DEF Next, Handle

\* Type correctness of the tracer and of the kernel state it drives.
THEOREM TypeCorrect == Spec => []TypeOK
  <1>1. TypeOK /\ [Next]_vars => TypeOK'
    BY KernelTypeOK, TracerTypeOK
  <1> QED
    BY <1>1, InitTypeOK, PTL DEF Spec

-----------------------------------------------------------------------------
(***************************************************************************)
(* The inductive invariant.  LoopInv ties the control point of run() to    *)
(* the kernel state of the task at hand: the only collected stop is the    *)
(* one being handled or about to be resumed, and the root stays waitable   *)
(* until its own exit is handled.  PhaseInv extends PhaseAgrees to tasks   *)
(* that are not registered yet.  OffenderInv follows the SIGKILL from emit *)
(* to the resume.                                                          *)
(***************************************************************************)
Waitable == Alive \cup {"zombie"}
PtraceStops == {"entry", "exit", "clone", "exec", "signal"}

LoopInv ==
    /\ pc = "start" =>
          /\ tasks = {} /\ current = Root
          /\ \A t \in Task : run[t] = "unborn" /\ msg[t] = Root /\ phase[t] = "entry"
    /\ pc \notin {"start", "returned"} =>
          \A t \in Task : run[msg[t]] # "unborn" /\ (t \in tasks => run[t] # "unborn")
    /\ \A t \in Task :
          /\ fresh[t] => run[t] \in {"stopped", "zombie"}
          /\ run[t] = "stopped" => stop[t] \in PtraceStops
          /\ run[t] = "zombie" => stop[t] \in {"exited", "signaled"}
          /\ run[t] = "stopped" /\ ~fresh[t] /\ pc # "returned" =>
                current = t /\ (pc = "handle" \/ (pc = "loop" /\ resume_current))
    /\ pc = "handle" =>
          /\ ~resume_current
          /\ run[current] \in {"stopped", "zombie", "gone"}
          /\ run[current] = "stopped" => ~fresh[current] /\ status = <<stop[current], sig[current]>>
          /\ status[1] \in {"exited", "signaled"} => run[current] = "gone" /\ stop[current] = status[1]
    /\ pc = "wait" => ~resume_current
    /\ pc = "loop" /\ resume_current =>
          /\ run[current] \in {"stopped", "zombie", "gone"}
          /\ run[current] = "stopped" => ~fresh[current]
    /\ pc \in {"loop", "wait"} => run[Root] \in Waitable
    /\ pc = "handle" /\ run[Root] \notin Waitable =>
          current = Root /\ status[1] \in {"exited", "signaled"}

PhaseInv ==
    \A t \in Task \ unsynced :
        run[t] \in Alive => ((t \in tasks /\ phase[t] = "exit") <=> InsideCall(t))

OffenderInv ==
    /\ pc = "handle" => ~offender
    /\ pc = "loop" /\ offender =>
          /\ resume_current
          /\ pending_signal = "KILL"
          /\ run[current] = "stopped" => stop[current] \in {"entry", "exit"}
    /\ pc = "wait" /\ offender => run[current] \in {"zombie", "gone"}
    /\ pc = "start" => ~offender

RetInv ==
    /\ pc # "returned" => ret = "none"
    /\ RootStatusFaithful

Ind == LoopInv /\ PhaseInv /\ OffenderInv /\ RetInv

IndInv == TypeOK /\ Ind

\* The invariant holds before fork.
LEMMA InitInd == Init => LoopInv /\ PhaseInv /\ OffenderInv /\ RetInv
  BY DEF Init, LoopInv, PhaseInv, OffenderInv, RetInv, RootStatusFaithful, Alive

\* Tracee steps keep LoopInv: they only create stops waitpid has not collected.
LEMMA KernelLoopInv ==
    ASSUME TypeOK, LoopInv, Kernel
    PROVE  LoopInv'
  <1> USE RootAssumption DEF TypeOK, LoopInv, StopAt, Die, Alive, Waitable, PtraceStops, tracer, loop,
                             registry
  <1>1. ASSUME NEW t \in Task, NEW c \in Calls, EnterCall(t, c) PROVE LoopInv'
    BY SMTT(60), <1>1 DEF EnterCall
  <1>2. ASSUME NEW t \in Task, NEW u \in Task, ForkChild(t, u) PROVE LoopInv'
    BY SMTT(60), <1>2 DEF ForkChild
  <1>3. ASSUME NEW t \in Task, CloneStop(t) PROVE LoopInv'
    BY SMTT(60), <1>3 DEF CloneStop
  <1>4. ASSUME NEW t \in Task, ExecStop(t) PROVE LoopInv'
    BY SMTT(60), <1>4 DEF ExecStop
  <1>5. ASSUME NEW t \in Task, CallExit(t) PROVE LoopInv'
    BY SMTT(60), <1>5 DEF CallExit
  <1>6. ASSUME NEW t \in Task, ExitCall(t) PROVE LoopInv'
    BY SMTT(60), <1>6 DEF ExitCall
  <1>7. ASSUME NEW t \in Task, NEW s \in SentSignals, Signal(t, s) PROVE LoopInv'
    BY SMTT(60), <1>7 DEF Signal
  <1>8. ASSUME NEW t \in Task, Kill(t) PROVE LoopInv'
    BY SMTT(60), <1>8 DEF Kill
  <1> HIDE DEF TypeOK, LoopInv, StopAt, Die
  <1> QED
    BY <1>1, <1>2, <1>3, <1>4, <1>5, <1>6, <1>7, <1>8 DEF Kernel

\* Tracee steps keep PhaseInv: entering or leaving a call shows as an unhandled stop.
LEMMA KernelPhaseInv ==
    ASSUME TypeOK, LoopInv, PhaseInv, Kernel
    PROVE  PhaseInv'
  <1> USE DEF TypeOK, LoopInv, PhaseInv, InsideCall, Unhandled, StopAt, Die, Alive,
              tracer, loop, registry
  <1>0. pc # "returned"
    BY DEF Kernel
  <1>1. ASSUME NEW t \in Task, NEW c \in Calls, EnterCall(t, c) PROVE PhaseInv'
    BY SMTT(60), <1>1 DEF EnterCall
  <1>2. ASSUME NEW t \in Task, NEW u \in Task, ForkChild(t, u) PROVE PhaseInv'
    BY SMTT(60), <1>0, <1>2 DEF ForkChild
  <1>3. ASSUME NEW t \in Task, CloneStop(t) PROVE PhaseInv'
    BY SMTT(60), <1>3 DEF CloneStop
  <1>4. ASSUME NEW t \in Task, ExecStop(t) PROVE PhaseInv'
    BY SMTT(60), <1>4 DEF ExecStop
  <1>5. ASSUME NEW t \in Task, CallExit(t) PROVE PhaseInv'
    BY SMTT(60), <1>5 DEF CallExit
  <1>6. ASSUME NEW t \in Task, ExitCall(t) PROVE PhaseInv'
    BY SMTT(60), <1>6 DEF ExitCall
  <1>7. ASSUME NEW t \in Task, NEW s \in SentSignals, Signal(t, s) PROVE PhaseInv'
    BY SMTT(60), <1>7 DEF Signal
  <1>8. ASSUME NEW t \in Task, Kill(t) PROVE PhaseInv'
    BY SMTT(60), <1>8 DEF Kill
  <1> HIDE DEF TypeOK, LoopInv, PhaseInv, InsideCall, StopAt, Die
  <1> QED
    BY <1>1, <1>2, <1>3, <1>4, <1>5, <1>6, <1>7, <1>8 DEF Kernel


\* A tracee step stops only running tasks, leaves a stop by death only, and
\* leaves the dead alone.
StopsKept ==
    \A t \in Task :
        /\ run[t] \in {"zombie", "gone"} => run'[t] = run[t]
        /\ run'[t] = "stopped" =>
              \/ run[t] = "stopped" /\ stop'[t] = stop[t] /\ sig'[t] = sig[t]
              \/ run[t] \in {"user", "incall", "unborn"}

LEMMA KernelStops == TypeOK /\ Kernel => StopsKept
  <1> SUFFICES ASSUME TypeOK, Kernel PROVE StopsKept
    OBVIOUS
  <1>1. ASSUME NEW u \in Task, NEW kind, NEW s, StopAt(u, kind, s), run[u] \in {"user", "incall", "unborn"}
        PROVE  StopsKept
    BY <1>1 DEF StopAt, StopsKept, TypeOK
  <1>2. ASSUME NEW u \in Task, NEW kind, NEW s, Die(u, kind, s), run[u] \in Alive
        PROVE  StopsKept
    BY <1>2 DEF Die, StopsKept, Alive, TypeOK
  <1>3. PICK t \in Task :
            \/ \E c \in Calls : EnterCall(t, c)
            \/ \E u \in Task : ForkChild(t, u)
            \/ CloneStop(t) \/ ExecStop(t) \/ CallExit(t) \/ ExitCall(t)
            \/ \E s \in SentSignals : Signal(t, s)
            \/ Kill(t)
    BY DEF Kernel
  <1>4. CASE \E c \in Calls : EnterCall(t, c)
    BY <1>1, <1>4 DEF EnterCall
  <1>5. CASE \E u \in Task : ForkChild(t, u)
    BY <1>1, <1>5 DEF ForkChild
  <1>6. CASE CloneStop(t) \/ ExecStop(t) \/ CallExit(t)
    BY <1>1, <1>6 DEF CloneStop, ExecStop, CallExit
  <1>7. CASE \E s \in SentSignals : Signal(t, s)
    BY <1>1, <1>7 DEF Signal
  <1>8. CASE ExitCall(t) \/ Kill(t)
    BY <1>2, <1>8 DEF ExitCall, Kill, Alive
  <1> QED
    BY <1>3, <1>4, <1>5, <1>6, <1>7, <1>8

\* Tracee steps keep the verdict pending and the return value: a dead task stays dead.
LEMMA KernelOffenderInv ==
    ASSUME TypeOK, LoopInv, OffenderInv, RetInv, Kernel
    PROVE  OffenderInv' /\ RetInv'
  <1>1. StopsKept /\ current \in Task
    BY KernelStops DEF TypeOK
  <1>2. pc = "loop" /\ resume_current => run[current] \in {"stopped", "zombie", "gone"}
    BY DEF LoopInv
  <1>3. UNCHANGED <<pc, current, resume_current, ret, pending_signal, offender>>
    BY DEF Kernel, EnterCall, ForkChild, CloneStop, ExecStop, CallExit, ExitCall, Signal, Kill,
           tracer, loop, policy
  <1>4. pc # "returned"
    BY DEF Kernel
  <1> QED
    BY <1>1, <1>2, <1>3, <1>4 DEF StopsKept, OffenderInv, RetInv, RootStatusFaithful

\* What PTRACE_SYSCALL does to the task at hand, and that it touches no other.
Continued(s) ==
    /\ \A t \in Task \ {current} : /\ run'[t] = run[t] /\ stop'[t] = stop[t]
                                   /\ fresh'[t] = fresh[t] /\ msg'[t] = msg[t]
    /\ run[current] # "stopped" => UNCHANGED <<run, stop, fresh, msg>>
    /\ run[current] = "stopped" =>
          /\ msg'[current] = Root
          /\ \/ /\ run'[current] = "zombie" /\ fresh'[current]
                /\ stop'[current] = "signaled"
             \/ /\ ~(s = "KILL" /\ stop[current] \in {"entry", "exit", "signal"})
                /\ run'[current] = IF stop[current] \in {"exit", "signal"} THEN "user" ELSE "incall"
                /\ fresh'[current] = fresh[current]

LEMMA ContinueEffect ==
    ASSUME TypeOK, LoopInv, NEW s \in Signals, SyscallContinue(current, s)
    PROVE  Continued(s)
  BY SMTT(60) DEF Continued, SyscallContinue, kernel, Die, TypeOK

\* What the TraceSession destructor does: at most the root is killed.
LEMMA ReturnEffect ==
    ASSUME TypeOK, NEW r, Return(r)
    PROVE  /\ pc' = "returned" /\ ret' = r
           /\ \A t \in Task \ {Root} : run'[t] = run[t] /\ stop'[t] = stop[t] /\ fresh'[t] = fresh[t]
           /\ \/ UNCHANGED <<run, stop, fresh>> /\ run[Root] \notin Alive
              \/ run'[Root] = "zombie" /\ fresh'[Root] /\ stop'[Root] = "signaled" /\ run[Root] \in Alive
           /\ UNCHANGED <<msg, current, resume_current>>
  BY SMTT(60), RootAssumption DEF Return, kernel, Die, TypeOK


\* fork, the initial wait and PTRACE_SETOPTIONS establish the invariant of the loop.
LEMMA StartInd ==
    ASSUME TypeOK, Ind, Start \/ \E forked \in BOOLEAN : StartFails(forked)
    PROVE  Ind'
  <1>1. CASE Start
    <2> USE <1>1, RootAssumption DEF TypeOK, Ind, Start, LoopInv
    <2>1. LoopInv'
      BY SMTT(60) DEF Alive, Waitable, PtraceStops
    <2>2. PhaseInv'
      BY DEF PhaseInv, InsideCall, Unhandled, Alive
    <2>3. OffenderInv' /\ RetInv'
      BY DEF OffenderInv, RetInv, RootStatusFaithful, emit
    <2> QED
      BY <2>1, <2>2, <2>3
  <1>2. ASSUME NEW forked \in BOOLEAN, StartFails(forked) PROVE Ind'
    <2> USE <1>2, RootAssumption DEF TypeOK, Ind, StartFails, LoopInv, registry, policy
    <2>1. LoopInv'
      BY SMTT(60) DEF Alive, Waitable, PtraceStops
    <2>2. PhaseInv'
      BY SMTT(60) DEF PhaseInv, InsideCall, Unhandled, Alive
    <2>3. OffenderInv' /\ RetInv'
      BY DEF OffenderInv, RetInv, RootStatusFaithful
    <2> QED
      BY <2>1, <2>2, <2>3
  <1> QED
    BY <1>1, <1>2

\* Resuming the task at hand with the pending signal keeps the invariant.
LEMMA ResumeInd ==
    ASSUME TypeOK, Ind, Resume
    PROVE  Ind'
  <1>1. SyscallContinue(current, pending_signal) /\ pending_signal \in Signals /\ current \in Task
    BY DEF Resume, TypeOK
  <1>2. LoopInv
    BY DEF Ind
  <1>a. /\ pc = "loop" /\ resume_current /\ pc' = "wait" /\ resume_current' = FALSE
        /\ UNCHANGED <<current, ret, tasks, phase, offender, unsynced>>
    BY DEF Resume, registry, policy
  <1>b. Continued(pending_signal)
    BY <1>1, <1>2, ContinueEffect
  <1>c. /\ \A t \in Task : run[t] = "stopped" => stop[t] \in PtraceStops
        /\ run[current] = "stopped" => ~fresh[current]
    BY <1>1, <1>2, <1>a DEF LoopInv
  <1>3. LoopInv'
    <2>1. run[Root] \in Waitable /\ Root \in Task
      BY <1>2, <1>a, RootAssumption DEF LoopInv
    <2>2. \A t \in Task : /\ msg[t] \in Task /\ run[msg[t]] # "unborn"
                          /\ t \in tasks => run[t] # "unborn"
      BY <1>2, <1>a DEF LoopInv, TypeOK
    <2>3. \A t \in Task : /\ run[t] # "unborn" => run'[t] # "unborn"
                          /\ msg'[t] \in {msg[t], Root}
                          /\ run[t] \in Waitable => run'[t] \in Waitable
      BY <1>1, <1>b DEF Continued, Waitable, Alive
    <2>4. \A t \in Task : run'[msg'[t]] # "unborn" /\ (t \in tasks => run'[t] # "unborn")
      BY <2>1, <2>2, <2>3 DEF Waitable, Alive
    <2>5. \A t \in Task : /\ fresh'[t] => run'[t] \in {"stopped", "zombie"}
                          /\ run'[t] = "stopped" => stop'[t] \in PtraceStops /\ fresh'[t]
                          /\ run'[t] = "zombie" => stop'[t] \in {"exited", "signaled"}
      BY <1>1, <1>2, <1>a, <1>b, <1>c DEF Continued, LoopInv
    <2> QED
      BY <1>a, <2>1, <2>3, <2>4, <2>5 DEF LoopInv
  <1>4. PhaseInv'
    <2> SUFFICES ASSUME NEW t \in Task \ unsynced, run'[t] \in Alive
                 PROVE  (t \in tasks /\ phase[t] = "exit") <=> InsideCall(t)'
      BY <1>a DEF PhaseInv
    <2>1. CASE t = current /\ run[current] = "stopped"
      <3>1. /\ run'[t] = IF stop[t] \in {"exit", "signal"} THEN "user" ELSE "incall"
            /\ stop[t] \in PtraceStops /\ ~fresh[t]
        BY <1>b, <1>c, <2>1 DEF Continued, Alive
      <3>2. (t \in tasks /\ phase[t] = "exit") <=> InsideCall(t)
        BY <2>1 DEF Ind, PhaseInv, Alive
      <3> QED
        BY <1>a, <2>1, <3>1, <3>2 DEF InsideCall, Unhandled, PtraceStops
    <2>2. CASE t # current \/ run[current] # "stopped"
      <3>1. run'[t] = run[t] /\ stop'[t] = stop[t] /\ fresh'[t] = fresh[t]
        BY <1>b, <2>2 DEF Continued
      <3>2. (t \in tasks /\ phase[t] = "exit") <=> InsideCall(t)
        BY <3>1 DEF Ind, PhaseInv
      <3> QED
        BY <1>a, <3>1, <3>2 DEF InsideCall, Unhandled
    <2> QED
      BY <2>1, <2>2
  <1>5. OffenderInv' /\ RetInv'
    <2>1. offender => run'[current] \in {"zombie", "gone"}
      BY <1>1, <1>2, <1>a, <1>b, <1>c DEF Ind, OffenderInv, Continued, LoopInv
    <2> QED
      BY <1>a, <2>1 DEF Ind, OffenderInv, RetInv, RootStatusFaithful
  <1> QED
    BY <1>3, <1>4, <1>5 DEF Ind

\* Going to waitpid without a resume, after an exit, keeps the invariant.
LEMMA NoResumeInd ==
    ASSUME TypeOK, Ind, NoResume
    PROVE  Ind'
  BY SMTT(60) DEF TypeOK, Ind, NoResume, LoopInv, PhaseInv, OffenderInv, RetInv, RootStatusFaithful,
         InsideCall, Unhandled, Alive, Waitable, PtraceStops, kernel, registry, policy

\* Collecting any stop or death with waitpid keeps the invariant.
LEMMA WaitInd ==
    ASSUME TypeOK, Ind, NEW t \in Task, Wait(t)
    PROVE  Ind'
  <1> USE RootAssumption DEF TypeOK, Ind, Wait, LoopInv, Alive, Waitable, PtraceStops, registry
  <1>1. LoopInv'
    BY SMTT(60)
  <1>2. PhaseInv'
    BY SMTT(60) DEF PhaseInv, InsideCall, Unhandled
  <1>3. OffenderInv' /\ RetInv'
    BY DEF OffenderInv, RetInv, RootStatusFaithful
  <1> QED
    BY <1>1, <1>2, <1>3


\* The two failing returns keep the invariant: neither claims a root status.
LEMMA NoTasksInd ==
    ASSUME TypeOK, Ind, NoTasks \/ EventMessageFails
    PROVE  Ind'
  <1>1. Return("failure") /\ pc # "returned" /\ UNCHANGED <<tasks, phase, offender, unsynced>>
    BY DEF NoTasks, EventMessageFails, registry, policy
  <1>2. pc = "handle" => run[current] # "stopped"
    BY DEF NoTasks, EventMessageFails
  <1>a. LoopInv /\ PhaseInv
    BY DEF Ind
  <1>b. /\ pc' = "returned"
        /\ \A t \in Task \ {Root} : run'[t] = run[t] /\ stop'[t] = stop[t] /\ fresh'[t] = fresh[t]
        /\ \/ UNCHANGED <<run, stop, fresh>> /\ run[Root] \notin Alive
           \/ run'[Root] = "zombie" /\ fresh'[Root] /\ stop'[Root] = "signaled" /\ run[Root] \in Alive
    BY <1>1, ReturnEffect
  <1>3. LoopInv'
    <2>1. \A t \in Task : /\ fresh'[t] => run'[t] \in {"stopped", "zombie"}
                          /\ run'[t] = "stopped" => stop'[t] \in PtraceStops
                          /\ run'[t] = "zombie" => stop'[t] \in {"exited", "signaled"}
      BY SMTT(60), <1>a, <1>b DEF LoopInv
    <2> QED
      BY <1>b, <2>1 DEF LoopInv
  <1>4. PhaseInv'
    <2> SUFFICES ASSUME NEW t \in Task \ unsynced, run'[t] \in Alive
                 PROVE  (t \in tasks /\ phase[t] = "exit") <=> InsideCall(t)'
      BY <1>1 DEF PhaseInv
    <2>1. run'[t] = run[t] /\ stop'[t] = stop[t] /\ fresh'[t] = fresh[t]
      BY <1>b DEF Alive
    <2>2. (t \in tasks /\ phase[t] = "exit") <=> InsideCall(t)
      BY <1>a, <2>1 DEF PhaseInv
    <2> QED
      BY <1>2, <1>b, <2>1, <2>2 DEF InsideCall, Unhandled
  <1>5. OffenderInv' /\ RetInv'
    BY SMTT(60), <1>1, ReturnEffect DEF OffenderInv, RetInv, RootStatusFaithful
  <1> QED
    BY <1>3, <1>4, <1>5 DEF Ind

\* Handling a death keeps the invariant: a dead root ends the loop.
LEMMA HandleExitInd ==
    ASSUME TypeOK, Ind, HandleExit
    PROVE  Ind'
  <1>1. status[1] \in {"exited", "signaled"}
    BY ClassifyStop DEF HandleExit, TypeOK
  <1>2. run[current] = "gone" /\ stop[current] = status[1]
    BY <1>1 DEF Ind, LoopInv, HandleExit
  <1>3. CASE current = Root
    <2>1. Return(status[1]) /\ erase(current) /\ pc = "handle" /\ UNCHANGED <<offender, unsynced>>
      BY <1>3 DEF HandleExit
    <2>2. /\ pc' = "returned" /\ ret' = status[1]
          /\ UNCHANGED <<run, stop, fresh, msg, current, resume_current, offender, unsynced>>
      BY <1>2, <1>3, <2>1 DEF Return, kernel, Alive
    <2>3. tasks' = tasks \ {current} /\ phase' = [phase EXCEPT ![current] = "entry"]
      BY <2>1 DEF erase
    <2>4. LoopInv'
      BY <2>2 DEF Ind, LoopInv
    <2>5. PhaseInv'
      BY SMTT(60), <1>2, <2>1, <2>2, <2>3 DEF TypeOK, Ind, LoopInv, PhaseInv, InsideCall, Unhandled, Alive
    <2>6. OffenderInv' /\ RetInv'
      BY <1>2, <1>3, <2>2 DEF OffenderInv, RetInv, RootStatusFaithful
    <2> QED
      BY SMTT(60), <2>4, <2>5, <2>6 DEF Ind
  <1>4. CASE current # Root
    <2> USE <1>1, <1>2, <1>4, RootAssumption DEF TypeOK, Ind, HandleExit, erase, kernel
    <2>1. LoopInv'
      BY SMTT(60) DEF LoopInv, Alive, Waitable, PtraceStops
    <2>2. PhaseInv'
      BY SMTT(60) DEF LoopInv, PhaseInv, InsideCall, Unhandled, Alive
    <2>3. OffenderInv' /\ RetInv'
      BY DEF OffenderInv, RetInv, RootStatusFaithful
    <2> QED
      BY <2>1, <2>2, <2>3
  <1> QED
    BY <1>3, <1>4


\* After any handler that ends in ResumeNext the task at hand, if it is still
\* stopped, is the one the loop resumes next.
LEMMA ResumeNextInd ==
    ASSUME TypeOK, Ind, pc = "handle", ResumeNext, tasks' \subseteq tasks \cup {msg[current]},
           status[1] \notin {"exited", "signaled"}
    PROVE  LoopInv'
  <1>1. run[msg[current]] # "unborn"
    BY DEF Ind, LoopInv, TypeOK
  <1> QED
    BY SMTT(60), <1>1 DEF TypeOK, Ind, LoopInv, ResumeNext, kernel, Alive, Waitable, PtraceStops

\* The clone event keeps the invariant: a child starts at entry, in user mode.
LEMMA HandleCloneInd ==
    ASSUME TypeOK, Ind, HandleClone
    PROVE  Ind'
  <1>1. tasks' \subseteq tasks \cup {msg[current]}
    BY DEF HandleClone, insert_child, registry
  <1>2. LoopInv'
    BY <1>1, ResumeNextInd DEF HandleClone
  <1>3. PhaseInv'
    <2> USE DEF TypeOK, Ind, HandleClone, LoopInv, PhaseInv, InsideCall, Unhandled, Alive, ResumeNext,
                kernel, registry, insert_child
    <2>1. stop[current] = "clone" /\ run[current] = "stopped"
      BY SMTT(60)
    <2>2. CASE current \in tasks
      BY SMTT(60), <2>1, <2>2
    <2>3. CASE current \notin tasks
      BY SMTT(60), <2>1, <2>3
    <2> QED
      BY <2>2, <2>3
  <1>4. OffenderInv' /\ RetInv'
    BY DEF TypeOK, Ind, HandleClone, OffenderInv, RetInv, RootStatusFaithful, ResumeNext, kernel
  <1> QED
    BY SMTT(60), <1>2, <1>3, <1>4 DEF Ind

\* The exec event keeps the invariant, the task being excepted from parity.
LEMMA HandleExecInd ==
    ASSUME TypeOK, Ind, HandleExec
    PROVE  Ind'
  <1>1. LoopInv'
    BY ResumeNextInd DEF HandleExec
  <1>2. PhaseInv'
    BY DEF TypeOK, Ind, HandleExec, LoopInv, PhaseInv, InsideCall, Unhandled, Alive, ResumeNext, kernel
  <1>3. OffenderInv' /\ RetInv'
    BY DEF TypeOK, Ind, HandleExec, OffenderInv, RetInv, RootStatusFaithful, ResumeNext, kernel, policy
  <1> QED
    BY SMTT(60), <1>1, <1>2, <1>3 DEF Ind

\* Signal and group stops keep the invariant: they change no phase.
LEMMA HandleSignalInd ==
    ASSUME TypeOK, Ind, HandleSignal
    PROVE  Ind'
  <1>0. status[1] \in {"signal", "none"}
    BY ClassifyStop DEF HandleSignal, TypeOK
  <1>1. LoopInv'
    BY <1>0, ResumeNextInd DEF HandleSignal, registry
  <1>2. PhaseInv'
    BY SMTT(60), <1>0 DEF TypeOK, Ind, HandleSignal, LoopInv, PhaseInv, InsideCall, Unhandled, Alive, PtraceStops,
                ResumeNext, kernel, registry
  <1>3. OffenderInv' /\ RetInv'
    BY DEF TypeOK, Ind, HandleSignal, OffenderInv, RetInv, RootStatusFaithful, ResumeNext, kernel, policy
  <1> QED
    BY SMTT(60), <1>1, <1>2, <1>3 DEF Ind

\* An unregistered syscall stop keeps the invariant, the task being excepted.
LEMMA HandleUnknownInd ==
    ASSUME TypeOK, Ind, HandleUnknown
    PROVE  Ind'
  <1>0. status[1] \in {"entry", "exit"}
    BY ClassifyStop DEF HandleUnknown, TypeOK
  <1>1. LoopInv'
    BY <1>0, ResumeNextInd DEF HandleUnknown, registry
  <1>2. PhaseInv'
    BY <1>0 DEF TypeOK, Ind, HandleUnknown, LoopInv, PhaseInv, InsideCall, Unhandled, Alive,
                ResumeNext, kernel, registry
  <1>3. OffenderInv' /\ RetInv'
    BY DEF TypeOK, Ind, HandleUnknown, OffenderInv, RetInv, RootStatusFaithful, ResumeNext, kernel, policy
  <1> QED
    BY SMTT(60), <1>1, <1>2, <1>3 DEF Ind

\* PTRACE_GETREGS fails only on a task that is no longer alive.
LEMMA RegistersFailInd ==
    ASSUME TypeOK, Ind, RegistersFail
    PROVE  Ind'
  <1>0. status[1] \in {"entry", "exit"}
    BY ClassifyStop DEF RegistersFail, TypeOK
  <1>1. LoopInv'
    BY <1>0, ResumeNextInd DEF RegistersFail, erase
  <1>2. PhaseInv'
    BY SMTT(60), <1>0 DEF TypeOK, Ind, RegistersFail, erase, LoopInv, PhaseInv, InsideCall, Unhandled, Alive,
                ResumeNext, kernel
  <1>3. OffenderInv' /\ RetInv'
    BY DEF TypeOK, Ind, RegistersFail, OffenderInv, RetInv, RootStatusFaithful, ResumeNext, kernel, policy
  <1> QED
    BY SMTT(60), <1>1, <1>2, <1>3 DEF Ind

\* A decoded syscall stop flips the phase and hands a denial to the next resume.
LEMMA HandleSyscallInd ==
    ASSUME TypeOK, Ind, NEW event \in BOOLEAN, NEW verdict \in BOOLEAN, HandleSyscall(event, verdict)
    PROVE  Ind'
  <1>0. status[1] \in {"entry", "exit"}
    BY ClassifyStop DEF HandleSyscall, TypeOK
  <1>1. LoopInv'
    BY <1>0, ResumeNextInd DEF HandleSyscall
  <1>2. PhaseInv'
    BY SMTT(60), <1>0 DEF TypeOK, Ind, HandleSyscall, LoopInv, PhaseInv, InsideCall, Unhandled, Alive,
                ResumeNext, kernel
  <1>3. OffenderInv' /\ RetInv'
    BY SMTT(60), <1>0 DEF TypeOK, Ind, HandleSyscall, LoopInv, OffenderInv, RetInv, RootStatusFaithful, ResumeNext,
                kernel, emit
  <1> QED
    BY <1>1, <1>2, <1>3 DEF Ind

\* Stuttering keeps the invariant.
LEMMA StutterInd ==
    ASSUME Ind, UNCHANGED vars
    PROVE  Ind'
  <1> USE DEF vars, kernel, loop, registry, policy
  <1>1. LoopInv'
    BY DEF Ind, LoopInv
  <1>2. PhaseInv'
    BY DEF Ind, PhaseInv, InsideCall, Unhandled
  <1>3. OffenderInv' /\ RetInv'
    BY DEF Ind, OffenderInv, RetInv, RootStatusFaithful
  <1> QED
    BY <1>1, <1>2, <1>3 DEF Ind

\* run() and its tracees keep the inductive invariant, for any number of tasks
\* and any policy.
THEOREM Invariance == Spec => []IndInv
  <1>1. Init => IndInv
    BY InitTypeOK, InitInd DEF IndInv, Ind
  <1>2. IndInv /\ [Next]_vars => IndInv'
    <2> SUFFICES ASSUME TypeOK, Ind, TypeOK', [Next]_vars PROVE Ind'
      BY KernelTypeOK, TracerTypeOK DEF IndInv
    <2>1. CASE Kernel
      BY <2>1, KernelLoopInv, KernelPhaseInv, KernelOffenderInv DEF Ind
    <2>2. CASE Start \/ \E forked \in BOOLEAN : StartFails(forked)
      BY <2>2, StartInd
    <2>3. CASE Resume
      BY <2>3, ResumeInd
    <2>4. CASE NoResume
      BY <2>4, NoResumeInd
    <2>5. CASE NoTasks \/ EventMessageFails
      BY <2>5, NoTasksInd
    <2>6. ASSUME NEW t \in Task, Wait(t) PROVE Ind'
      BY <2>6, WaitInd
    <2>7. CASE HandleExit
      BY SMTT(60), <2>7, HandleExitInd
    <2>8. CASE HandleClone
      BY SMTT(60), <2>8, HandleCloneInd
    <2>9. CASE HandleExec
      BY SMTT(60), <2>9, HandleExecInd
    <2>10. CASE HandleSignal
      BY SMTT(60), <2>10, HandleSignalInd
    <2>11. CASE HandleUnknown
      BY SMTT(60), <2>11, HandleUnknownInd
    <2>12. CASE RegistersFail
      BY SMTT(60), <2>12, RegistersFailInd
    <2>13. ASSUME NEW event \in BOOLEAN, NEW verdict \in BOOLEAN, HandleSyscall(event, verdict)
           PROVE  Ind'
      BY <2>13, HandleSyscallInd
    <2>14. CASE UNCHANGED vars
      BY <2>14, StutterInd
    <2> QED
      BY <2>1, <2>2, <2>3, <2>4, <2>5, <2>6, <2>7, <2>8, <2>9, <2>10, <2>11, <2>12, <2>13, <2>14
         DEF Next, Handle
  <1> QED
    BY <1>1, <1>2, PTL DEF Spec

\* No early `continue` of the loop leaves a collected stop unresumed.
THEOREM StoppedTasksResume == Spec => []NoTaskLeftStopped
  <1>1. IndInv => NoTaskLeftStopped
    BY DEF IndInv, Ind, LoopInv, NoTaskLeftStopped
  <1> QED
    BY <1>1, Invariance, PTL

\* waitpid(-1) always has a child: it never fails with ECHILD.
THEOREM WaitNeverFails == Spec => []WaitHasChild
  <1>1. IndInv => WaitHasChild
    BY DEF IndInv, Ind, LoopInv, WaitHasChild, Waitable
  <1> QED
    BY <1>1, Invariance, PTL

\* The entry/exit phase of the registry agrees with the kernel, outside exec and
\* stops that came before registration.
THEOREM ParityKept == Spec => []PhaseAgrees
  <1>1. IndInv => PhaseAgrees
    BY DEF IndInv, Ind, PhaseInv, PhaseAgrees, TypeOK
  <1> QED
    BY <1>1, Invariance, PTL

\* A denied system call event kills its task before the loop waits again.
THEOREM DenialKills == Spec => []OffenderKilled
  <1>1. IndInv => OffenderKilled
    BY DEF IndInv, Ind, OffenderInv, OffenderKilled, Alive
  <1> QED
    BY <1>1, Invariance, PTL

\* A success or 128+signal result comes from the death of the root itself.
THEOREM StatusFromRoot == Spec => []RootStatusFaithful
  <1>1. IndInv => RootStatusFaithful
    BY DEF IndInv, Ind, RetInv
  <1> QED
    BY <1>1, Invariance, PTL

-----------------------------------------------------------------------------
\* What resume_signal makes of a signal stop waits in pending_signal for the resume.
SignalInv ==
    pc = "loop" /\ resume_current /\ run[current] = "stopped" /\ stop[current] = "signal"
       /\ sig[current] \in SentSignals \cup {"STOP"}
    => pending_signal = Injected(sig[current])

\* Nothing is pending or denied before the first event.
StartInv == pc = "start" => pending_signal = NoSignal /\ ~denied

\* The loop never comes back to its start.
LEMMA StartOnce ==
    ASSUME StartInv, [Next]_vars
    PROVE  StartInv'
  <1>1. CASE Kernel \/ UNCHANGED vars
    BY <1>1 DEF Kernel, EnterCall, ForkChild, CloneStop, ExecStop, CallExit, ExitCall, Signal, Kill,
                tracer, loop, policy, StartInv, vars
  <1>2. CASE Next /\ ~Kernel
    <2>1. pc' # "start"
      BY <1>2 DEF Next, Handle, Start, StartFails, Resume, NoResume, NoTasks, Wait, HandleExit,
                  EventMessageFails, HandleClone, HandleExec, HandleSignal, HandleUnknown,
                  RegistersFail, HandleSyscall, ResumeNext, Return
    <2> QED
      BY <2>1 DEF StartInv
  <1> QED
    BY <1>1, <1>2

\* Tracee steps keep SignalInv: the task at hand leaves its stop only by dying.
LEMMA KernelSignalInv ==
    ASSUME TypeOK, LoopInv, SignalInv, Kernel
    PROVE  SignalInv'
  <1>1. UNCHANGED <<pc, current, resume_current, pending_signal>>
    BY DEF Kernel, EnterCall, ForkChild, CloneStop, ExecStop, CallExit, ExitCall, Signal, Kill,
           tracer, loop
  <1>2. StopsKept /\ current \in Task
    BY KernelStops DEF TypeOK
  <1>3. pc = "loop" /\ resume_current => run[current] \in {"stopped", "zombie", "gone"}
    BY DEF LoopInv
  <1> QED
    BY <1>1, <1>2, <1>3 DEF SignalInv, StopsKept

\* The steps of run() keep SignalInv: only HandleSignal resumes from a signal stop.
LEMMA TracerSignalInv ==
    ASSUME TypeOK, LoopInv, SignalInv, StartInv, [Next]_vars, ~Kernel
    PROVE  SignalInv'
  <1> USE DEF SignalInv
  <1>1. CASE Start
    BY SMTT(60), <1>1, RootAssumption DEF Start, StartInv, emit, TypeOK, LoopInv, Injected
  <1>2. CASE HandleSignal
    <2>1. status[1] \in {"signal", "none"}
      BY <1>2, ClassifyStop DEF HandleSignal, TypeOK
    <2>2. run[current] = "stopped" => status = <<stop[current], sig[current]>>
      BY <1>2 DEF HandleSignal, LoopInv
    <2> QED
      BY SMTT(60), <1>2, <2>1, <2>2 DEF HandleSignal, ResumeNext, kernel, resume_signal, classify_stop,
                              Injected, SentSignals, StopSignals, TypeOK
  <1>3. CASE \/ HandleClone \/ HandleExec \/ HandleUnknown \/ RegistersFail
             \/ \E event, verdict \in BOOLEAN : HandleSyscall(event, verdict)
    <2>1. status[1] \in {"clone", "exec", "entry", "exit"} /\ pc = "handle" /\ ResumeNext
      BY <1>3, ClassifyStop DEF HandleClone, HandleExec, HandleUnknown, RegistersFail, HandleSyscall, TypeOK
    <2>2. run[current] = "stopped" => stop[current] = status[1]
      BY SMTT(60), <2>1 DEF LoopInv
    <2>3. UNCHANGED <<run, stop, current>>
      BY <2>1 DEF ResumeNext, kernel
    <2> QED
      BY <2>1, <2>2, <2>3
  <1>4. CASE HandleExit
    <2>1. pc' = "returned" \/ (pc = "handle" /\ resume_current' = resume_current)
      BY <1>4 DEF HandleExit, Return
    <2> QED
      BY <2>1 DEF LoopInv
  <1>5. CASE \/ Resume \/ NoResume \/ NoTasks \/ EventMessageFails
             \/ (\E forked \in BOOLEAN : StartFails(forked)) \/ \E t \in Task : Wait(t)
    <2>1. pc' # "loop"
      BY <1>5 DEF Resume, NoResume, NoTasks, EventMessageFails, Return, StartFails, Wait
    <2> QED
      BY <2>1
  <1>6. CASE UNCHANGED vars
    BY <1>6 DEF vars, kernel, loop
  <1> QED
    BY <1>1, <1>2, <1>3, <1>4, <1>5, <1>6 DEF Next, Handle

\* Every resume from a signal stop injects what resume_signal makes of that
\* stop's own signal: the signal, or none for a job-control stop or a SIGTRAP.
THEOREM SignalsPassedOn == Spec => SignalForwarded
  <1>1. Init => SignalInv /\ StartInv
    BY DEF Init, SignalInv, StartInv
  <1>2. IndInv /\ SignalInv /\ StartInv /\ [Next]_vars => SignalInv' /\ StartInv'
    BY KernelSignalInv, TracerSignalInv, StartOnce DEF IndInv, Ind
  <1>3. SignalInv => (\A t \in Task : \A s \in SentSignals \cup {"STOP"} :
                         ResumesFrom(t, s) => pending_signal = Injected(s))
    BY DEF SignalInv, ResumesFrom
  <1> QED
    BY <1>1, <1>2, <1>3, Invariance, PTL DEF Spec, SignalForwarded

=============================================================================
