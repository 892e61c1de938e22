------------------------------- MODULE Capture -------------------------------
(***************************************************************************)
(* execell::sandbox::run_captured (src/src/sandbox/sandbox.cpp), called by *)
(* one or several threads of a process at the same time: each makes two    *)
(* pipes, forks a child that runs the sandbox, drains the pipes until end  *)
(* of file, the output limit or the deadline, and reaps the child.         *)
(*                                                                         *)
(* The threads share one descriptor table; a child inherits every pipe     *)
(* that is open when it is forked, also those of other threads.  Each task *)
(* may leave a descendant (the background job of a script) that holds on   *)
(* to the pipes its parent had.  Output comes in chunks of one unit, as    *)
(* many as the task likes; the counters stop where no code or property     *)
(* tells larger values apart.                                              *)
(***************************************************************************)
EXTENDS Naturals

CONSTANTS
    Worker,       \* threads calling run_captured
    Fd,           \* descriptor numbers
    OutputLimit,  \* output_limit
    PipeSize      \* chunks a pipe holds before its writer blocks

ASSUME BoundAssumption == OutputLimit \in Nat /\ PipeSize \in Nat /\ Fd \subseteq Nat

\* A counter that stops at a bound.
Counted(n, bound) == IF n < bound THEN n + 1 ELSE n

\* Without output_limited no more than this was written to one pipe.
MostWritten == OutputLimit + PipeSize

Stream == {"out", "err"}
Pipe == Worker \X Stream
Proc == Worker \X {"child", "rest"}

VARIABLES
    \* kernel
    fdtab,      \* descriptor table of the calling process
    held,       \* processes that hold the write end of a pipe
    buffer,     \* chunks in a pipe
    written,    \* chunks ever written to a pipe, up to MostWritten
    proc,       \* the child of each call and its descendant
    killed,     \* the child of a call was killed
    late,       \* the deadline of a call has passed
    \* run_captured, per call
    pc,
    fd,         \* out_pipe[0] and err_pipe[0]
    wfd,        \* out_pipe[1] and err_pipe[1]
    open,       \* out_open and err_open
    total,      \* total_output, up to output_limit
    captured,   \* size of stdout_data and stderr_data together
    timed_out, output_limited, status,
    mixed,      \* history: calls that read the output of another
    missed      \* history: calls whose kill found no process group

kernel == <<fdtab, held, buffer, written, proc, killed, late>>
call == <<pc, fd, wfd, open, total, captured, timed_out, output_limited, status, mixed, missed>>
vars == <<kernel, call>>

NoEnd == <<"free">>
ReadEnd(p) == <<"r", p>>
WriteEnd(p) == <<"w", p>>
Ends == {NoEnd} \cup {ReadEnd(p) : p \in Pipe} \cup {WriteEnd(p) : p \in Pipe}

Init ==
    /\ fdtab = [n \in Fd |-> NoEnd]
    /\ held = [p \in Pipe |-> {}]
    /\ buffer = [p \in Pipe |-> 0]
    /\ written = [p \in Pipe |-> 0]
    /\ proc = [q \in Proc |-> "unborn"]
    /\ killed = {}
    /\ late = {}
    /\ pc = [w \in Worker |-> "start"]
    /\ fd = [w \in Worker |-> [s \in Stream |-> 0]]
    /\ wfd = [w \in Worker |-> [s \in Stream |-> 0]]
    /\ open = [w \in Worker |-> {}]
    /\ total = [w \in Worker |-> 0]
    /\ captured = [w \in Worker |-> 0]
    /\ timed_out = {}
    /\ output_limited = {}
    /\ status = [w \in Worker |-> "none"]
    /\ mixed = {}
    /\ missed = {}

-----------------------------------------------------------------------------
(***************************************************************************)
(* The processes a call starts.                                            *)
(***************************************************************************)
\* setpgid, dup2 and close of the call's own pipes, then sandbox::run.
ChildSetup(w) ==
    /\ proc[<<w, "child">>] = "forked"
    /\ proc' = [proc EXCEPT ![<<w, "child">>] = "live"]
    /\ UNCHANGED <<fdtab, held, buffer, written, killed, late, call>>

\* The target leaves a descendant behind, with every pipe the target has.
Spawn(w) ==
    /\ proc[<<w, "child">>] = "live" /\ proc[<<w, "rest">>] = "unborn"
    /\ proc' = [proc EXCEPT ![<<w, "rest">>] = "live"]
    /\ held' = [p \in Pipe |-> IF <<w, "child">> \in held[p] THEN held[p] \cup {<<w, "rest">>} ELSE held[p]]
    /\ UNCHANGED <<fdtab, buffer, written, killed, late, call>>

\* The target or its descendant writes to its own stdout or stderr, at any
\* time the pipe has room, and never has to stop.
Output(q, s) ==
    LET p == <<q[1], s>> IN
    /\ proc[q] = "live" /\ q \in held[p]
    /\ buffer[p] < PipeSize
    /\ buffer' = [buffer EXCEPT ![p] = @ + 1]
    /\ written' = [written EXCEPT ![p] = Counted(@, MostWritten)]
    /\ UNCHANGED <<fdtab, held, proc, killed, late, call>>

\* A process ends by itself; its descriptors are closed one after the other.
Exits(q) ==
    /\ proc[q] = "live"
    /\ proc' = [proc EXCEPT ![q] = "exiting"]
    /\ UNCHANGED <<fdtab, held, buffer, written, killed, late, call>>

Release(q, p) ==
    /\ proc[q] = "exiting" \/ (proc[q] = "live" /\ q[2] = "rest")
    /\ q \in held[p]
    /\ held' = [held EXCEPT ![p] = @ \ {q}]
    /\ UNCHANGED <<fdtab, buffer, written, proc, killed, late, call>>

Dies(q) ==
    /\ proc[q] = "exiting" /\ \A p \in Pipe : q \notin held[p]
    /\ proc' = [proc EXCEPT ![q] = IF q[2] = "child" THEN "zombie" ELSE "gone"]
    /\ UNCHANGED <<fdtab, held, buffer, written, killed, late, call>>

\* The deadline passes, however far the child has come.
Deadline(w) ==
    /\ pc[w] \notin {"start", "fork", "close", "done"}
    /\ late' = late \cup {w}
    /\ UNCHANGED <<fdtab, held, buffer, written, proc, killed, call>>

-----------------------------------------------------------------------------
(***************************************************************************)
(* run_captured.                                                           *)
(***************************************************************************)
Goto(w, next) == pc' = [pc EXCEPT ![w] = next]

\* pipe(out_pipe), pipe(err_pipe), with the numbers they return.
Pipes(w, a, b, c, d) ==
    /\ fdtab' = [fdtab EXCEPT ![a] = ReadEnd(<<w, "out">>), ![b] = WriteEnd(<<w, "out">>),
                              ![c] = ReadEnd(<<w, "err">>), ![d] = WriteEnd(<<w, "err">>)]
    /\ fd' = [fd EXCEPT ![w] = [s \in Stream |-> IF s = "out" THEN a ELSE c]]
    /\ wfd' = [wfd EXCEPT ![w] = [s \in Stream |-> IF s = "out" THEN b ELSE d]]

Free == {n \in Fd : fdtab[n] = NoEnd}

\* The lowest free descriptors, in order.
OpenPipes(w) ==
    /\ pc[w] = "start"
    /\ \E a, b, c, d \in Free :
          /\ a < b /\ b < c /\ c < d /\ \A n \in Free : n < d => n \in {a, b, c}
          /\ Pipes(w, a, b, c, d)
    /\ Goto(w, "fork")
    /\ UNCHANGED <<held, buffer, written, proc, killed, late, open, total, captured,
                   timed_out, output_limited, status, mixed, missed>>

\* pipe or fork fails: what was opened is closed and status stays -1.
StartFails(w) ==
    /\ pc[w] \in {"start", "fork"}
    /\ fdtab' = IF pc[w] = "start" THEN fdtab
                ELSE [n \in Fd |-> IF \E s \in Stream : n \in {fd[w][s], wfd[w][s]} THEN NoEnd ELSE fdtab[n]]
    /\ Goto(w, "done")
    /\ UNCHANGED <<held, buffer, written, proc, killed, late, fd, wfd, open, total, captured,
                   timed_out, output_limited, status, mixed, missed>>

\* The child inherits every descriptor and closes only those of its own call.
Fork(w) ==
    /\ pc[w] = "fork"
    /\ proc' = [proc EXCEPT ![<<w, "child">>] = "forked"]
    /\ held' = [p \in Pipe |-> IF \E n \in Fd : fdtab[n] = WriteEnd(p)
                               THEN held[p] \cup {<<w, "child">>} ELSE held[p]]
    /\ Goto(w, "close")
    /\ UNCHANGED <<fdtab, buffer, written, killed, late, fd, wfd, open, total, captured,
                   timed_out, output_limited, status, mixed, missed>>

CloseWriteEnds(w) ==
    /\ pc[w] = "close"
    /\ fdtab' = [n \in Fd |-> IF \E s \in Stream : n = wfd[w][s] THEN NoEnd ELSE fdtab[n]]
    /\ open' = [open EXCEPT ![w] = Stream]
    /\ Goto(w, "out")
    /\ UNCHANGED <<held, buffer, written, proc, killed, late, fd, wfd, total, captured,
                   timed_out, output_limited, status, mixed, missed>>

\* After draining stdout comes stderr, then the checks of the loop.
AfterDrain(s) == IF s = "out" THEN "err" ELSE "check"
ClosePoint(s) == IF s = "out" THEN "close_out" ELSE "close_err"

\* One read() of drain with data; the descriptor may not be the call's own.
ReadData(w, s, p) ==
    /\ pc[w] = s /\ fdtab[fd[w][s]] = ReadEnd(p) /\ buffer[p] > 0
    /\ buffer' = [buffer EXCEPT ![p] = @ - 1]
    /\ captured' = [captured EXCEPT ![w] = IF total[w] < OutputLimit THEN @ + 1 ELSE @]
    /\ total' = [total EXCEPT ![w] = Counted(@, OutputLimit)]
    /\ output_limited' = IF total'[w] >= OutputLimit THEN output_limited \cup {w} ELSE output_limited
    /\ mixed' = IF p = <<w, s>> THEN mixed ELSE mixed \cup {w}
    /\ UNCHANGED <<fdtab, held, written, proc, killed, late, pc, fd, wfd, open, timed_out, status, missed>>

HasWriter(p) == held[p] # {} \/ \E n \in Fd : fdtab[n] = WriteEnd(p)

\* EAGAIN.
ReadNothing(w, s, p) ==
    /\ pc[w] = s /\ fdtab[fd[w][s]] = ReadEnd(p) /\ buffer[p] = 0 /\ HasWriter(p)
    /\ Goto(w, AfterDrain(s))
    /\ UNCHANGED <<kernel, fd, wfd, open, total, captured, timed_out, output_limited, status, mixed, missed>>

\* End of file, or EBADF of a descriptor that is closed or no read end.
ReadEnds(w, s) ==
    LET e == fdtab[fd[w][s]] IN
    /\ pc[w] = s
    /\ \A p \in Pipe : e = ReadEnd(p) => buffer[p] = 0 /\ ~HasWriter(p)
    /\ open' = [open EXCEPT ![w] = @ \ {s}]
    /\ Goto(w, ClosePoint(s))
    /\ UNCHANGED <<kernel, fd, wfd, total, captured, timed_out, output_limited, status, mixed, missed>>

\* close(fd) of drain: whatever the number means by now.
CloseDrained(w, s) ==
    /\ pc[w] = ClosePoint(s)
    /\ fdtab' = [fdtab EXCEPT ![fd[w][s]] = NoEnd]
    /\ Goto(w, AfterDrain(s))
    /\ UNCHANGED <<held, buffer, written, proc, killed, late, fd, wfd, open, total, captured,
                   timed_out, output_limited, status, mixed, missed>>

\* kill(-child, SIGKILL) reaches the child's process group; the target's own
\* group is reached through the parent death signal of its sandbox.  There is no
\* such group (ESRCH) until the child has called setpgid.
KillGroup(w) ==
    /\ IF proc[<<w, "child">>] = "live"
       THEN /\ proc' = [proc EXCEPT ![<<w, "child">>] = "exiting"]
            /\ killed' = killed \cup {w}
       ELSE UNCHANGED <<proc, killed>>
    /\ missed' = IF proc[<<w, "child">>] = "forked" THEN missed \cup {w} ELSE missed

\* Mutant: the loop runs only while both pipes are open.
CheckBothOpen(w) ==
    /\ pc[w] = "check"
    /\ IF w \in output_limited \/ w \in late
       THEN KillGroup(w) /\ Goto(w, "finish")
       ELSE /\ Goto(w, IF open[w] = Stream THEN "out" ELSE "finish")
            /\ UNCHANGED <<proc, killed, missed>>
    /\ timed_out' = IF w \notin output_limited /\ w \in late THEN timed_out \cup {w} ELSE timed_out
    /\ UNCHANGED <<fdtab, held, buffer, written, late, fd, wfd, open, total, captured,
                   output_limited, status, mixed>>

\* Mutant: the deadline ends the loop and nobody kills the child.
CheckNoKill(w) ==
    /\ pc[w] = "check"
    /\ Goto(w, IF w \notin output_limited \cup late /\ open[w] # {} THEN "out" ELSE "finish")
    /\ timed_out' = IF w \notin output_limited /\ w \in late THEN timed_out \cup {w} ELSE timed_out
    /\ UNCHANGED <<kernel, fd, wfd, open, total, captured, output_limited, status, mixed, missed>>

Check(w) ==
    /\ pc[w] = "check"
    /\ IF w \in output_limited \/ w \in late
       THEN KillGroup(w) /\ Goto(w, "finish")
       ELSE /\ Goto(w, IF open[w] # {} THEN "out" ELSE "finish")
            /\ UNCHANGED <<proc, killed, missed>>
    /\ timed_out' = IF w \notin output_limited /\ w \in late THEN timed_out \cup {w} ELSE timed_out
    /\ UNCHANGED <<fdtab, held, buffer, written, late, fd, wfd, open, total, captured,
                   output_limited, status, mixed>>

\* Mutant: the read ends stay open after a kill.
FinishOpen(w) ==
    /\ pc[w] = "finish"
    /\ Goto(w, "reap")
    /\ UNCHANGED <<kernel, fd, wfd, open, total, captured, timed_out, output_limited, status, mixed, missed>>

\* Read ends still open are closed.
Finish(w) ==
    /\ pc[w] = "finish"
    /\ fdtab' = [n \in Fd |-> IF \E s \in open[w] : n = fd[w][s] THEN NoEnd ELSE fdtab[n]]
    /\ Goto(w, "reap")
    /\ UNCHANGED <<held, buffer, written, proc, killed, late, fd, wfd, open, total, captured,
                   timed_out, output_limited, status, mixed, missed>>

\* Mutant: the wait status is stored as it is.
ReapUndecoded(w) ==
    /\ pc[w] = "reap" /\ proc[<<w, "child">>] = "zombie"
    /\ proc' = [proc EXCEPT ![<<w, "child">>] = "gone"]
    /\ status' = [status EXCEPT ![w] = "raw"]
    /\ Goto(w, "done")
    /\ UNCHANGED <<fdtab, held, buffer, written, killed, late, fd, wfd, open, total, captured,
                   timed_out, output_limited, mixed, missed>>

\* waitpid(child) without a deadline.
Reap(w) ==
    /\ pc[w] = "reap" /\ proc[<<w, "child">>] = "zombie"
    /\ proc' = [proc EXCEPT ![<<w, "child">>] = "gone"]
    /\ status' = [status EXCEPT ![w] = IF w \in timed_out THEN "124" ELSE IF w \in killed THEN "KILL" ELSE "exit"]
    /\ Goto(w, "done")
    /\ UNCHANGED <<fdtab, held, buffer, written, killed, late, fd, wfd, open, total, captured,
                   timed_out, output_limited, mixed, missed>>

-----------------------------------------------------------------------------
Call(w) ==
    \/ OpenPipes(w)
    \/ Fork(w)
    \/ CloseWriteEnds(w)
    \/ \E s \in Stream, p \in Pipe : ReadData(w, s, p) \/ ReadNothing(w, s, p)
    \/ \E s \in Stream : ReadEnds(w, s) \/ CloseDrained(w, s)
    \/ Check(w)
    \/ Finish(w)
    \/ Reap(w)

Kernel(q) == ChildSetup(q[1]) \/ Dies(q) \/ \E p \in Pipe : proc[q] = "exiting" /\ Release(q, p)

Next ==
    \/ \E w \in Worker : Call(w) \/ StartFails(w) \/ ChildSetup(w) \/ Spawn(w) \/ Deadline(w)
    \/ \E q \in Proc : Exits(q) \/ Dies(q) \/ (\E s \in Stream : Output(q, s)) \/ (\E p \in Pipe : Release(q, p))

Spec == Init /\ [][Next]_vars

\* Threads are scheduled, time passes, and a process that exits or is killed
\* gets to its end; nothing is assumed of a target that keeps running.
FairSpec ==
    /\ Spec
    /\ \A w \in Worker : WF_vars(Call(w)) /\ WF_vars(Deadline(w))
    /\ \A q \in Proc : WF_vars(Kernel(q))

-----------------------------------------------------------------------------
(***************************************************************************)
(* Properties.                                                             *)
(***************************************************************************)
\* Types of every variable.
TypeOK ==
    /\ fdtab \in [Fd -> Ends]
    /\ held \in [Pipe -> SUBSET Proc]
    /\ buffer \in [Pipe -> Nat]
    /\ written \in [Pipe -> Nat]
    /\ proc \in [Proc -> {"unborn", "forked", "live", "exiting", "zombie", "gone"}]
    /\ killed \subseteq Worker
    /\ late \subseteq Worker
    /\ pc \in [Worker -> {"start", "fork", "close", "out", "close_out", "err", "close_err",
                          "check", "finish", "reap", "done"}]
    /\ fd \in [Worker -> [Stream -> Fd \cup {0}]]
    /\ wfd \in [Worker -> [Stream -> Fd \cup {0}]]
    /\ open \in [Worker -> SUBSET Stream]
    /\ total \in [Worker -> Nat]
    /\ captured \in [Worker -> Nat]
    /\ timed_out \subseteq Worker
    /\ output_limited \subseteq Worker
    /\ status \in [Worker -> {"none", "124", "KILL", "exit"}]
    /\ mixed \subseteq Worker
    /\ missed \subseteq Worker

\* What run_captured stores of stdout and stderr together is never more than
\* output_limit, although drain reads past the limit until the pipe is empty; it
\* is exactly the limit when output_limited is set, and everything the task wrote
\* to either pipe when the call ends by itself, in whatever order the child and
\* its descendant wrote, closed and ended.
OutputComplete ==
    \A w \in Worker :
        /\ captured[w] <= OutputLimit
        /\ w \in output_limited => captured[w] = OutputLimit
        /\ pc[w] \in {"reap", "done"} /\ w \notin timed_out \cup output_limited =>
               captured[w] = written[<<w, "out">>] + written[<<w, "err">>]

\* When every call has returned no pipe is left in the descriptor table.
NoDescriptorLeak ==
    (\A w \in Worker : pc[w] = "done") => \A n \in Fd : fdtab[n] = NoEnd

\* The kill came before the child's setpgid and is lost; the target keeps running.
KillLost(w) == <>[](w \in missed /\ proc[<<w, "child">>] = "live")

\* drain never finds the pipe empty: the task writes as fast as it is read, and
\* the loop in drain looks neither at the limit nor at the deadline.
Flooded(w) ==
    \E s \in Stream :
        /\ <>[](pc[w] = s)
        /\ []<><<\E k \in {"child", "rest"} : Output(<<w, k>>, s)>>_vars

\* A call returns, by its deadline at the latest, also when the target never
\* ends or a descendant keeps the pipes open.  It stays out for one of two
\* reasons only: waitpid waits for a target that outlived a lost kill, or one
\* drain goes on for ever because the task never stops writing.
Returns == \A w \in Worker : <>(pc[w] = "done") \/ KillLost(w) \/ Flooded(w)
=============================================================================
