------------------------------ MODULE Decoder -------------------------------
(***************************************************************************)
(* What trace::run makes of the system calls of its tracees: the per-task  *)
(* SyscallDecoder and FdTable (src/src/trace/syscall_decoder.cpp) against  *)
(* the descriptors the kernel really has.                                  *)
(*                                                                         *)
(* A system call is two steps, its entry stop and its exit stop; fork and  *)
(* execve have their event in between.  A stopped tracee waits for the     *)
(* tracer and the decoder of a task is touched at its own stops only, so a *)
(* stop and its handling are one step.  A register holds a descriptor or a *)
(* pointer, and a pointer is the (absolute) path it points to; PEEKDATA may *)
(* fail on a word of it, so Shown gives what the tracer reads there: that  *)
(* path, its beginning, which may spell another path, or nothing.  Two     *)
(* operands of Path may spell the same name, one read whole, one not.      *)
(* Families decoded by the same lines are one name: "read" stands for pread64 and   *)
(* readv, "openat" for openat2, "dup2" for dup3, "socket" for every call   *)
(* that returns a descriptor the table ignores (socket, accept, pipe,      *)
(* creat, memfd_create...).                                                *)
(***************************************************************************)
EXTENDS FdTable

CONSTANTS
    Task,   \* process ids
    Root,   \* the traced root
    Shown   \* what PTRACE_PEEKDATA shows of each path operand

ASSUME TaskAssumption == Root \in Task

VARIABLES
    \* kernel
    mode,       \* where a task is: user mode, inside a call, between event and exit
    call,       \* registers of the call a task is in
    msg,        \* PTRACE_GETEVENTMSG: the child of a fork
    shares,     \* the tasks that share their descriptors with a task (CLONE_FILES)
    fds,        \* what each descriptor refers to
    \* tracer
    tasks,      \* registered tasks
    phase,      \* TaskRegistry::Task::phase
    table,      \* TaskRegistry::Task::fd_table
    pending,    \* members of SyscallDecoder
    \* history
    stale,      \* tasks whose table may hold paths of descriptors that changed
    missing     \* tasks whose table may lack paths

kernel == <<mode, call, msg, shares, fds>>
vars == <<kernel, tasks, phase, table, pending, stale, missing>>

-----------------------------------------------------------------------------
(***************************************************************************)
(* System calls and their registers (external).                            *)
(***************************************************************************)
Registers(nr, rdi, rsi, rdx, r10) ==
    [nr |-> nr, rdi |-> rdi, rsi |-> rsi, rdx |-> rdx, r10 |-> r10]

PathCalls == {"open", "unlink", "mkdir", "chmod", "execve"}
AtCalls == {"openat", "unlinkat", "mkdirat", "fchmodat"}
FdCalls == {"read", "write", "close", "fchmod", "dup", "fcntl_dupfd"}
RenameCalls == {"rename", "renameat", "renameat2"}
PlainCalls == {"socket", "fcntl", "fork", "thread"}

Calls ==
    {Registers(nr, p, 0, 0, 0) : nr \in PathCalls, p \in Path}
    \cup {Registers(nr, 0, p, 0, 0) : nr \in AtCalls, p \in Path}
    \cup {Registers(nr, f, 0, 0, 0) : nr \in FdCalls, f \in Fd}
    \cup {Registers("dup2", f, g, 0, 0) : f \in Fd, g \in Fd}
    \cup {Registers("close_range", f, g, cloexec, 0) : f \in Fd, g \in Fd, cloexec \in {0, 1}}
    \cup {Registers("rename", p, q, 0, 0) : p \in Path, q \in Path}
    \cup {Registers(nr, 0, p, 0, q) : nr \in {"renameat", "renameat2"}, p \in Path, q \in Path}
    \cup {Registers(nr, 0, 0, 0, 0) : nr \in PlainCalls}

NoCall == Registers("none", 0, 0, 0, 0)

\* The registers of a new image.
ExecLeft == Registers("execve", 0, 0, 0, 0)

AllCalls == Calls \cup {NoCall, ExecLeft}

\* The path operand of a call, and the target of a rename, by the kernel's ABI.
PathOperand(c) == IF c.nr \in PathCalls \cup {"rename"} THEN c.rdi ELSE c.rsi
RenameTarget(c) == IF c.nr = "rename" THEN c.rsi ELSE c.r10

-----------------------------------------------------------------------------
(***************************************************************************)
(* SyscallDecoder.                                                         *)
(***************************************************************************)
NoText == ""
NoFd == -1
NoEvent == [kind |-> "none", fd |-> NoFd, path |-> NoText, to |-> NoText]
Event(kind, fd, path, to) == [kind |-> kind, fd |-> fd, path |-> path, to |-> to]

ASSUME ShownAssumption == Shown \in [Path -> Path \cup {NoText}]

\* The words before the first one PEEKDATA fails on or the limit on a string's
\* length, and nothing for a register that is no pointer.
read_process_memory_string(register) ==
    LET value == IF register \in Path THEN Shown[register] ELSE NoText IN
    [value |-> value, complete |-> register \in Path /\ value = register]

\* The status of the read is ignored.
read_process_string(register) == read_process_memory_string(register).value

Cleared(nr) ==
    [syscall |-> nr, path |-> NoText, path_two |-> NoText, fd |-> NoFd, range_end |-> 0]

\* Mutant: rename is decoded like renameat.
on_entry_rename_at(c) ==
    LET p == Cleared(c.nr) IN
    CASE c.nr \in PathCalls -> [p EXCEPT !.path = read_process_string(c.rdi)]
      [] c.nr \in AtCalls -> [p EXCEPT !.path = read_process_string(c.rsi)]
      [] c.nr \in RenameCalls ->
           [p EXCEPT !.path = read_process_string(c.rsi), !.path_two = read_process_string(c.rdx)]
      [] c.nr = "close_range" -> [p EXCEPT !.fd = c.rdi, !.range_end = c.rsi]
      [] c.nr \in FdCalls \cup {"dup2"} -> [p EXCEPT !.fd = c.rdi]
      [] OTHER -> p

on_entry(c) ==
    LET p == Cleared(c.nr) IN
    CASE c.nr \in {"dup", "dup2", "fchmod", "fcntl_dupfd", "read", "write", "close"} ->
           [p EXCEPT !.fd = c.rdi]
      [] c.nr = "close_range" ->
           [p EXCEPT !.fd = c.rdi, !.range_end = c.rsi]
      [] c.nr \in {"open", "unlink", "mkdir", "chmod", "execve"} ->
           [p EXCEPT !.path = read_process_string(c.rdi)]
      [] c.nr \in {"openat", "unlinkat", "mkdirat", "fchmodat"} ->
           [p EXCEPT !.path = read_process_string(c.rsi)]
      [] c.nr \in {"rename", "renameat2"} ->
           [p EXCEPT !.path = read_process_string(c.rdi), !.path_two = read_process_string(c.rsi)]
      [] c.nr = "renameat" ->
           [p EXCEPT !.path = read_process_string(c.rsi), !.path_two = read_process_string(c.rdx)]
      [] OTHER -> p

\* The table after on_exit; result < 0 is an error.
on_exit_table(p, T, result) ==
    CASE p.syscall \in {"open", "openat"} /\ result >= 0 -> track(T, result, p.path)
      [] p.syscall = "fcntl_dupfd" /\ result >= 0 /\ p.fd >= 0 -> duplicate(T, p.fd, result)
      [] p.syscall = "close_range" /\ result = 0 -> close_range(T, p.fd, p.range_end)
      [] p.syscall \in {"dup", "dup2"} /\ result >= 0 -> duplicate(T, p.fd, result)
      [] p.syscall = "close" /\ result = 0 -> close(T, p.fd)
      [] OTHER -> T

\* The event on_exit returns.
on_exit_event(p, T, result) ==
    LET path == lookup(T, p.fd)
        Named(kind) == IF path = NoPath THEN NoEvent ELSE Event(kind, p.fd, path, NoText)
    IN
    CASE p.syscall = "socket" /\ result >= 0 -> Event("SocketCreated", result, NoText, NoText)
      [] p.syscall \in {"open", "openat"} /\ result >= 0 -> Event("FileOpened", result, p.path, NoText)
      [] p.syscall \in {"unlink", "unlinkat"} /\ result = 0 -> Event("FileDeleted", NoFd, p.path, NoText)
      [] p.syscall \in {"rename", "renameat", "renameat2"} /\ result = 0 ->
           Event("FileRenamed", NoFd, p.path, p.path_two)
      [] p.syscall \in {"mkdir", "mkdirat"} /\ result = 0 -> Event("DirectoryCreated", NoFd, p.path, NoText)
      [] p.syscall \in {"chmod", "fchmodat"} /\ result = 0 -> Event("FileModeChanged", NoFd, p.path, NoText)
      [] p.syscall = "fchmod" /\ result = 0 -> Named("FileModeChanged")
      [] p.syscall \in {"openat", "read", "write", "close"} /\ result < 0 ->
           Event("SyscallFailed", NoFd, NoText, NoText)
      [] p.syscall = "read" /\ result >= 0 -> Named("FileRead")
      [] p.syscall = "write" /\ result >= 0 -> Named("FileWritten")
      [] p.syscall = "close" /\ result = 0 -> Named("FileClosed")
      [] OTHER -> NoEvent

-----------------------------------------------------------------------------
(***************************************************************************)
(* The kernel (external): the results a call may have when the caller's    *)
(* descriptors are D, and the descriptors after it.  close releases the    *)
(* descriptor even when it reports an error such as EIO; close_range with  *)
(* CLOSE_RANGE_CLOEXEC closes nothing yet.                                 *)
(***************************************************************************)
Closed == "closed"
Untracked == "untracked"

ASSUME NameAssumption == Path \cap {NoText, Closed, Untracked} = {}

Fds == [Fd -> Path \cup {Closed, Untracked}]

Free(D) == {f \in Fd : D[f] = Closed}

Results(c, D) ==
    LET IsOpen == c.rdi \in Fd \ Free(D) IN
    CASE c.nr \in {"open", "openat", "socket"} -> Free(D) \cup {-1}
      [] c.nr \in {"dup", "fcntl_dupfd"} /\ IsOpen -> Free(D) \cup {-1}
      [] c.nr = "dup2" /\ IsOpen -> {c.rsi}
      [] c.nr \in {"read", "write", "fchmod", "close"} /\ IsOpen -> {0, -1}
      [] c.nr = "close_range" -> {IF c.rdi <= c.rsi THEN 0 ELSE -1}
      [] c.nr \in {"unlink", "unlinkat", "mkdir", "mkdirat", "chmod", "fchmodat", "fcntl"} \cup RenameCalls -> {0, -1}
      [] OTHER -> {-1}

After(c, D, result) ==
    CASE c.nr \in {"open", "openat"} /\ result >= 0 -> [D EXCEPT ![result] = PathOperand(c)]
      [] c.nr = "socket" /\ result >= 0 -> [D EXCEPT ![result] = Untracked]
      [] c.nr \in {"dup", "dup2", "fcntl_dupfd"} /\ result >= 0 -> [D EXCEPT ![result] = D[c.rdi]]
      [] c.nr = "close" -> [D EXCEPT ![c.rdi] = Closed]
      [] c.nr = "close_range" /\ result = 0 /\ c.rdx = 0 ->
           [f \in Fd |-> IF c.rdi <= f /\ f <= c.rsi THEN Closed ELSE D[f]]
      [] OTHER -> D

-----------------------------------------------------------------------------
Init ==
    /\ mode = [t \in Task |-> IF t = Root THEN "user" ELSE "unborn"]
    /\ call = [t \in Task |-> NoCall]
    /\ msg = [t \in Task |-> Root]
    /\ shares = [t \in Task |-> {t}]
    /\ \E inherited \in SUBSET Fd :
          fds = [t \in Task |-> [f \in Fd |-> IF t = Root /\ f \in inherited THEN Untracked ELSE Closed]]
    /\ tasks = {Root}
    /\ phase = [t \in Task |-> "entry"]
    /\ table = [t \in Task |-> NoEntries]
    /\ pending = [t \in Task |-> Cleared("none")]
    /\ stale = {}
    /\ missing = {}

\* run() at a syscall stop of t: on_entry or on_exit by the phase of the task,
\* nothing for a task it does not know.  The members on_exit has used are
\* forgotten at once: on_entry clears them before they are read again.
HandleStop(t, registers, result) ==
    IF t \notin tasks
    THEN UNCHANGED <<phase, table, pending>>
    ELSE IF phase[t] = "entry"
    THEN /\ phase' = [phase EXCEPT ![t] = "exit"]
         /\ pending' = [pending EXCEPT ![t] = on_entry(registers)]
         /\ UNCHANGED table
    ELSE /\ phase' = [phase EXCEPT ![t] = "entry"]
         /\ pending' = [pending EXCEPT ![t] = Cleared("none")]
         /\ table' = [table EXCEPT ![t] = on_exit_table(pending[t], @, result)]

\* The event the same stop is reported as.
Reported(t, registers, result) ==
    IF t \notin tasks THEN NoEvent
    ELSE IF phase[t] = "entry"
    THEN IF registers.nr = "execve"
         THEN Event("ProcessExec", NoFd, on_entry(registers).path, NoText)
         ELSE NoEvent
    ELSE on_exit_event(pending[t], table[t], result)

\* Entry stop: rax holds -ENOSYS.
Enter(t, c) ==
    /\ mode[t] = "user"
    /\ mode' = [mode EXCEPT ![t] = "incall"]
    /\ call' = [call EXCEPT ![t] = c]
    /\ HandleStop(t, c, -1)
    /\ stale' = IF t \in tasks THEN stale ELSE stale \cup {t}
    /\ UNCHANGED <<msg, shares, fds, tasks, missing>>

\* The kernel performs the call, then its exit stop.  A fork or execve that
\* succeeds has gone through its event.
Exit(t, result) ==
    /\ \/ mode[t] = "incall" /\ result \in Results(call[t], fds[t])
       \/ mode[t] = "leaving" /\ result = 0
    /\ mode' = [mode EXCEPT ![t] = "user"]
    /\ call' = [call EXCEPT ![t] = NoCall]
    /\ fds' = [u \in Task |-> IF u \in shares[t] THEN After(call[t], fds[t], result) ELSE fds[u]]
    /\ HandleStop(t, call[t], result)
    /\ stale' = IF t \notin tasks \/ (call[t].nr = "close" /\ result < 0) THEN stale \cup {t} ELSE stale
    /\ missing' = IF call[t].nr = "close_range" /\ call[t].rdx = 1 THEN missing \cup {t} ELSE missing
    /\ UNCHANGED <<msg, shares, tasks>>

\* The child exists, and may run, before the parent's event stop.
Fork(t, u) ==
    /\ mode[t] = "incall" /\ call[t].nr \in {"fork", "thread"}
    /\ mode[u] = "unborn"
    /\ mode' = [mode EXCEPT ![t] = "forked", ![u] = "user"]
    /\ msg' = [msg EXCEPT ![t] = u]
    /\ fds' = [fds EXCEPT ![u] = fds[t]]
    /\ IF call[t].nr = "thread"
       THEN LET all == shares[t] \cup {u} IN
            /\ shares' = [v \in Task |-> IF v \in all THEN all ELSE shares[v]]
            /\ stale' = stale \cup {t, u}
       ELSE /\ UNCHANGED shares
            /\ stale' = IF t \in stale THEN stale \cup {u} ELSE stale
    /\ missing' = IF t \in missing THEN missing \cup {u} ELSE missing
    /\ UNCHANGED <<call, tasks, phase, table, pending>>

\* Mutant: the child starts with an empty table.
CloneEventEmpty(t) ==
    /\ mode[t] = "forked"
    /\ mode' = [mode EXCEPT ![t] = "leaving"]
    /\ tasks' = IF t \in tasks THEN tasks \cup {msg[t]} ELSE tasks
    /\ UNCHANGED <<call, msg, shares, fds, phase, table, pending, stale, missing>>

\* PTRACE_EVENT_CLONE: the child is registered with a copy of the parent's table.
CloneEvent(t) ==
    /\ mode[t] = "forked"
    /\ mode' = [mode EXCEPT ![t] = "leaving"]
    /\ IF t \in tasks
       THEN /\ tasks' = tasks \cup {msg[t]}
            /\ table' = [table EXCEPT ![msg[t]] = table[t]]
       ELSE UNCHANGED <<tasks, table>>
    /\ UNCHANGED <<call, msg, shares, fds, phase, pending, stale, missing>>

\* Mutant: exec sets SyscallPhase::unknown.
ExecEventUnknown(t, kept) ==
    /\ mode[t] = "incall" /\ call[t].nr = "execve"
    /\ mode' = [mode EXCEPT ![t] = "leaving"]
    /\ phase' = [phase EXCEPT ![t] = "unknown"]
    /\ UNCHANGED <<call, msg, shares, fds, tasks, table, pending, stale, missing>>

\* A successful execve closes the close-on-exec descriptors, clears the
\* registers and stops with PTRACE_EVENT_EXEC; the exit stop is still to come.
ExecEvent(t, kept) ==
    /\ mode[t] = "incall" /\ call[t].nr = "execve"
    /\ mode' = [mode EXCEPT ![t] = "leaving"]
    /\ call' = [call EXCEPT ![t] = ExecLeft]
    /\ shares' = [u \in Task |-> IF u = t THEN {t} ELSE shares[u] \ {t}]
    /\ fds' = [fds EXCEPT ![t] = [f \in Fd |-> IF f \in kept THEN @[f] ELSE Closed]]
    /\ phase' = [phase EXCEPT ![t] = IF t \in tasks THEN "entry" ELSE @]
    /\ stale' = stale \cup {t}
    /\ UNCHANGED <<msg, tasks, table, pending, missing>>

Next ==
    \E t \in Task :
        \/ \E c \in Calls : Enter(t, c)
        \/ \E result \in Fd \cup {0, -1} : Exit(t, result)
        \/ \E u \in Task : Fork(t, u)
        \/ CloneEvent(t)
        \/ \E kept \in SUBSET Fd : ExecEvent(t, kept)

Spec == Init /\ [][Next]_vars


-----------------------------------------------------------------------------
(***************************************************************************)
(* Properties.                                                             *)
(***************************************************************************)
Text == Path \cup {NoText}

Tables == [Fd -> Text \cup {NoPath}]

Names == PathCalls \cup AtCalls \cup FdCalls \cup RenameCalls \cup PlainCalls
         \cup {"dup2", "close_range", "none"}

Pending ==
    [syscall : Names, path : Text, path_two : Text, fd : Fd \cup {NoFd}, range_end : Fd \cup {0}]

\* Types of every variable.
TypeOK ==
    /\ mode \in [Task -> {"unborn", "user", "incall", "forked", "leaving"}]
    /\ call \in [Task -> AllCalls]
    /\ msg \in [Task -> Task]
    /\ shares \in [Task -> SUBSET Task]
    /\ fds \in [Task -> Fds]
    /\ tasks \subseteq Task
    /\ phase \in [Task -> {"entry", "exit"}]
    /\ table \in [Task -> Tables]
    /\ pending \in [Task -> Pending]
    /\ stale \subseteq Task
    /\ missing \subseteq Task

\* A tracked path is what was read of the path the descriptor's own file was
\* opened with, hence that path itself whenever the read did not fail
\* (Shown[p] = p): never the name of another descriptor's file or of one that
\* was closed.  It holds through every order of open, dup, dup2, fcntl, close,
\* close_range and fork, reuse of a descriptor by a socket and inherited
\* descriptors included.  Excepted are tasks that executed a new image, share
\* descriptors with a thread, ran before they were registered, or whose close
\* reported an error, and their later children.
TableTruthful ==
    \A t \in tasks \ stale : \A f \in Fd :
        table[t][f] # NoPath => fds[t][f] \in Path /\ table[t][f] = Shown[fds[t][f]]

\* No open file is lost: a descriptor opened by path, or copied from one, is
\* tracked under what was read of that path, even when the read failed, until
\* it is closed; the same tasks are excepted and those that asked close_range to
\* set close-on-exec instead of closing.
TableComplete ==
    \A t \in tasks \ (stale \cup missing) : \A f \in Fd :
        fds[t][f] \in Path => table[t][f] = Shown[fds[t][f]]

FdEvents == {"FileRead", "FileWritten", "FileClosed", "FileModeChanged"}

\* What the event of an exit stop says of the file the call was about.  A name
\* is what was read of the operand, an empty or cut one after a failed read.
NamesItsFile(t, result) ==
    LET e == Reported(t, call[t], result) IN
    /\ e.kind \in FdEvents /\ e.fd # NoFd => e.fd = call[t].rdi /\ e.path = Shown[fds[t][e.fd]]
    /\ e.kind = "FileOpened" => e.path = Shown[fds'[t][e.fd]]
    /\ e.kind \in FdEvents \cup {"FileDeleted", "DirectoryCreated"} /\ e.fd = NoFd =>
          e.path = Shown[PathOperand(call[t])]
    /\ e.kind = "FileRenamed" /\ call[t].nr = "rename" =>
          e.path = Shown[PathOperand(call[t])] /\ e.to = Shown[RenameTarget(call[t])]

\* An event of on_exit names the file the call was about, as far as its path
\* could be read: the descriptor and what it referred to when the call was
\* made, or the path operand of the call; renameat and renameat2 are excepted.
EventsTruthful ==
    [][\A t \in tasks \ stale, result \in Fd \cup {0, -1} :
          mode[t] # "user" /\ mode'[t] = "user" /\ Exit(t, result) => NamesItsFile(t, result)]_vars
=============================================================================
