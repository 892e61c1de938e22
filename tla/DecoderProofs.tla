--------------------------- MODULE DecoderProofs ----------------------------
(***************************************************************************)
(* Proofs about Decoder for any descriptors, paths and number of tasks.    *)
(***************************************************************************)
EXTENDS Decoder, TLAPS

\* Time for the backends.
\* Zenon proves the leaves that do not name SMT.
USE ZenonT(60)

Truthful(T, D) == \A f \in Fd : T[f] # NoPath => D[f] \in Path /\ T[f] = Shown[D[f]]

\* What on_entry takes from the registers, for the calls that change the table.
Operands(c) ==
    /\ c.nr \in {"open", "openat"} =>
          PathOperand(c) \in Path /\ on_entry(c).path = Shown[PathOperand(c)]
    /\ c.nr \in FdCalls => c.rdi \in Fd /\ on_entry(c).fd = c.rdi
    /\ c.nr \in {"dup2", "close_range"} => c.rdi \in Fd /\ c.rsi \in Fd /\ on_entry(c).fd = c.rdi
    /\ c.nr = "close_range" => on_entry(c).range_end = c.rsi
    /\ on_entry(c).syscall = c.nr

\* on_entry keeps the operands a call really has.
LEMMA EntryOperands ==
    ASSUME NEW c \in AllCalls
    PROVE  Operands(c)
  <1> USE DEF Operands, Registers, on_entry, Cleared, PathOperand, FdCalls, read_process_string,
              read_process_memory_string
  <1>1. ASSUME NEW nr \in PathCalls, NEW p \in Path, c = Registers(nr, p, 0, 0, 0) PROVE Operands(c)
    BY <1>1 DEF PathCalls
  <1>2. ASSUME NEW nr \in AtCalls, NEW p \in Path, c = Registers(nr, 0, p, 0, 0) PROVE Operands(c)
    BY <1>2 DEF AtCalls, PathCalls
  <1>3. ASSUME NEW nr \in FdCalls, NEW f \in Fd, c = Registers(nr, f, 0, 0, 0) PROVE Operands(c)
    BY <1>3
  <1>4. ASSUME NEW f \in Fd, NEW g \in Fd, c = Registers("dup2", f, g, 0, 0) PROVE Operands(c)
    BY <1>4
  <1>5. ASSUME NEW f \in Fd, NEW g \in Fd, NEW x \in {0, 1}, c = Registers("close_range", f, g, x, 0)
        PROVE  Operands(c)
    BY <1>5
  <1>6. ASSUME NEW p \in Path, NEW q \in Path, c = Registers("rename", p, q, 0, 0) PROVE Operands(c)
    BY <1>6
  <1>7. ASSUME NEW nr \in {"renameat", "renameat2"}, NEW p \in Path, NEW q \in Path,
               c = Registers(nr, 0, p, 0, q)
        PROVE  Operands(c)
    BY <1>7
  <1>8. ASSUME NEW nr \in PlainCalls \cup {"none", "execve"}, c = Registers(nr, 0, 0, 0, 0)
        PROVE  Operands(c)
    BY <1>8 DEF PlainCalls
  <1> HIDE DEF Operands, Registers
  <1>9. c \in Calls => Operands(c)
    BY SMTT(60), <1>1, <1>2, <1>3, <1>4, <1>5, <1>6, <1>7, <1>8 DEF Calls
  <1> QED
    BY <1>8, <1>9 DEF AllCalls, NoCall, ExecLeft

\* If the table tells the truth before a call, on_exit keeps it true of what
\* the kernel did, whatever the call and its result; only a close that
\* reported an error is excepted.
LEMMA ExitKeepsTruth ==
    ASSUME NEW c \in AllCalls, NEW T \in Tables, NEW D \in Fds, Truthful(T, D),
           NEW r \in Results(c, D), ~(c.nr = "close" /\ r < 0)
    PROVE  Truthful(on_exit_table(on_entry(c), T, r), After(c, D, r))
  <1> DEFINE p == on_entry(c)
  <1>0. Operands(c) /\ p.syscall = c.nr
    BY EntryOperands DEF Operands
  <1> HIDE DEF p
  <1> SUFFICES Truthful(on_exit_table(p, T, r), After(c, D, r))
    BY DEF p
  <1> USE <1>0, FdAssumption DEF Truthful, Tables, Fds, on_exit_table, After, Free, RenameCalls
  <1>1. CASE c.nr \in {"open", "openat"}
    <2>1. PathOperand(c) \in Path /\ p.path = Shown[PathOperand(c)]
      BY <1>1 DEF Operands, p
    <2>2. Results(c, D) = Free(D) \cup {-1}
      BY <1>1 DEF Results
    <2>3. CASE r = -1
      BY SMTT(60), <1>1, <2>3
    <2>4. CASE r \in Fd
      <3>1. r >= 0
        BY SMTT(60), <2>4
      <3>2. After(c, D, r) = [D EXCEPT ![r] = PathOperand(c)]
        BY <1>1, <3>1
      <3>3. on_exit_table(p, T, r) = [T EXCEPT ![r] = p.path]
        BY <1>1, <3>1 DEF track
      <3> HIDE DEF After, on_exit_table
      <3> QED
        BY <2>1, <2>4, <3>2, <3>3
    <2> QED
      BY <2>2, <2>3, <2>4
  <1>2. CASE c.nr = "socket"
    <2>1. Results(c, D) = Free(D) \cup {-1}
      BY <1>2 DEF Results
    <2>2. ASSUME r \in Fd PROVE T[r] = NoPath
      <3>1. Closed \notin Path
        BY NameAssumption DEF Closed
      <3>2. D[r] = Closed
        BY SMTT(60), <2>1, <2>2
      <3> QED
        BY <2>2, <3>1, <3>2
    <2>3. CASE r = -1
      BY SMTT(60), <1>2, <2>3
    <2>4. CASE r \in Fd
      <3>1. After(c, D, r) = [D EXCEPT ![r] = Untracked]
        BY SMTT(60), <1>2, <2>4
      <3>2. on_exit_table(p, T, r) = T
        BY <1>2
      <3> HIDE DEF After, on_exit_table
      <3> QED
        BY <2>2, <2>4, <3>1, <3>2
    <2> QED
      BY SMTT(60), <2>1, <2>3, <2>4
  <1>3. CASE c.nr \in {"dup", "dup2", "fcntl_dupfd"}
    <2>1. c.rdi \in Fd /\ p.fd = c.rdi
      BY <1>3 DEF Operands, p, FdCalls
    <2>3. c.nr = "dup2" => Results(c, D) \in {{c.rsi}, {-1}} /\ c.rsi \in Fd
      BY DEF Results, Operands
    <2>4. c.nr # "dup2" => Results(c, D) \in {Free(D) \cup {-1}, {-1}}
      BY <1>3 DEF Results
    <2>5. r \in Fd \cup {-1}
      BY <2>3, <2>4
    <2> QED
      BY SMTT(60), <1>3, <2>1, <2>5 DEF duplicate, lookup, track, close
  <1>4. CASE c.nr = "close"
    <2>1. c.rdi \in Fd /\ p.fd = c.rdi /\ r \in {0, -1}
      BY <1>4 DEF Operands, p, FdCalls, Results
    <2> QED
      BY SMTT(60), <1>4, <2>1 DEF close
  <1>5. CASE c.nr = "close_range"
    <2>1. /\ c.rdi \in Fd /\ p.fd = c.rdi /\ c.rsi \in Fd /\ p.range_end = c.rsi
          /\ r \in {0, -1}
      BY <1>5 DEF Operands, p, Results
    <2> QED
      BY <1>5, <2>1 DEF close_range
  <1>6. CASE c.nr \notin {"open", "openat", "socket", "dup", "dup2", "fcntl_dupfd", "close", "close_range"}
    BY <1>6
  <1> QED
    BY <1>1, <1>2, <1>3, <1>4, <1>5, <1>6

-----------------------------------------------------------------------------
\* on_entry yields well-formed members of the decoder.
LEMMA EntryType ==
    ASSUME NEW c \in AllCalls
    PROVE  on_entry(c) \in Pending
  <1> USE ShownAssumption DEF Registers, on_entry, Cleared, Pending, Text, read_process_string,
              read_process_memory_string, NoFd, Names,
              PathCalls, AtCalls, FdCalls, RenameCalls, PlainCalls
  <1>1. ASSUME NEW nr \in PathCalls, NEW p \in Path, c = Registers(nr, p, 0, 0, 0)
        PROVE  on_entry(c) \in Pending
    BY <1>1
  <1>2. ASSUME NEW nr \in AtCalls, NEW p \in Path, c = Registers(nr, 0, p, 0, 0)
        PROVE  on_entry(c) \in Pending
    BY <1>2
  <1>3. ASSUME NEW nr \in FdCalls, NEW f \in Fd, c = Registers(nr, f, 0, 0, 0)
        PROVE  on_entry(c) \in Pending
    BY SMTT(60), <1>3
  <1>4. ASSUME NEW f \in Fd, NEW g \in Fd, c = Registers("dup2", f, g, 0, 0)
        PROVE  on_entry(c) \in Pending
    BY <1>4
  <1>5. ASSUME NEW f \in Fd, NEW g \in Fd, NEW x \in {0, 1}, c = Registers("close_range", f, g, x, 0)
        PROVE  on_entry(c) \in Pending
    BY <1>5
  <1>6. ASSUME NEW p \in Path, NEW q \in Path, c = Registers("rename", p, q, 0, 0)
        PROVE  on_entry(c) \in Pending
    BY <1>6
  <1>7. ASSUME NEW nr \in {"renameat", "renameat2"}, NEW p \in Path, NEW q \in Path,
               c = Registers(nr, 0, p, 0, q)
        PROVE  on_entry(c) \in Pending
    BY <1>7
  <1>8. ASSUME NEW nr \in PlainCalls \cup {"none", "execve"}, c = Registers(nr, 0, 0, 0, 0)
        PROVE  on_entry(c) \in Pending
    BY <1>8
  <1> HIDE DEF Registers, on_entry, Pending, PathCalls, AtCalls, FdCalls, PlainCalls
  <1>9. c \in Calls => on_entry(c) \in Pending
    BY SMTT(60), <1>1, <1>2, <1>3, <1>4, <1>5, <1>6, <1>7, <1>8 DEF Calls
  <1> QED
    BY <1>8, <1>9 DEF AllCalls, NoCall, ExecLeft

\* on_exit keeps the type of the table.
LEMMA ExitType ==
    ASSUME NEW p \in Pending, NEW T \in Tables, NEW r \in Int
    PROVE  on_exit_table(p, T, r) \in Tables
  <1>1. p.path \in Text
    BY DEF Pending
  <1>2. \A f, x : x \in Text \cup {NoPath} => [T EXCEPT ![f] = x] \in Tables
    BY DEF Tables
  <1>3. \A f : lookup(T, f) \in Text \cup {NoPath}
    BY DEF lookup, Tables
  <1>4. \A f, g : duplicate(T, f, g) \in Tables
    BY <1>2, <1>3 DEF duplicate, track, close
  <1>5. \A f, g : close_range(T, f, g) \in Tables
    BY DEF close_range, Tables
  <1> QED
    BY <1>1, <1>2, <1>4, <1>5 DEF on_exit_table, track, close

\* The kernel keeps the type of the descriptors.
LEMMA AfterType ==
    ASSUME NEW c \in AllCalls, NEW D \in Fds, NEW r \in Int
    PROVE  After(c, D, r) \in Fds
  <1>1. Operands(c)
    BY EntryOperands
  <1>2. \A f, x : x \in Path \cup {Closed, Untracked} => [D EXCEPT ![f] = x] \in Fds
    BY DEF Fds
  <1>3. c.nr \in {"open", "openat"} => PathOperand(c) \in Path
    BY <1>1 DEF Operands
  <1>4. c.nr \in {"dup", "dup2", "fcntl_dupfd"} => D[c.rdi] \in Path \cup {Closed, Untracked}
    BY <1>1 DEF Operands, FdCalls, Fds
  <1>5. [f \in Fd |-> IF c.rdi <= f /\ f <= c.rsi THEN Closed ELSE D[f]] \in Fds
    BY DEF Fds
  <1> QED
    BY <1>2, <1>3, <1>4, <1>5 DEF After


\* What run() does at a syscall stop keeps the types of its state.
LEMMA StopType ==
    ASSUME TypeOK, NEW t \in Task, NEW c \in AllCalls, NEW r \in Int, HandleStop(t, c, r)
    PROVE  /\ phase' \in [Task -> {"entry", "exit"}]
           /\ table' \in [Task -> Tables]
           /\ pending' \in [Task -> Pending]
  <1>1. on_entry(c) \in Pending
    BY EntryType
  <1>2. on_exit_table(pending[t], table[t], r) \in Tables
    BY ExitType DEF TypeOK
  <1>3. Cleared("none") \in Pending
    BY DEF Cleared, Pending, Names, Text, NoFd
  <1> QED
    BY SMTT(60), <1>1, <1>2, <1>3 DEF HandleStop, TypeOK

\* Every variable has its type initially.
LEMMA InitType == Init => TypeOK
  <1> SUFFICES ASSUME Init PROVE TypeOK
    OBVIOUS
  <1>1. Cleared("none") \in Pending
    BY DEF Cleared, Pending, Names, Text, NoFd
  <1>2. fds \in [Task -> Fds]
    BY SMTT(60) DEF Init, Fds
  <1>3. NoCall \in AllCalls
    BY DEF AllCalls
  <1> QED
    BY <1>1, <1>2, <1>3, TaskAssumption DEF Init, TypeOK, NoEntries, Tables

\* No step of a tracee or of the decoder breaks a type.
LEMMA NextType == TypeOK /\ [Next]_vars => TypeOK'
  <1> SUFFICES ASSUME TypeOK, [Next]_vars PROVE TypeOK'
    OBVIOUS
  <1> USE DEF TypeOK
  <1>0. \A t \in Task : call[t] \in AllCalls
    OBVIOUS
  <1>7. NoCall \in AllCalls /\ ExecLeft \in AllCalls
    BY DEF AllCalls
  <1>1. ASSUME NEW t \in Task, NEW c \in Calls, Enter(t, c) PROVE TypeOK'
    <2>1. c \in AllCalls
      BY DEF AllCalls
    <2> QED
      BY SMTT(60), <1>1, <2>1, StopType DEF Enter
  <1>2. ASSUME NEW t \in Task, NEW r \in Fd \cup {0, -1}, Exit(t, r) PROVE TypeOK'
    <2>1. r \in Int
      BY SMTT(60), FdAssumption
    <2>2. After(call[t], fds[t], r) \in Fds
      BY <1>0, <2>1, AfterType
    <2> QED
      BY <1>0, <1>2, <1>7, <2>1, <2>2, StopType DEF Exit
  <1>3. ASSUME NEW t \in Task, NEW u \in Task, Fork(t, u) PROVE TypeOK'
    <2>1. shares' \in [Task -> SUBSET Task] /\ stale' \subseteq Task
      BY SMTT(60), <1>3 DEF Fork
    <2> QED
      BY <1>3, <2>1 DEF Fork
  <1>4. ASSUME NEW t \in Task, CloneEvent(t) PROVE TypeOK'
    BY SMTT(60), <1>4 DEF CloneEvent
  <1>5. ASSUME NEW t \in Task, NEW kept \in SUBSET Fd, ExecEvent(t, kept) PROVE TypeOK'
    <2>1. [f \in Fd |-> IF f \in kept THEN fds[t][f] ELSE Closed] \in Fds
      BY SMTT(60) DEF Fds
    <2> QED
      BY <1>5, <1>7, <2>1 DEF ExecEvent
  <1>6. CASE UNCHANGED vars
    BY <1>6 DEF vars, kernel
  <1> QED
    BY <1>1, <1>2, <1>3, <1>4, <1>5, <1>6 DEF Next

\* Type correctness of the decoder and of the descriptors it follows.
THEOREM DecoderTypes == Spec => []TypeOK
  BY InitType, NextType, PTL DEF Spec

-----------------------------------------------------------------------------
(***************************************************************************)
(* The inductive invariant.  Sync: a task that is not excepted is decoded  *)
(* in step with the kernel, shares its descriptors with nobody, and while  *)
(* it is in a call the decoder holds that call's operands; before it is    *)
(* registered it has made no call.  Forked: the child named by a clone     *)
(* event is not registered yet and still has the parent's descriptors.     *)
(***************************************************************************)
Sync(t) ==
    /\ \A u \in Task : t \in shares[u] <=> u = t
    /\ t \notin tasks => mode[t] \in {"unborn", "user"} /\ phase[t] = "entry"
    /\ t \in tasks /\ mode[t] = "user" => phase[t] = "entry"
    /\ t \in tasks /\ mode[t] # "user" => phase[t] = "exit" /\ pending[t] = on_entry(call[t])
    /\ mode[t] \in {"forked", "leaving"} => call[t].nr \in {"fork", "thread"}
    /\ t \in tasks => mode[t] # "unborn" /\ Truthful(table[t], fds[t])

Forked(t) ==
    mode[t] = "forked" =>
        /\ msg[t] # t /\ mode[msg[t]] # "unborn" /\ msg[t] \notin tasks
        /\ t \in stale => msg[t] \in stale
        /\ msg[t] \notin stale => fds[msg[t]] = fds[t]
        /\ \A u \in Task : mode[u] = "forked" /\ msg[u] = msg[t] => u = t

Tracked ==
    /\ \A t \in Task : mode[t] = "unborn" => t \notin stale /\ t \notin tasks
    /\ \A t \in Task \ stale : Sync(t)
    /\ \A t \in Task : Forked(t)

\* The root starts in user mode with an empty table.
LEMMA InitTracked == Init => Tracked
  BY SMTT(60), TaskAssumption DEF Init, Tracked, Sync, Forked, Truthful, NoEntries

\* An entry stop: on_entry takes the operands of the call just made.
LEMMA EnterTracked ==
    ASSUME TypeOK, Tracked, NEW t \in Task, NEW c \in Calls, Enter(t, c)
    PROVE  Tracked'
  <1> USE DEF TypeOK, Tracked, Enter
  <1>1. ASSUME NEW v \in Task \ stale' PROVE Sync(v)'
    <2>1. v \in Task \ stale /\ Sync(v)
      BY <1>1
    <2>2. CASE v # t
      BY SMTT(60), <2>1, <2>2 DEF Sync, HandleStop, Truthful
    <2>3. CASE v = t
      <3>1. t \in tasks /\ phase[t] = "entry"
        BY <1>1, <2>1, <2>3 DEF Sync
      <3> QED
        BY SMTT(60), <2>1, <2>3, <3>1 DEF Sync, HandleStop, Truthful
    <2> QED
      BY <2>2, <2>3
  <1>2. ASSUME NEW v \in Task PROVE Forked(v)'
    BY SMTT(60) DEF Forked
  <1> QED
    BY <1>1, <1>2

\* An exit stop: on_exit applies the result to the table of the caller only.
LEMMA ExitTracked ==
    ASSUME TypeOK, Tracked, NEW t \in Task, NEW r \in Fd \cup {0, -1}, Exit(t, r)
    PROVE  Tracked'
  <1> USE DEF TypeOK, Tracked
  <1>0. stale \subseteq stale' /\ mode[t] \in {"incall", "leaving"}
    BY DEF Exit
  <1>1. ASSUME NEW v \in Task \ stale' PROVE Sync(v)'
    <2>1. v \in Task \ stale /\ Sync(v)
      BY <1>0, <1>1
    <2>2. CASE v # t
      <3>1. fds'[v] = fds[v]
        BY <2>1, <2>2 DEF Exit, Sync
      <3> QED
        BY SMTT(60), <2>1, <2>2, <3>1 DEF Exit, Sync, HandleStop, Truthful
    <2>3. CASE v = t
      <3>1. t \in tasks /\ ~(call[t].nr = "close" /\ r < 0)
        BY <1>1, <2>3 DEF Exit
      <3>2. phase[t] = "exit" /\ pending[t] = on_entry(call[t]) /\ t \in shares[t]
        BY <1>0, <2>1, <2>3, <3>1 DEF Sync
      <3>3. /\ fds'[t] = After(call[t], fds[t], r)
            /\ table'[t] = on_exit_table(on_entry(call[t]), table[t], r)
            /\ phase'[t] = "entry" /\ mode'[t] = "user" /\ tasks' = tasks /\ shares' = shares
        BY <3>1, <3>2 DEF Exit, HandleStop
      <3>4. call[t] \in AllCalls
        OBVIOUS
      <3>5. Truthful(table'[t], fds'[t])
        <4>1. Truthful(table[t], fds[t])
          BY <2>1, <2>3, <3>1 DEF Sync
        <4>2. CASE mode[t] = "incall"
          <5>1. r \in Results(call[t], fds[t])
            BY <4>2 DEF Exit
          <5> QED
            BY SMTT(60), <3>1, <3>3, <3>4, <4>1, <5>1, ExitKeepsTruth
        <4>3. CASE mode[t] = "leaving"
          <5>1. call[t].nr \in {"fork", "thread"} /\ on_entry(call[t]).syscall = call[t].nr
            BY <2>1, <2>3, <3>4, <4>3, EntryOperands DEF Sync, Operands
          <5> QED
            BY <3>3, <4>1, <5>1 DEF After, on_exit_table
        <4> QED
          BY <1>0, <4>2, <4>3
      <3> QED
        BY SMTT(60), <2>1, <2>3, <3>1, <3>3, <3>5 DEF Sync, Truthful
    <2> QED
      BY <2>2, <2>3
  <1>2. ASSUME NEW v \in Task, mode'[v] = "forked" PROVE Forked(v)'
    <2>1. v # t /\ mode[v] = "forked" /\ Forked(v)
      BY <1>2 DEF Exit
    <2>2. ASSUME msg[v] \notin stale' PROVE fds'[msg[v]] = fds'[v]
      <3>1. msg[v] \notin stale /\ v \notin stale /\ msg[v] \in Task /\ msg[v] \notin tasks
        BY <1>0, <2>1, <2>2 DEF Forked
      <3>2. Sync(msg[v]) /\ Sync(v)
        BY <3>1
      <3>3. msg[v] # t
        BY <1>0, <3>1, <3>2 DEF Sync
      <3> QED
        BY <2>1, <3>1, <3>2, <3>3 DEF Exit, Sync, Forked
    <2>3. v \in stale' => v \in stale
      BY <2>1 DEF Exit
    <2> QED
      BY <1>0, <2>1, <2>2, <2>3 DEF Exit, Forked
  <1>3. \A v \in Task : mode'[v] = "unborn" => v \notin stale' /\ v \notin tasks'
    BY <1>0 DEF Exit
  <1> QED
    BY <1>1, <1>2, <1>3 DEF Forked

\* A fork gives the child a copy of the descriptors, a thread shares them.
LEMMA ForkTracked ==
    ASSUME TypeOK, Tracked, NEW t \in Task, NEW u \in Task, Fork(t, u)
    PROVE  Tracked'
  <1> USE DEF TypeOK, Tracked
  <1>0. u # t /\ u \notin stale /\ u \notin tasks /\ Sync(u) /\ stale \subseteq stale'
    BY DEF Fork
  <1>1. ASSUME NEW v \in Task \ stale' PROVE Sync(v)'
    <2>1. Sync(v) /\ v \in Task \ stale
      BY <1>0, <1>1
    <2>2. \A w \in Task : v \in shares'[w] <=> w = v
      BY SMTT(60), <1>0, <1>1, <2>1 DEF Fork, Sync
    <2>3. CASE v = u
      BY SMTT(60), <1>0, <2>1, <2>2, <2>3 DEF Fork, Sync
    <2>4. CASE v # u
      BY SMTT(60), <1>0, <2>1, <2>2, <2>4 DEF Fork, Sync, Truthful
    <2> QED
      BY <2>3, <2>4
  <1>2. ASSUME NEW v \in Task, mode'[v] = "forked" PROVE Forked(v)'
    <2>1. \A w \in Task : mode[w] = "forked" => msg[w] # u /\ w # u
      BY DEF Fork, Forked
    <2>2. CASE v = t
      BY SMTT(60), <1>0, <2>1, <2>2 DEF Fork, Forked
    <2>3. CASE v # t
      <3>1. mode[v] = "forked" /\ Forked(v) /\ msg'[v] = msg[v] /\ v # u /\ msg[v] # u /\ msg[v] \in Task
        BY <1>2, <2>1, <2>3 DEF Fork
      <3>2. v \in stale' => v \in stale
        BY <2>3, <3>1 DEF Fork
      <3> QED
        BY SMTT(60), <1>0, <2>1, <2>3, <3>1, <3>2 DEF Fork, Forked
    <2> QED
      BY <2>2, <2>3
  <1>3. \A v \in Task : mode'[v] = "unborn" => v \notin stale' /\ v \notin tasks'
    BY DEF Fork
  <1> QED
    BY <1>1, <1>2, <1>3 DEF Forked

\* The clone event registers a child that still has the parent's descriptors
\* with the parent's table, unless one of the two is excepted.
LEMMA CloneTracked ==
    ASSUME TypeOK, Tracked, NEW t \in Task, CloneEvent(t)
    PROVE  Tracked'
  <1> USE DEF TypeOK, Tracked
  <1>0. Forked(t) /\ mode[t] = "forked" /\ stale' = stale /\ msg[t] \in Task
    BY DEF CloneEvent
  <1>1. ASSUME NEW v \in Task \ stale' PROVE Sync(v)'
    <2>1. Sync(v) /\ v \in Task \ stale
      BY <1>0, <1>1
    <2>2. CASE v = msg[t] /\ t \in tasks
      <3>1. t \notin stale /\ Sync(t) /\ fds[v] = fds[t] /\ v # t /\ v \notin tasks /\ mode[v] = "user"
        BY <1>0, <2>1, <2>2 DEF Forked, Sync
      <3> QED
        BY SMTT(60), <2>1, <2>2, <3>1 DEF CloneEvent, Sync, Truthful
    <2>3. CASE ~(v = msg[t] /\ t \in tasks)
      BY SMTT(60), <1>0, <2>1, <2>3 DEF CloneEvent, Sync, Truthful
    <2> QED
      BY <2>2, <2>3
  <1>2. ASSUME NEW v \in Task PROVE Forked(v)'
    BY SMTT(60), <1>0 DEF CloneEvent, Forked
  <1>3. \A v \in Task : mode'[v] = "unborn" => v \notin stale' /\ v \notin tasks'
    BY SMTT(60), <1>0 DEF CloneEvent, Forked
  <1> QED
    BY <1>1, <1>2, <1>3

\* An exec takes its task out of the promise and leaves the others alone.
LEMMA ExecTracked ==
    ASSUME TypeOK, Tracked, NEW t \in Task, NEW kept \in SUBSET Fd, ExecEvent(t, kept)
    PROVE  Tracked'
  <1> USE DEF TypeOK, Tracked, ExecEvent
  <1>1. ASSUME NEW v \in Task \ stale' PROVE Sync(v)'
    BY SMTT(60), <1>1 DEF Sync, Truthful
  <1>2. ASSUME NEW v \in Task PROVE Forked(v)'
    BY SMTT(60) DEF Forked
  <1> QED
    BY <1>1, <1>2

\* The inductive invariant holds in every state.
LEMMA Followed == Spec => []Tracked
  <1>1. Init => Tracked
    BY InitTracked
  <1>2. TypeOK /\ Tracked /\ [Next]_vars => Tracked'
    <2> SUFFICES ASSUME TypeOK, Tracked, [Next]_vars PROVE Tracked'
      OBVIOUS
    <2>1. CASE UNCHANGED vars
      BY SMTT(60), <2>1 DEF vars, kernel, Tracked, Sync, Forked, Truthful
    <2> QED
      BY <2>1, EnterTracked, ExitTracked, ForkTracked, CloneTracked, ExecTracked DEF Next
  <1> QED
    BY <1>1, <1>2, InitType, NextType, PTL DEF Spec

\* A tracked path is what was read of the path its descriptor was opened with,
\* for any descriptors, paths, failing reads and number of tasks (FdTable and
\* SyscallDecoder::on_exit).
THEOREM TrackedPathsTrue == Spec => []TableTruthful
  <1>1. TypeOK /\ Tracked => TableTruthful
    <2> SUFFICES ASSUME TypeOK, Tracked, NEW t \in tasks \ stale PROVE Truthful(table[t], fds[t])
      BY DEF TableTruthful, Truthful
    <2> QED
      BY DEF TypeOK, Tracked, Sync
  <1> QED
    BY <1>1, DecoderTypes, Followed, PTL

-----------------------------------------------------------------------------
(***************************************************************************)
(* No open file is lost.                                                   *)
(***************************************************************************)
Complete(T, D) == \A f \in Fd : D[f] \in Path => T[f] = Shown[D[f]]

\* The flags of close_range.
LEMMA RangeFlag ==
    ASSUME NEW c \in AllCalls, c.nr = "close_range"
    PROVE  c.rdx \in {0, 1}
  <1>1. \A f, g, x : Registers("close_range", f, g, x, 0).rdx = x
    BY DEF Registers
  <1>2. c \in {Registers("close_range", f, g, x, 0) : f \in Fd, g \in Fd, x \in {0, 1}}
    BY SMTT(60) DEF AllCalls, Calls, NoCall, ExecLeft, Registers, PathCalls, AtCalls, FdCalls, PlainCalls
  <1> QED
    BY SMTT(60), <1>1, <1>2

\* If the table lacks no path before a call, on_exit leaves none out of what
\* the kernel did; only CLOSE_RANGE_CLOEXEC is excepted.
LEMMA ExitKeepsAll ==
    ASSUME NEW c \in AllCalls, NEW T \in Tables, NEW D \in Fds, Complete(T, D),
           NEW r \in Results(c, D), ~(c.nr = "close_range" /\ c.rdx = 1)
    PROVE  Complete(on_exit_table(on_entry(c), T, r), After(c, D, r))
  <1> DEFINE p == on_entry(c)
  <1>0. Operands(c) /\ p.syscall = c.nr
    BY EntryOperands DEF Operands
  <1>a. Closed \notin Path /\ Untracked \notin Path
    BY NameAssumption DEF Closed, Untracked
  <1>b. \A f \in Fd : f >= 0
    BY SMTT(60), FdAssumption
  <1> HIDE DEF p
  <1> SUFFICES Complete(on_exit_table(p, T, r), After(c, D, r))
    BY DEF p
  <1> USE <1>0, <1>a, FdAssumption DEF Complete, Tables, Fds, on_exit_table, After, Free, RenameCalls
  <1>1. CASE c.nr \in {"open", "openat"}
    <2>1. PathOperand(c) \in Path /\ p.path = Shown[PathOperand(c)]
      BY <1>1 DEF Operands, p
    <2>2. Results(c, D) = Free(D) \cup {-1}
      BY <1>1 DEF Results
    <2>3. CASE r = -1
      BY SMTT(60), <1>1, <2>3
    <2>4. CASE r \in Fd
      <3>1. r >= 0
        BY SMTT(60), <2>4
      <3>2. After(c, D, r) = [D EXCEPT ![r] = PathOperand(c)]
        BY <1>1, <3>1
      <3>3. on_exit_table(p, T, r) = [T EXCEPT ![r] = p.path]
        BY <1>1, <3>1 DEF track
      <3> HIDE DEF After, on_exit_table
      <3> QED
        BY <2>1, <2>4, <3>2, <3>3
    <2> QED
      BY <2>2, <2>3, <2>4
  <1>2. CASE c.nr = "socket"
    <2>1. Results(c, D) = Free(D) \cup {-1}
      BY <1>2 DEF Results
    <2>2. CASE r = -1
      BY <1>2, <2>2
    <2>3. CASE r \in Fd
      <3>1. After(c, D, r) = [D EXCEPT ![r] = Untracked]
        BY SMTT(60), <1>2, <2>3
      <3>2. on_exit_table(p, T, r) = T
        BY <1>2
      <3> HIDE DEF After, on_exit_table
      <3> QED
        BY <2>3, <3>1, <3>2
    <2> QED
      BY SMTT(60), <2>1, <2>2, <2>3
  <1>3. CASE c.nr \in {"dup", "dup2", "fcntl_dupfd"}
    <2>1. c.rdi \in Fd /\ p.fd = c.rdi
      BY <1>3 DEF Operands, p, FdCalls
    <2>2. c.nr = "dup2" => Results(c, D) \in {{c.rsi}, {-1}} /\ c.rsi \in Fd
      BY DEF Results, Operands
    <2>3. c.nr # "dup2" => Results(c, D) \in {Free(D) \cup {-1}, {-1}}
      BY <1>3 DEF Results
    <2>4. CASE r = -1
      BY SMTT(60), <1>3, <2>4
    <2>5. CASE r \in Fd
      <3>1. r >= 0 /\ p.fd >= 0
        BY <2>1, <2>5, <1>b
      <3>2. After(c, D, r) = [D EXCEPT ![r] = D[c.rdi]]
        BY <1>3, <3>1
      <3>3. on_exit_table(p, T, r) = duplicate(T, c.rdi, r)
        BY <1>3, <2>1, <3>1
      <3>4. duplicate(T, c.rdi, r) = [T EXCEPT ![r] = T[c.rdi]]
        BY <2>1 DEF duplicate, lookup, track, close
      <3>5. \A s \in Fd : Complete([T EXCEPT ![r] = T[s]], [D EXCEPT ![r] = D[s]])
        BY <2>5
      <3> HIDE DEF After, on_exit_table, Complete, Tables, Fds, Free, RenameCalls
      <3>6. Complete([T EXCEPT ![r] = T[c.rdi]], [D EXCEPT ![r] = D[c.rdi]])
        BY <2>1, <3>5
      <3> QED
        BY <3>2, <3>3, <3>4, <3>6
    <2> QED
      BY SMTT(60), <2>2, <2>3, <2>4, <2>5
  <1>4. CASE c.nr = "close"
    <2>1. c.rdi \in Fd /\ p.fd = c.rdi /\ r \in {0, -1}
      BY <1>4 DEF Operands, p, FdCalls, Results
    <2> QED
      BY <1>4, <2>1 DEF close
  <1>5. CASE c.nr = "close_range"
    <2>1. /\ c.rdi \in Fd /\ p.fd = c.rdi /\ c.rsi \in Fd /\ p.range_end = c.rsi
          /\ r \in {0, -1}
      BY <1>5 DEF Operands, p, Results
    <2>2. c.rdx = 0
      BY <1>5, RangeFlag
    <2> QED
      BY <1>5, <2>1, <2>2 DEF close_range
  <1>6. CASE c.nr \notin {"open", "openat", "socket", "dup", "dup2", "fcntl_dupfd", "close", "close_range"}
    BY <1>6
  <1> QED
    BY <1>1, <1>2, <1>3, <1>4, <1>5, <1>6

(***************************************************************************)
(* Kept: the table of a task that is not excepted lacks nothing, and the   *)
(* child named by a clone event is excepted when its parent is.            *)
(***************************************************************************)
Kept ==
    /\ \A t \in tasks \ (stale \cup missing) : Complete(table[t], fds[t])
    /\ \A t \in Task : mode[t] = "forked" /\ t \in missing => msg[t] \in missing

\* The exit stop of a call keeps the caller's table complete, and no other
\* task's table or descriptors change.
LEMMA ExitKept ==
    ASSUME TypeOK, Tracked, Kept, NEW t \in Task, NEW r \in Fd \cup {0, -1}, Exit(t, r)
    PROVE  Kept'
  <1> USE DEF TypeOK
  <1>0. /\ stale \subseteq stale' /\ missing \subseteq missing' /\ tasks' = tasks /\ msg' = msg
        /\ mode[t] \in {"incall", "leaving"} /\ mode' = [mode EXCEPT ![t] = "user"]
    BY DEF Exit
  <1>1. ASSUME NEW v \in tasks' \ (stale' \cup missing') PROVE Complete(table'[v], fds'[v])
    <2>1. v \in Task /\ v \in tasks /\ v \notin stale /\ v \notin missing /\ Sync(v)
      BY <1>0, <1>1 DEF Tracked
    <2>2. Complete(table[v], fds[v])
      BY <2>1 DEF Kept
    <2>3. CASE v # t
      <3>1. fds'[v] = fds[v] /\ table'[v] = table[v]
        BY <2>1, <2>3 DEF Exit, Sync, HandleStop
      <3> QED
        BY <2>2, <3>1
    <2>4. CASE v = t
      <3>1. phase[t] = "exit" /\ pending[t] = on_entry(call[t]) /\ t \in shares[t]
        BY <1>0, <2>1, <2>4 DEF Sync
      <3>2. /\ fds'[t] = After(call[t], fds[t], r)
            /\ table'[t] = on_exit_table(on_entry(call[t]), table[t], r)
        BY SMTT(60), <2>1, <2>4, <3>1 DEF Exit, HandleStop
      <3>3. ~(call[t].nr = "close_range" /\ call[t].rdx = 1)
        BY <1>1, <2>4 DEF Exit
      <3>4. CASE mode[t] = "incall"
        <4>1. r \in Results(call[t], fds[t])
          BY <3>4 DEF Exit
        <4> QED
          BY SMTT(60), <2>2, <2>4, <3>2, <3>3, <4>1, ExitKeepsAll
      <3>5. CASE mode[t] = "leaving"
        <4>1. call[t].nr \in {"fork", "thread"} /\ on_entry(call[t]).syscall = call[t].nr
          BY <2>1, <2>4, <3>5, EntryOperands DEF Sync, Operands
        <4> QED
          BY <2>2, <2>4, <3>2, <4>1 DEF After, on_exit_table
      <3> QED
        BY <1>0, <3>4, <3>5, <2>4
    <2> QED
      BY <2>3, <2>4
  <1>2. ASSUME NEW v \in Task, mode'[v] = "forked", v \in missing' PROVE msg'[v] \in missing'
    <2>1. v # t /\ mode[v] = "forked"
      BY <1>0, <1>2
    <2>2. v \in missing
      BY <1>2, <2>1 DEF Exit
    <2> QED
      BY <1>0, <2>1, <2>2 DEF Kept
  <1> QED
    BY <1>1, <1>2 DEF Kept

\* The other steps: an entry stop touches no table; a clone event copies the
\* parent's table to a child that has the parent's descriptors.
LEMMA NextKept == TypeOK /\ Tracked /\ Kept /\ [Next]_vars => Kept'
  <1> SUFFICES ASSUME TypeOK, Tracked, Kept, [Next]_vars PROVE Kept'
    OBVIOUS
  <1> USE DEF TypeOK
  <1>1. ASSUME NEW t \in Task, NEW c \in Calls, Enter(t, c) PROVE Kept'
    <2>1. ASSUME NEW v \in tasks \ stale' PROVE v \in Task \ stale /\ table'[v] = table[v]
      <3>1. v \in Task \ stale
        BY <1>1, <2>1 DEF Enter
      <3>2. v = t => phase[t] = "entry"
        BY SMTT(60), <1>1, <3>1 DEF Enter, Tracked, Sync
      <3> QED
        BY <1>1, <3>1, <3>2 DEF Enter, HandleStop
    <2> QED
      BY <1>1, <2>1 DEF Kept, Enter
  <1>2. ASSUME NEW t \in Task, NEW r \in Fd \cup {0, -1}, Exit(t, r) PROVE Kept'
    BY <1>2, ExitKept
  <1>3. ASSUME NEW t \in Task, NEW u \in Task, Fork(t, u) PROVE Kept'
    <2>1. u \notin tasks /\ stale \subseteq stale' /\ missing \subseteq missing' /\ u # t
      BY <1>3 DEF Fork, Tracked
    <2>2. \A v \in Task : mode[v] = "forked" => v # u /\ v # t
      BY <1>3 DEF Fork
    <2> QED
      BY <1>3, <2>1, <2>2 DEF Kept, Fork
  <1>4. ASSUME NEW t \in Task, CloneEvent(t) PROVE Kept'
    <2>1. /\ mode[t] = "forked" /\ msg[t] \in Task /\ Forked(t)
          /\ UNCHANGED <<stale, missing, fds, msg>> /\ mode' = [mode EXCEPT ![t] = "leaving"]
      BY <1>4 DEF CloneEvent, Tracked
    <2>2. ASSUME NEW v \in tasks' \ (stale' \cup missing') PROVE Complete(table'[v], fds'[v])
      <3>1. CASE v = msg[t] /\ t \in tasks
        <4>1. t \notin stale /\ t \notin missing /\ fds[v] = fds[t]
          BY <2>1, <2>2, <3>1 DEF Forked, Kept
        <4> QED
          BY SMTT(60), <1>4, <2>1, <3>1, <4>1 DEF CloneEvent, Kept
      <3>2. CASE ~(v = msg[t] /\ t \in tasks)
        BY SMTT(60), <1>4, <2>1, <2>2, <3>2 DEF CloneEvent, Kept
      <3> QED
        BY <3>1, <3>2
    <2> QED
      BY <2>1, <2>2 DEF Kept
  <1>5. ASSUME NEW t \in Task, NEW kept \in SUBSET Fd, ExecEvent(t, kept) PROVE Kept'
    BY <1>5 DEF Kept, ExecEvent
  <1>6. CASE UNCHANGED vars
    BY <1>6 DEF vars, kernel, Kept
  <1> QED
    BY <1>1, <1>2, <1>3, <1>4, <1>5, <1>6 DEF Next

\* Every descriptor opened by path is tracked under what was read of that path,
\* for any descriptors, paths, failing reads and number of tasks (FdTable and
\* SyscallDecoder::on_exit).
THEOREM NoFileLost == Spec => []TableComplete
  <1>1. Init => Kept
    <2>1. Closed \notin Path /\ Untracked \notin Path
      BY NameAssumption DEF Closed, Untracked
    <2> SUFFICES ASSUME Init PROVE Kept
      BY SMTT(60)
    <2>2. \A f \in Fd : fds[Root][f] \in {Closed, Untracked}
      BY SMTT(60), TaskAssumption DEF Init
    <2>3. tasks = {Root} /\ missing = {}
      BY DEF Init
    <2> QED
      BY <2>1, <2>2, <2>3 DEF Kept, Complete
  <1>2. TypeOK /\ Kept => TableComplete
    BY DEF TypeOK, Kept, Complete, TableComplete
  <1> QED
    BY <1>1, <1>2, InitType, NextType, Followed, NextKept, PTL DEF Spec

-----------------------------------------------------------------------------
(***************************************************************************)
(* Events.                                                                 *)
(***************************************************************************)
\* The names on_entry takes from the registers of the calls that act on a path.
OnPath == {"open", "unlink", "mkdir", "chmod", "rename"} \cup AtCalls

NamesOf(c) ==
    /\ c.nr \in OnPath => on_entry(c).path = Shown[PathOperand(c)]
    /\ c.nr = "rename" => on_entry(c).path_two = Shown[RenameTarget(c)]

\* on_entry reads each name from the register the kernel's ABI passes it in.
LEMMA EntryNames ==
    ASSUME NEW c \in AllCalls
    PROVE  NamesOf(c)
  <1> USE DEF NamesOf, OnPath, AtCalls, Registers, on_entry, Cleared, PathOperand, RenameTarget,
              read_process_string, read_process_memory_string
  <1>1. ASSUME NEW nr \in PathCalls, NEW p \in Path, c = Registers(nr, p, 0, 0, 0) PROVE NamesOf(c)
    BY <1>1 DEF PathCalls
  <1>2. ASSUME NEW nr \in AtCalls, NEW p \in Path, c = Registers(nr, 0, p, 0, 0) PROVE NamesOf(c)
    BY <1>2 DEF PathCalls
  <1>3. ASSUME NEW nr \in FdCalls, NEW f, c = Registers(nr, f, 0, 0, 0) PROVE NamesOf(c)
    BY <1>3 DEF FdCalls
  <1>4. ASSUME NEW f, NEW g, c = Registers("dup2", f, g, 0, 0) PROVE NamesOf(c)
    BY <1>4
  <1>5. ASSUME NEW f, NEW g, NEW x, c = Registers("close_range", f, g, x, 0) PROVE NamesOf(c)
    BY <1>5
  <1>6. ASSUME NEW p \in Path, NEW q \in Path, c = Registers("rename", p, q, 0, 0) PROVE NamesOf(c)
    BY <1>6
  <1>7. ASSUME NEW nr \in {"renameat", "renameat2"}, NEW p \in Path, NEW q \in Path,
               c = Registers(nr, 0, p, 0, q)
        PROVE  NamesOf(c)
    BY <1>7
  <1>8. ASSUME NEW nr \in PlainCalls \cup {"none", "execve"}, c = Registers(nr, 0, 0, 0, 0)
        PROVE  NamesOf(c)
    BY <1>8 DEF PlainCalls
  <1> HIDE DEF NamesOf, Registers
  <1>9. c \in Calls => NamesOf(c)
    BY SMTT(60), <1>1, <1>2, <1>3, <1>4, <1>5, <1>6, <1>7, <1>8 DEF Calls
  <1> QED
    BY SMTT(60), <1>8, <1>9 DEF AllCalls, NoCall, ExecLeft

EventTrue(e, c, D, r) ==
    /\ e.kind \in FdEvents /\ e.fd # NoFd => e.fd = c.rdi /\ e.path = Shown[D[e.fd]]
    /\ e.kind = "FileOpened" =>
          c.nr \in {"open", "openat"} /\ r >= 0 /\ e.fd = r /\ e.path = Shown[PathOperand(c)]
    /\ e.kind \in FdEvents \cup {"FileDeleted", "DirectoryCreated"} /\ e.fd = NoFd =>
          e.path = Shown[PathOperand(c)]
    /\ e.kind = "FileRenamed" /\ c.nr = "rename" =>
          e.path = Shown[PathOperand(c)] /\ e.to = Shown[RenameTarget(c)]

\* What on_exit reports of a call, by its decoded operands and a true table.
LEMMA ExitReports ==
    ASSUME NEW c \in AllCalls, NEW T \in Tables, NEW D \in Fds, Truthful(T, D), NEW r \in Int
    PROVE  EventTrue(on_exit_event(on_entry(c), T, r), c, D, r)
  <1> DEFINE p == on_entry(c)
             e == on_exit_event(p, T, r)
             path == lookup(T, p.fd)
             Named(kind) == IF path = NoPath THEN NoEvent ELSE Event(kind, p.fd, path, NoText)
  <1> SUFFICES EventTrue(e, c, D, r)
    OBVIOUS
  <1>0. Operands(c) /\ p.syscall = c.nr /\ NamesOf(c)
    BY EntryOperands, EntryNames DEF Operands
  <1>1. EventTrue(NoEvent, c, D, r)
    BY DEF EventTrue, NoEvent, FdEvents
  <1>2. ASSUME c.nr \in FdCalls, NEW kind \in FdEvents PROVE EventTrue(Named(kind), c, D, r)
    <2>1. p.fd = c.rdi /\ c.rdi \in Fd
      BY <1>0, <1>2 DEF Operands
    <2>2. \A f \in Fd : f # NoFd
      BY SMTT(60), FdAssumption DEF NoFd
    <2>3. path # NoPath => path = Shown[D[c.rdi]]
      BY <2>1 DEF lookup, Truthful
    <2>4. path # NoPath => EventTrue(Event(kind, c.rdi, Shown[D[c.rdi]], NoText), c, D, r)
      BY <1>2, <2>1, <2>2 DEF EventTrue, Event, FdEvents
    <2> QED
      BY <1>1, <2>1, <2>3, <2>4
  <1>3. ASSUME NEW kind \in {"FileDeleted", "DirectoryCreated", "FileModeChanged"}, c.nr \in OnPath
        PROVE  EventTrue(Event(kind, NoFd, p.path, NoText), c, D, r)
    BY <1>0, <1>3 DEF EventTrue, Event, FdEvents, NamesOf
  <1>4. CASE c.nr \in {"open", "openat"}
    <2>1. e \in {NoEvent, Event("SyscallFailed", NoFd, NoText, NoText)} \/ (r >= 0 /\ e = Event("FileOpened", r, p.path, NoText))
      BY SMTT(60), <1>0, <1>4 DEF on_exit_event
    <2>2. p.path = Shown[PathOperand(c)]
      BY <1>0, <1>4 DEF NamesOf, OnPath, AtCalls
    <2> HIDE DEF e, p
    <2>3. EventTrue(Event("SyscallFailed", NoFd, NoText, NoText), c, D, r)
      BY DEF EventTrue, Event, FdEvents
    <2>4. ASSUME r >= 0 PROVE EventTrue(Event("FileOpened", r, p.path, NoText), c, D, r)
      BY <1>4, <2>2, <2>4 DEF EventTrue, Event, FdEvents
    <2> QED
      BY <1>1, <2>1, <2>3, <2>4
  <1>5. CASE c.nr \in {"rename", "renameat", "renameat2"}
    <2>1. e \in {NoEvent, Event("FileRenamed", NoFd, p.path, p.path_two)}
      BY <1>0, <1>5 DEF on_exit_event
    <2>2. c.nr = "rename" => p.path = Shown[PathOperand(c)] /\ p.path_two = Shown[RenameTarget(c)]
      BY <1>0 DEF NamesOf, OnPath
    <2> HIDE DEF e, p
    <2> QED
      BY SMTT(60), <1>1, <2>1, <2>2 DEF EventTrue, Event, FdEvents
  <1>6. CASE c.nr \in {"unlink", "unlinkat", "mkdir", "mkdirat", "chmod", "fchmodat"}
    <2>1. \/ e = NoEvent
          \/ \E kind \in {"FileDeleted", "DirectoryCreated", "FileModeChanged"} :
                e = Event(kind, NoFd, p.path, NoText)
      BY <1>0, <1>6 DEF on_exit_event
    <2>2. c.nr \in OnPath
      BY <1>6 DEF OnPath, AtCalls
    <2> HIDE DEF e, p
    <2> QED
      BY <1>1, <1>3, <2>1, <2>2
  <1>7. CASE c.nr \in {"fchmod", "read", "write", "close"}
    <2>1. \/ e \in {NoEvent, Event("SyscallFailed", NoFd, NoText, NoText)}
          \/ \E kind \in FdEvents : e = Named(kind)
      BY SMTT(60), <1>0, <1>7 DEF on_exit_event, FdEvents
    <2>2. c.nr \in FdCalls
      BY <1>7 DEF FdCalls
    <2>3. EventTrue(Event("SyscallFailed", NoFd, NoText, NoText), c, D, r)
      BY SMTT(60) DEF EventTrue, Event, FdEvents
    <2> HIDE DEF e, p, Named
    <2> QED
      BY <1>1, <1>2, <2>1, <2>2, <2>3
  <1>8. CASE c.nr = "socket"
    <2>1. e \in {NoEvent, Event("SocketCreated", r, NoText, NoText)}
      BY <1>0, <1>8 DEF on_exit_event
    <2> HIDE DEF e, p
    <2> QED
      BY SMTT(60), <1>1, <2>1 DEF EventTrue, Event, FdEvents
  <1>9. CASE c.nr \notin {"open", "openat", "rename", "renameat", "renameat2", "unlink", "unlinkat",
                          "mkdir", "mkdirat", "chmod", "fchmodat", "fchmod", "read", "write", "close", "socket"}
    <2>1. e = NoEvent
      BY <1>0, <1>9 DEF on_exit_event
    <2> QED
      BY <1>1, <2>1
  <1> QED
    BY <1>4, <1>5, <1>6, <1>7, <1>8, <1>9

\* Every event on_exit reports of a task that is not excepted names the
\* file the call was about, as far as its path was read, for any descriptors, paths,
\* failing reads and number of tasks.
THEOREM EventsTrue == Spec => EventsTruthful
  <1>1. TypeOK /\ Tracked /\ [Next]_vars =>
        [\A t \in tasks \ stale, result \in Fd \cup {0, -1} :
            mode[t] # "user" /\ mode'[t] = "user" /\ Exit(t, result) => NamesItsFile(t, result)]_vars
    <2> SUFFICES ASSUME TypeOK, Tracked, NEW t \in tasks \ stale, NEW result \in Fd \cup {0, -1},
                        Exit(t, result)
                 PROVE  NamesItsFile(t, result)
      OBVIOUS
    <2> DEFINE e == Reported(t, call[t], result)
    <2>1. /\ t \in Task /\ Sync(t) /\ t \in tasks /\ mode[t] \in {"incall", "leaving"}
          /\ call[t] \in AllCalls /\ result \in Int /\ table[t] \in Tables /\ fds[t] \in Fds
      BY SMTT(60), FdAssumption DEF TypeOK, Tracked, Exit
    <2>2. phase[t] = "exit" /\ pending[t] = on_entry(call[t]) /\ t \in shares[t] /\ Truthful(table[t], fds[t])
      BY <2>1 DEF Sync
    <2>3. e = on_exit_event(on_entry(call[t]), table[t], result)
      BY <2>1, <2>2 DEF Reported
    <2>4. EventTrue(e, call[t], fds[t], result)
      BY <2>1, <2>2, <2>3, ExitReports
    <2> HIDE DEF e
    <2>5. e.kind = "FileOpened" => e.path = Shown[fds'[t][e.fd]]
      <3> SUFFICES ASSUME e.kind = "FileOpened" PROVE e.path = Shown[fds'[t][e.fd]]
        OBVIOUS
      <3>1. call[t].nr \in {"open", "openat"} /\ result >= 0 /\ e.fd = result /\ e.path = Shown[PathOperand(call[t])]
        BY <2>4 DEF EventTrue
      <3>2. mode[t] = "incall"
        BY <2>1, <3>1 DEF Sync
      <3>3. result \in Fd
        <4>1. Results(call[t], fds[t]) = Free(fds[t]) \cup {-1}
          BY <3>1 DEF Results, RenameCalls
        <4>2. result \in Results(call[t], fds[t])
          BY <3>2 DEF Exit
        <4>3. result # -1
          BY SMTT(60), <3>1
        <4> QED
          BY <4>1, <4>2, <4>3 DEF Free
      <3>4. fds'[t] = [fds[t] EXCEPT ![result] = PathOperand(call[t])]
        BY <2>1, <2>2, <3>1 DEF Exit, After
      <3> QED
        BY <2>1, <3>1, <3>3, <3>4 DEF Fds
    <2> QED
      BY <2>4, <2>5 DEF EventTrue, NamesItsFile, e
  <1> QED
    BY <1>1, DecoderTypes, Followed, PTL DEF Spec, EventsTruthful
=============================================================================
