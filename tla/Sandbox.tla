------------------------------- MODULE Sandbox -------------------------------
(***************************************************************************)
(* execell::sandbox::run (src/src/sandbox/sandbox.cpp): the process that   *)
(* called run() prepares a forked child and waits for it, the child        *)
(* confines itself step by step and then executes the target.  They meet   *)
(* at a pipe: a child with a user namespace goes on only after the byte    *)
(* the parent writes when the uid and gid maps are in place.               *)
(*                                                                         *)
(* The child's steps are a fixed sequence of which a configuration selects *)
(* some; every one but the capability drop may fail, and then the child    *)
(* exits with 127.  The parent may be killed at any moment (run_captured   *)
(* does so after a timeout).                                               *)
(*                                                                         *)
(* The names of the specification carry Run: module Capture is the other   *)
(* entry point of sandbox.cpp, and one module has the proofs of both.      *)
(***************************************************************************)
EXTENDS Naturals

CONSTANT Offered   \* the options a configuration may ask for

VARIABLES
    config,    \* sandbox::Config: the options asked for
    parent,    \* control point of run(), or how the calling process ended
    child,     \* the forked child
    applied,   \* the steps the child has performed
    armed,     \* PR_SET_PDEATHSIG is set
    mapped,    \* uid_map and gid_map of the child are written
    assigned,  \* the child is in its cgroup
    ready,     \* the sync pipe: empty, holding the byte, or at end of file
    ended,     \* how the child ended
    ret,       \* what run() returned
    ran        \* history: the target has been executed

run_vars == <<config, parent, child, applied, armed, mapped, assigned, ready, ended, ret, ran>>

\* Options that select a step of the child, and those for the parent.
ChildOptions == {"user_namespace", "mount_namespace", "read_only_root", "rootfs",
                 "working_directory", "network_namespace", "drop_capabilities",
                 "no_new_privileges", "seccomp", "limits", "unprivileged", "clean_environment"}
Options == ChildOptions \cup {"cgroup"}

ASSUME OfferedAssumption == Offered \subseteq Options

\* validate(): the combinations run() accepts.
validate(c) ==
    /\ "mount_namespace" \in c => "user_namespace" \in c
    /\ "mount_namespace" \in c \/ "network_namespace" \in c => "drop_capabilities" \in c
    /\ "seccomp" \in c => "no_new_privileges" \in c

\* The order of the child's steps.
Rank(s) ==
    CASE s = "setpgid" -> 1 [] s = "getppid" -> 2 [] s = "pdeathsig" -> 3 [] s = "getppid_again" -> 4
      [] s = "user_namespace" -> 5 [] s = "setgroups" -> 6 [] s = "ready" -> 7
      [] s = "mount_namespace" -> 8 [] s = "private" -> 9 [] s = "read_only_root" -> 10
      [] s = "rootfs" -> 11 [] s = "tmpfs" -> 12 [] s = "working_directory" -> 13
      [] s = "network_namespace" -> 14 [] s = "drop_capabilities" -> 15
      [] s = "no_new_privileges" -> 16 [] s = "seccomp" -> 17 [] s = "limits" -> 18
      [] s = "unprivileged" -> 19 [] s = "clean_environment" -> 20

Always == {"setpgid", "getppid", "pdeathsig", "getppid_again"}
Steps == Always \cup ChildOptions \cup {"setgroups", "ready", "private", "tmpfs"}

\* The steps a configuration selects.
Wanted(c) ==
    Always
    \cup (c \cap (ChildOptions \ {"read_only_root"}))
    \cup (IF "user_namespace" \in c THEN {"setgroups", "ready"} ELSE {})
    \cup (IF "mount_namespace" \in c THEN {"private", "tmpfs"} \cup (c \cap {"read_only_root"}) ELSE {})

\* s is the child's next step.
Turn(s) ==
    /\ child = "setup"
    /\ s \in Wanted(config) \ applied
    /\ \A r \in Wanted(config) \ applied : Rank(s) <= Rank(r)

ParentAlive == parent \notin {"dead", "returned"}

RunInit ==
    /\ config \in {c \in SUBSET Offered : validate(c)}
    /\ parent = "setpgid"
    /\ child = "setup"
    /\ applied = {}
    /\ armed = FALSE
    /\ mapped = FALSE
    /\ assigned = FALSE
    /\ ready = "empty"
    /\ ended = "none"
    /\ ret = "none"
    /\ ran = FALSE

-----------------------------------------------------------------------------
(***************************************************************************)
(* The child.                                                              *)
(***************************************************************************)
\* _exit(s), or death by a signal.
ChildEnds(s) ==
    /\ child' = "zombie"
    /\ ended' = s
    /\ UNCHANGED <<config, parent, applied, armed, mapped, assigned, ready, ret, ran>>

\* When a step can succeed: getppid() still returns the parent; setgroups is
\* denied before gid_map is written; the byte has arrived; a process without
\* capabilities cannot change its uid.
Possible(s) ==
    /\ s \in {"getppid", "getppid_again"} => parent # "dead"
    /\ s = "setgroups" => ~mapped
    /\ s = "ready" => ready = "byte"
    /\ s = "unprivileged" => "drop_capabilities" \notin applied

\* The kernel forgets the death signal when the uid changes.
Armed(s) == s = "pdeathsig" \/ (armed /\ s # "unprivileged")

\* Mutant: the second getppid() is not compared.
DoAnyParent(s) ==
    /\ Turn(s) /\ (Possible(s) \/ s = "getppid_again")
    /\ applied' = applied \cup {s}
    /\ armed' = Armed(s)
    /\ UNCHANGED <<config, parent, child, mapped, assigned, ready, ended, ret, ran>>

Do(s) ==
    /\ Turn(s) /\ Possible(s)
    /\ applied' = applied \cup {s}
    /\ armed' = Armed(s)
    /\ UNCHANGED <<config, parent, child, mapped, assigned, ready, ended, ret, ran>>

\* getppid() fails by returning another process; read() of the ready byte
\* blocks while the pipe is empty and has a writer; capset is not checked.
Fail(s) ==
    /\ Turn(s)
    /\ s # "drop_capabilities"
    /\ s \in {"getppid", "getppid_again"} => ~Possible(s)
    /\ s = "ready" => ready = "eof"
    /\ ChildEnds("127")

\* execvp, or trace::run of the target.
Exec ==
    /\ child = "setup" /\ Wanted(config) \subseteq applied
    /\ child' = "target"
    /\ ran' = TRUE
    /\ UNCHANGED <<config, parent, applied, armed, mapped, assigned, ready, ended, ret>>

ExecFails ==
    /\ child = "setup" /\ Wanted(config) \subseteq applied
    /\ ChildEnds("127")

TargetEnds(s) ==
    /\ child = "target"
    /\ ChildEnds(s)

-----------------------------------------------------------------------------
(***************************************************************************)
(* The parent.                                                             *)
(***************************************************************************)
Proceed(next) ==
    /\ parent' = next
    /\ UNCHANGED <<config, child, applied, armed, mapped, assigned, ready, ended, ret, ran>>

\* Mutant: the setup failure is returned without killing the child.
AbandonNoKill ==
    /\ parent' = "giveup"
    /\ ready' = "empty"
    /\ UNCHANGED <<config, child, applied, armed, mapped, assigned, ended, ret, ran>>

\* kill(pid, SIGKILL); the write end is closed, then the child is reaped.
Abandon ==
    /\ parent' = "giveup"
    /\ IF child \in {"setup", "target"}
       THEN child' = "zombie" /\ ended' = "KILL"
       ELSE UNCHANGED <<child, ended>>
    /\ ready' = "eof"
    /\ UNCHANGED <<config, applied, armed, mapped, assigned, ret, ran>>

SetProcessGroup ==
    /\ parent = "setpgid"
    /\ Proceed("cgroup") \/ Abandon

configure_cgroup ==
    /\ parent = "cgroup"
    /\ \/ "cgroup" \notin config /\ Proceed("map")
       \/ /\ "cgroup" \in config /\ child # "zombie"
          /\ parent' = "map"
          /\ assigned' = TRUE
          /\ UNCHANGED <<config, child, applied, armed, mapped, ready, ended, ret, ran>>
       \/ "cgroup" \in config /\ Abandon

\* Mutant: a failed mapping is not noticed.
setup_user_namespace_unchecked ==
    /\ parent = "map"
    /\ parent' = "write"
    /\ mapped' \in BOOLEAN
    /\ UNCHANGED <<config, child, applied, armed, assigned, ready, ended, ret, ran>>

\* The maps can be written once the child has unshared its user namespace; the
\* kernel refuses the two overlapping entries of drop_to_unprivileged_user.
setup_user_namespace ==
    /\ parent = "map"
    /\ \/ "user_namespace" \notin config /\ Proceed("write")
       \/ /\ "user_namespace" \in applied /\ child # "zombie" /\ "unprivileged" \notin config
          /\ parent' = "write"
          /\ mapped' = TRUE
          /\ UNCHANGED <<config, child, applied, armed, assigned, ready, ended, ret, ran>>
       \/ "user_namespace" \in config /\ Abandon

\* The byte stays in the pipe when the write end is closed after it.
WriteReady ==
    /\ parent = "write"
    /\ parent' = "wait"
    /\ ready' = "byte"
    /\ UNCHANGED <<config, child, applied, armed, mapped, assigned, ended, ret, ran>>

\* Mutant: the control point is returned in place of a status.
ReapRawStatus ==
    /\ parent \in {"wait", "giveup"} /\ child = "zombie"
    /\ parent' = "returned"
    /\ ret' = parent
    /\ child' = "gone"
    /\ UNCHANGED <<config, applied, armed, mapped, assigned, ready, ended, ran>>

\* Mutant: death by a signal is not decoded.
ReapNoSignal ==
    /\ parent \in {"wait", "giveup"} /\ child = "zombie"
    /\ parent' = "returned"
    /\ ret' = IF parent = "giveup" \/ ended = "KILL" THEN "failure" ELSE ended
    /\ child' = "gone"
    /\ UNCHANGED <<config, applied, armed, mapped, assigned, ready, ended, ran>>

\* wait_for(pid).
ReapChild ==
    /\ parent \in {"wait", "giveup"} /\ child = "zombie"
    /\ parent' = "returned"
    /\ ret' = IF parent = "giveup" THEN "failure" ELSE ended
    /\ child' = "gone"
    /\ UNCHANGED <<config, applied, armed, mapped, assigned, ready, ended, ran>>

\* SIGKILL of the calling process: its end of the pipe closes and the kernel
\* sends the death signal to a child that asked for it.
ParentKilled ==
    /\ ParentAlive
    /\ parent' = "dead"
    /\ ready' = IF ready = "byte" THEN "byte" ELSE "eof"
    /\ IF armed /\ child \in {"setup", "target"}
       THEN child' = "zombie" /\ ended' = "KILL"
       ELSE UNCHANGED <<child, ended>>
    /\ UNCHANGED <<config, applied, armed, mapped, assigned, ret, ran>>

-----------------------------------------------------------------------------
Child ==
    \/ \E s \in Steps : Do(s) \/ Fail(s)
    \/ Exec
    \/ ExecFails

Parent ==
    \/ SetProcessGroup
    \/ configure_cgroup
    \/ setup_user_namespace
    \/ WriteReady
    \/ ReapChild

TargetOutcomes == {"0", "127", "KILL"}

Target == \E s \in TargetOutcomes : TargetEnds(s)

RunNext == Child \/ Parent \/ Target \/ ParentKilled

RunSpec == RunInit /\ [][RunNext]_run_vars

\* Both processes are scheduled, and the target ends (a limit or a caller's
\* timeout sees to that).
RunFairSpec == RunSpec /\ WF_run_vars(Child) /\ WF_run_vars(Parent) /\ WF_run_vars(Target)

-----------------------------------------------------------------------------
(***************************************************************************)
(* Properties.                                                             *)
(***************************************************************************)
\* Types of every variable.
RunTypeOK ==
    /\ config \in SUBSET Offered
    /\ parent \in {"setpgid", "cgroup", "map", "write", "wait", "giveup", "returned", "dead"}
    /\ child \in {"setup", "target", "zombie", "gone"}
    /\ applied \subseteq Steps
    /\ armed \in BOOLEAN
    /\ mapped \in BOOLEAN
    /\ assigned \in BOOLEAN
    /\ ready \in {"empty", "byte", "eof"}
    /\ ended \in TargetOutcomes \cup {"none"}
    /\ ret \in TargetOutcomes \cup {"none", "failure"}
    /\ ran \in BOOLEAN

\* A target with a user namespace runs only when the parent has finished its
\* part as well: the maps are written, setgroups was denied before them, and
\* a requested cgroup already contains the process.  No failure or
\* interleaving of the two set-ups lets it start earlier.
TargetConfined ==
    ran /\ "user_namespace" \in config =>
        /\ mapped
        /\ "cgroup" \in config => assigned
        /\ Wanted(config) \subseteq applied

\* A target never outlives the process that called run(), whenever that one
\* is killed: before, between or after the three calls of
\* set_parent_death_signal.  A target that changed its uid is excepted.
NoOrphanTarget ==
    parent = "dead" /\ "unprivileged" \notin config => child # "target"

\* "exit status remain target-owned": when a target with a user namespace has
\* run, run() returns the status of the child, never its own failure.
StatusOwned ==
    parent = "returned" /\ ran /\ "user_namespace" \in config => ret = ended

\* run() returns and the child is gone, or both have died: the processes never
\* wait for each other at the pipe.
Finishes ==
    <>(\/ parent = "returned"
       \/ parent = "dead" /\ child \in {"zombie", "gone"})
=============================================================================
