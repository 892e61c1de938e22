------------------------------- MODULE Rootfs -------------------------------
(***************************************************************************)
(* rootfs::Session (src/src/package/rootfs.cpp).  A process creates the    *)
(* directories of a session, works on them and removes them; a guardian it *)
(* forks removes them when the process is killed, which may be at any step.*)
(*                                                                         *)
(* The names of a session are made from the process id, which a later      *)
(* process may have again: the process of the model starts anew after it   *)
(* was killed, and finds what its predecessor left.  package::scan makes a *)
(* workspace of its own for each session; main gives every build::run the  *)
(* same one, session_root / "build-workspace", so another build may remove *)
(* it at any time.                                                         *)
(***************************************************************************)
EXTENDS Naturals, Sequences

VARIABLES
    builds,     \* the process runs build::run; otherwise package::scan
    given,      \* create() is given a rootfs, a tree with files in it
    owner,      \* control point of the process
    guardian,   \* control point of the guardian
    held,       \* source_, writable_ and base_ of the Session
    disk,       \* what exists of the paths below
    rm,         \* what the process and the guardian have still to remove
    inherited   \* history: what was on disk when the process started

fixed == <<builds, given, inherited>>
session == <<owner, guardian, held, disk, rm>>

\* Paths: the workspace, what is inside it, and the two snapshots, which are
\* inside it as well unless a rootfs is given: then they are beside the rootfs.
NoPath == ""
Workspace == "workspace"
Base == "base"
Plain == "rootfs"
Source == "source"
Writable == "session"

Inside == {Workspace, Base, Plain} \cup IF given THEN {} ELSE {Source, Writable}

NoSession == [source |-> NoPath, writable |-> NoPath, base |-> NoPath]

Init ==
    /\ builds \in BOOLEAN
    /\ given \in BOOLEAN
    /\ owner = "idle"
    /\ guardian = "none"
    /\ held = NoSession
    /\ disk = {}
    /\ rm = [owner |-> <<>>, guardian |-> <<>>]
    /\ inherited = {}

Owner(from, to) == owner = from /\ owner' = to
Guardian(from, to) == guardian = from /\ guardian' = to
Makes(path) == path \notin disk /\ disk' = disk \cup {path}

\* Session::isolated
isolated == held.writable = Writable

\* remove_all does not remove the files of a read-only snapshot.
Undeletable == IF given THEN {Source} ELSE {}

Tree(path) == IF path = Workspace THEN Inside ELSE {path}

\* remove_path for the first of the paths that `who` has to remove.
remove_path(who) ==
    /\ disk' = disk \ (Tree(Head(rm[who])) \ Undeletable)
    /\ rm' = [rm EXCEPT ![who] = Tail(@)]

\* What the guardian gets as arguments.
Arguments == <<held.source, held.writable, held.base, Workspace>>

-----------------------------------------------------------------------------
(***************************************************************************)
(* Session::create.  Each way out destroys the Session under construction, *)
(* or hands it to the caller.                                              *)
(***************************************************************************)
\* The caller makes the workspace, and so does create().  After a process was
\* killed another one has its id, not before the guardian has ended, or has
\* been adopted and waits; a scan has a new workspace then.
Start ==
    /\ guardian \in {"none", "dead", "stranded"}
    /\ Owner("idle", "create") \/ Owner("killed", "create")
    /\ guardian' = "none"
    /\ inherited' = IF builds THEN disk ELSE disk \ Inside
    /\ disk' = inherited' \cup {Workspace}
    /\ UNCHANGED <<builds, given, held, rm>>

\* No base directory or no Btrfs: a plain directory, and no guardian.
Degrade ==
    /\ Owner("create", "use")
    /\ held' = [NoSession EXCEPT !.writable = Plain]
    /\ disk' = disk \cup {Workspace, Plain}
    /\ UNCHANGED <<fixed, guardian, rm>>

\* The plain directory or the base subvolume cannot be made.
CreateFails ==
    /\ Owner("create", "leave")
    /\ \/ held' = [NoSession EXCEPT !.writable = Plain]
       \/ ~given /\ held' = [NoSession EXCEPT !.base = Base]
    /\ UNCHANGED <<fixed, guardian, disk, rm>>

\* Mutant: the subvolume is made before base_ is set.
create_subvolume_unnamed ==
    /\ ~given /\ Workspace \in disk
    /\ Owner("create", "based")
    /\ Makes(held.base)
    /\ held' = [NoSession EXCEPT !.base = Base]
    /\ UNCHANGED <<fixed, guardian, rm>>

\* Without a rootfs the source is an empty subvolume.
create_subvolume ==
    /\ ~given /\ Workspace \in disk
    /\ Owner("create", "based")
    /\ held' = [NoSession EXCEPT !.base = Base]
    /\ Makes(Base)
    /\ UNCHANGED <<fixed, guardian, rm>>

\* The names of the session, unless one of them exists.
Name(found) ==
    /\ found <=> {Source, Writable} \cap disk # {}
    /\ Owner(IF given THEN "create" ELSE "based", IF found THEN "leave" ELSE "named")
    /\ held' = [held EXCEPT !.source = Source, !.writable = Writable]
    /\ UNCHANGED <<fixed, guardian, disk, rm>>

\* The read-only snapshot and the writable one.
snapshot ==
    /\ \/ /\ Owner("named", "sourced")
          /\ ~given => {Base, Workspace} \subseteq disk
          /\ Makes(Source)
       \/ /\ Owner("sourced", "snapped")
          /\ Source \in disk
          /\ Makes(Writable)
    /\ UNCHANGED <<fixed, guardian, held, rm>>

\* One of them fails: what there is is removed, and a plain directory made.
SnapshotFails ==
    /\ Owner("named", "undo") \/ Owner("sourced", "undo")
    /\ rm' = [rm EXCEPT !.owner = <<held.base, Source, Writable>>]
    /\ held' = [held EXCEPT !.source = NoPath, !.writable = Plain]
    /\ UNCHANGED <<fixed, guardian, disk>>

FallBack ==
    /\ rm.owner = <<>>
    /\ \/ Owner("undo", "leave") /\ UNCHANGED disk
       \/ Owner("undo", "snapped") /\ disk' = disk \cup {Workspace, Plain}
    /\ UNCHANGED <<fixed, guardian, held, rm>>

\* fork may fail, and the session goes on without a guardian.
launch_guardian ==
    /\ Owner("snapped", "use")
    /\ guardian' \in {"forked", "none"}
    /\ UNCHANGED <<fixed, held, disk, rm>>

-----------------------------------------------------------------------------
(***************************************************************************)
(* The end of the session.                                                 *)
(***************************************************************************)
\* Mutant: the writable tree is forgotten.
release_keeps_writable ==
    /\ Owner("leave", "remove")
    /\ rm' = [rm EXCEPT !.owner = <<held.source, held.base>>]
    /\ UNCHANGED <<fixed, guardian, held, disk>>

\* Session::release, from the destructor.
release ==
    /\ Owner("leave", "remove")
    /\ rm' = [rm EXCEPT !.owner = <<held.source, held.writable, held.base>>]
    /\ UNCHANGED <<fixed, guardian, held, disk>>

OwnerRemoves ==
    /\ owner \in {"undo", "remove", "last"} /\ rm.owner # <<>>
    /\ remove_path("owner")
    /\ UNCHANGED <<fixed, owner, guardian, held>>

\* What SIGTERM does to the guardian: without the handler it just ends.
Terminated(point) ==
    CASE point = "armed" -> "cleaning"
      [] point \in {"forked", "bound", "checked"} -> "dead"
      [] OTHER -> point

Cleaning == IF guardian = "armed" THEN Arguments ELSE rm.guardian

\* kill(guardian_, SIGTERM), if there is one.
StopGuardian ==
    /\ rm.owner = <<>>
    /\ Owner("remove", "wait")
    /\ guardian' = Terminated(guardian)
    /\ rm' = [rm EXCEPT !.guardian = Cleaning]
    /\ UNCHANGED <<fixed, held, disk>>

\* waitpid(guardian_)
WaitGuardian ==
    /\ guardian \in {"none", "dead"}
    /\ Owner("wait", "last")
    /\ guardian' = "none"
    /\ rm' = [rm EXCEPT !.owner = <<Workspace>>]
    /\ UNCHANGED <<fixed, held, disk>>

Released ==
    /\ rm.owner = <<>>
    /\ Owner("last", "done")
    /\ held' = NoSession
    /\ UNCHANGED <<fixed, guardian, disk, rm>>

\* The process is killed; the kernel sends SIGTERM to a guardian that asked for it.
Killed ==
    /\ owner \notin {"idle", "done", "killed"}
    /\ owner' = "killed"
    /\ guardian' = IF guardian = "forked" THEN guardian ELSE Terminated(guardian)
    /\ rm' = [owner |-> <<>>, guardian |-> Cleaning]
    /\ held' = NoSession
    /\ UNCHANGED <<fixed, disk>>

-----------------------------------------------------------------------------
(***************************************************************************)
(* The guardian.                                                           *)
(***************************************************************************)
\* prctl(PR_SET_PDEATHSIG, SIGTERM)
set_pdeathsig ==
    /\ Guardian("forked", "bound")
    /\ UNCHANGED <<fixed, owner, held, disk, rm>>

\* if (getppid() == 1) _exit(0): an orphan of init leaves, one that another
\* reaper adopted waits for a signal that nobody will send.
check_parent ==
    /\ \/ owner # "killed" /\ Guardian("bound", "checked")
       \/ owner = "killed" /\ (Guardian("bound", "dead") \/ Guardian("bound", "stranded"))
    /\ UNCHANGED <<fixed, owner, held, disk, rm>>

\* Mutant: the handler is run, not installed.
arm_at_once ==
    /\ Guardian("checked", "cleaning")
    /\ rm' = [rm EXCEPT !.guardian = Arguments]
    /\ UNCHANGED <<fixed, owner, held, disk>>

\* sigaction(SIGTERM), and pause
arm ==
    /\ Guardian("checked", "armed")
    /\ UNCHANGED <<fixed, owner, held, disk, rm>>

\* Mutant: rm stops at the first path that it cannot remove.
guardian_cleanup_stops ==
    /\ \/ Guardian("cleaning", "dead") /\ (rm.guardian = <<>> \/ given)
          /\ UNCHANGED <<disk, rm>>
       \/ guardian = "cleaning" /\ rm.guardian # <<>> /\ ~given
          /\ remove_path("guardian") /\ UNCHANGED guardian
    /\ UNCHANGED <<fixed, owner, held>>

\* guardian_cleanup: rm -rf of the four paths.
guardian_cleanup ==
    /\ \/ Guardian("cleaning", "dead") /\ rm.guardian = <<>> /\ UNCHANGED <<disk, rm>>
       \/ guardian = "cleaning" /\ rm.guardian # <<>>
          /\ remove_path("guardian") /\ UNCHANGED guardian
    /\ UNCHANGED <<fixed, owner, held>>

-----------------------------------------------------------------------------
\* Another build ends, and releases its Session with the workspace of both.
OtherBuildEnds ==
    /\ builds
    /\ disk' = disk \ Inside
    /\ UNCHANGED <<fixed, owner, guardian, held, rm>>

-----------------------------------------------------------------------------
Creating ==
    \/ Degrade \/ CreateFails \/ create_subvolume \/ (\E found \in BOOLEAN : Name(found))
    \/ snapshot \/ SnapshotFails \/ FallBack \/ launch_guardian

Releasing ==
    release \/ OwnerRemoves \/ StopGuardian \/ WaitGuardian \/ Released

Guarding == set_pdeathsig \/ check_parent \/ arm \/ guardian_cleanup
=============================================================================
