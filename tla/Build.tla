------------------------------- MODULE Build --------------------------------
(***************************************************************************)
(* What the process of Rootfs does with its session: package::scan, by its *)
(* use of the session only (module Scan has the rest), or                  *)
(* package::build::run (src/src/package/build.cpp) with the loop of main   *)
(* that scans the packages it built (src/src/main.cpp).  A package file is *)
(* known by its name; its content is the build that made it, this one or   *)
(* another, and whether a repetition came out different.                   *)
(***************************************************************************)
EXTENDS Rootfs

CONSTANTS
    File,         \* names of package files
    Repetitions   \* Options::repetitions

ASSUME RepetitionAssumption == Repetitions \in Nat

VARIABLES
    \* build::run
    built,          \* package files the build phase left in build_root
    first_hashes,   \* the files fingerprinted
    artifacts,      \* Result::artifacts
    repetition,
    reproducible,
    ok,             \* Result::ok
    \* main
    scanned,        \* the scans of artifacts: file, whose it was, accepted or not
    exit,           \* exit status
    \* artifact_root, common to all builds
    store,          \* the build a file is of
    \* history
    differed,       \* files that came out different in a repetition
    overwritten     \* files that another build replaced

build == <<built, first_hashes, artifacts, repetition, reproducible, ok, differed>>
main == <<scanned, exit>>
directory == <<store, overwritten>>
vars == <<fixed, session, build, main, directory>>

BuildInit ==
    /\ Init
    /\ built = {} /\ first_hashes = {} /\ artifacts = {} /\ differed = {}
    /\ repetition = 1 /\ reproducible = TRUE /\ ok = FALSE
    /\ scanned = {} /\ exit = "none"
    /\ store = [f \in File |-> "none"] /\ overwritten = {}

\* A step of the process on its way through the session.
At(from, to) == Owner(from, to) /\ UNCHANGED <<fixed, guardian, held, disk, rm>>

-----------------------------------------------------------------------------
(***************************************************************************)
(* build::run.                                                             *)
(***************************************************************************)
\* The PKGBUILD or the host of a source is refused; for a scan, the package is.
Refuse ==
    /\ At("idle", "done")
    /\ UNCHANGED <<build, main, directory>>

\* A session that is not isolated, a failed staging or a makepkg that fails or
\* runs out of time: the Session is destroyed on the way out.
Fail ==
    /\ builds
    /\ At("use", "leave") \/ At("source", "leave") \/ At("build", "leave")
    /\ UNCHANGED <<build, main, directory>>

\* The PKGBUILD is staged in an isolated session.  create_directories makes the
\* session's tree again, as plain directories, if another build took it away.
Stage ==
    /\ builds /\ isolated
    /\ Owner("use", "source")
    /\ disk' = disk \cup {Writable} \cup IF given THEN {} ELSE {Workspace}
    /\ UNCHANGED <<fixed, guardian, held, rm, build, main, directory>>

\* makepkg --nobuild
SourcePhase ==
    /\ Writable \in disk
    /\ At("source", "build")
    /\ UNCHANGED <<build, main, directory>>

\* makepkg, and the artifact directory
BuildPhase(files) ==
    /\ Writable \in disk
    /\ At("build", "copy")
    /\ built' = files
    /\ UNCHANGED <<first_hashes, artifacts, repetition, reproducible, ok, differed, main, directory>>

\* A file of build_root is fingerprinted and copied over what artifact_root has.
CopyArtifact(f) ==
    /\ f \in built \ first_hashes /\ Writable \in disk
    /\ At("copy", "copy")
    /\ first_hashes' = first_hashes \cup {f}
    /\ artifacts' = artifacts \cup {f}
    /\ store' = [store EXCEPT ![f] = "this"]
    /\ overwritten' = overwritten \ {f}
    /\ UNCHANGED <<built, repetition, reproducible, ok, differed, main>>

\* copy_file fails: its error ends the loop over build_root.
CopyFails(f) ==
    /\ f \in built \ first_hashes
    /\ At("copy", "repeat")
    /\ first_hashes' = first_hashes \cup {f}
    /\ UNCHANGED <<built, artifacts, repetition, reproducible, ok, differed, main, directory>>

CopyEnds ==
    /\ first_hashes = built \/ Writable \notin disk
    /\ At("copy", "repeat")
    /\ UNCHANGED <<build, main, directory>>

\* makepkg once more; `changed` are the files with another fingerprint than at
\* first, all of them if the session is gone.
Repeat(changed) ==
    /\ repetition < Repetitions
    /\ changed \subseteq first_hashes /\ (Writable \notin disk => changed = first_hashes)
    /\ At("repeat", "repeat")
    /\ repetition' = repetition + 1
    /\ reproducible' = (reproducible /\ changed = {})
    /\ differed' = differed \cup changed
    /\ UNCHANGED <<built, first_hashes, artifacts, ok, main, directory>>

\* A repetition that fails is the last.
RepeatFails ==
    /\ repetition < Repetitions
    /\ At("repeat", "repeat")
    /\ repetition' = Repetitions
    /\ reproducible' = FALSE
    /\ UNCHANGED <<built, first_hashes, artifacts, ok, differed, main, directory>>

\* Mutant: any artifact will do.
EndIrreproducible ==
    /\ repetition >= Repetitions
    /\ At("repeat", "leave")
    /\ ok' = (artifacts # {})
    /\ UNCHANGED <<built, first_hashes, artifacts, repetition, reproducible, differed, main, directory>>

End ==
    /\ repetition >= Repetitions
    /\ At("repeat", "leave")
    /\ ok' = (artifacts # {} /\ reproducible)
    /\ UNCHANGED <<built, first_hashes, artifacts, repetition, reproducible, differed, main, directory>>

-----------------------------------------------------------------------------
(***************************************************************************)
(* main, after build::run has returned.                                    *)
(***************************************************************************)
\* package::scan of an artifact, as artifact_root has it by now.
ScanArtifact(f, accepted) ==
    /\ owner = "done" /\ exit = "none" /\ ok
    /\ f \in artifacts /\ \A s \in scanned : s.file # f
    /\ scanned' = scanned \cup {[file |-> f, of |-> store[f], ok |-> accepted]}
    /\ UNCHANGED <<fixed, session, build, exit, directory>>

\* The loop has scanned every artifact: packages_ok.
Exit ==
    /\ builds /\ owner = "done" /\ exit = "none"
    /\ ok => \A f \in artifacts : \E s \in scanned : s.file = f
    /\ exit' = IF ok /\ \A s \in scanned : s.ok THEN "success" ELSE "failure"
    /\ UNCHANGED <<fixed, session, build, scanned, directory>>

\* Another build copies a file of the same name to artifact_root.
OtherBuildCopies(f) ==
    /\ builds
    /\ store' = [store EXCEPT ![f] = "other"]
    /\ overwritten' = IF store[f] = "this" THEN overwritten \cup {f} ELSE overwritten
    /\ UNCHANGED <<fixed, session, build, main>>

-----------------------------------------------------------------------------
\* What a killed build left in build_root and its Result are gone.
Forget ==
    /\ built' = {} /\ first_hashes' = {} /\ artifacts' = {} /\ differed' = {}
    /\ repetition' = 1 /\ reproducible' = TRUE /\ ok' = FALSE
    /\ UNCHANGED <<main, directory>>

Building ==
    \/ Stage \/ SourcePhase \/ (\E files \in SUBSET File : BuildPhase(files))
    \/ (\E f \in File : CopyArtifact(f) \/ CopyFails(f)) \/ CopyEnds
    \/ (\E changed \in SUBSET File : Repeat(changed)) \/ RepeatFails \/ End \/ Fail
    \/ (\E f \in File, accepted \in BOOLEAN : ScanArtifact(f, accepted)) \/ Exit

\* scan() is done with its session.
Scanned ==
    /\ ~builds
    /\ At("use", "leave")
    /\ UNCHANGED <<build, main, directory>>

Owning == ((Creating \/ Releasing) /\ UNCHANGED <<build, main, directory>>) \/ Building \/ Scanned

Guard == Guarding /\ UNCHANGED <<build, main, directory>>

Next ==
    \/ Refuse
    \/ Start /\ UNCHANGED <<build, main, directory>>
    \/ Owning
    \/ Guard
    \/ Killed /\ Forget
    \/ OtherBuildEnds /\ UNCHANGED <<build, main, directory>>
    \/ \E f \in File : OtherBuildCopies(f)

Spec == BuildInit /\ [][Next]_vars

\* The process and its guardian are scheduled; a scan or a build ends, as
\* run_captured has a deadline, and then destroys its Session.
FairSpec == Spec /\ WF_vars(Owning) /\ WF_vars(Guard)

-----------------------------------------------------------------------------
(***************************************************************************)
(* Properties.                                                             *)
(***************************************************************************)
Path == {Workspace, Base, Plain, Source, Writable}

InUse == owner \in {"use", "source", "build", "copy", "repeat"}

\* Types of every variable.
TypeOK ==
    /\ builds \in BOOLEAN /\ given \in BOOLEAN
    /\ owner \in {"idle", "create", "based", "named", "sourced", "snapped", "undo", "use", "source", "build",
                  "copy", "repeat", "leave", "remove", "wait", "last", "done", "killed"}
    /\ guardian \in {"none", "forked", "bound", "checked", "armed", "stranded", "cleaning", "dead"}
    /\ held \in [source : {NoPath, Source}, writable : {NoPath, Writable, Plain}, base : {NoPath, Base}]
    /\ disk \subseteq Path /\ inherited \subseteq Path
    /\ rm \in [owner : Seq(Path \cup {NoPath}), guardian : Seq(Path \cup {NoPath})]
    /\ artifacts \subseteq first_hashes /\ first_hashes \subseteq built /\ built \subseteq File
    /\ repetition \in 1 .. (Repetitions + 1) /\ reproducible \in BOOLEAN /\ ok \in BOOLEAN
    /\ scanned \subseteq [file : File, of : {"this", "other"}, ok : BOOLEAN]
    /\ exit \in {"none", "success", "failure"}
    /\ store \in [File -> {"none", "this", "other"}]

\* The isolated tree of a session exists for as long as its owner works on it:
\* no guardian, clean-up of a failed snapshot or leftover of a process that had
\* the same id takes it away.  Excepted are builds without a given rootfs: their
\* trees are inside the workspace that every build removes when it ends.
NotRemovedInUse == InUse /\ isolated /\ (builds => given) => Writable \in disk

\* release() leaves no guardian, and on disk nothing that was not there before
\* but a read-only snapshot with files in it, however far create() and the
\* guardian had come, and whatever a killed process with the same id had left.
SessionGone == owner = "done" => guardian = "none" /\ disk \ inherited \subseteq Undeletable

\* Once the guardian is armed the session is removed in the end, whether its
\* owner releases it or is killed, also in the middle of release().
GuardedSessionRemoved == guardian = "armed" ~> (disk \ inherited \subseteq Undeletable)

\* A build exits successfully only when it made a package, every repetition gave
\* the same packages again, and every package it lists was scanned and accepted,
\* with the content that this build gave it unless another build has since
\* replaced it in the artifact directory, which all builds share.  Accepted is the
\* ok of scan's Result, which stays true when its delta rejects.
SuccessVouches ==
    exit = "success" =>
        /\ artifacts # {} /\ differed = {}
        /\ \A f \in artifacts : \E s \in scanned :
              s.file = f /\ s.ok /\ (s.of = "this" \/ f \in overwritten)
=============================================================================
