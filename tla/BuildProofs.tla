---------------------------- MODULE BuildProofs -----------------------------
(***************************************************************************)
(* Modules Rootfs and Build for every set of file names and any number of  *)
(* repetitions: the tree of a session stays while it is used, is gone when *)
(* it was released, and a successful build vouches for its packages.       *)
(*                                                                         *)
(* The invariant has a part for the session (Session, with its types) and  *)
(* one for the build (Package); the two meet only at the control point of  *)
(* the process.                                                            *)
(***************************************************************************)
EXTENDS Build, TLAPS

\* Zenon proves the leaves that do not name SMT.
USE ZenonT(60)

\* What there can be to remove.
Lists == Seq(Path \cup {NoPath})

OwnerStates ==
    {"idle", "create", "based", "named", "sourced", "snapped", "undo", "use", "source", "build",
     "copy", "repeat", "leave", "remove", "wait", "last", "done", "killed"}
GuardianStates == {"none", "forked", "bound", "checked", "armed", "stranded", "cleaning", "dead"}

SessionTypes ==
    /\ builds \in BOOLEAN /\ given \in BOOLEAN
    /\ owner \in OwnerStates /\ guardian \in GuardianStates
    /\ held \in [source : {NoPath, Source}, writable : {NoPath, Writable, Plain}, base : {NoPath, Base}]
    /\ disk \subseteq Path /\ inherited \subseteq Path
    /\ rm \in [owner : Lists, guardian : Lists]

\* Where a guardian can be: none outside the time from launch_guardian to
\* waitpid, and it removes paths only when the owner waits for it or was killed.
Watched ==
    /\ owner \in {"idle", "create", "based", "named", "sourced", "snapped", "undo", "last", "done"} =>
          guardian = "none"
    /\ guardian = "cleaning" => owner \in {"wait", "killed"}
    /\ guardian = "stranded" => owner = "killed"
    /\ owner = "wait" => guardian \in {"none", "dead", "cleaning"}

ToRemove(path) == \E i \in 1 .. Len(rm.owner) : rm.owner[i] = path

\* Who answers for the writable snapshot: a session that holds its name, or the
\* list of paths to remove.
Kept ==
    /\ owner \in {"named", "sourced"} => held.writable = Writable
    /\ owner = "undo" => held.writable # Writable
    /\ (owner = "snapped" \/ InUse) /\ isolated /\ (builds => given) => Writable \in disk
    /\ given /\ Writable \in disk \ inherited =>
          \/ owner = "killed"
          \/ isolated /\ (owner \in {"snapped", "leave"} \/ InUse)
          \/ owner \in {"undo", "remove"} /\ ToRemove(Writable)

\* The workspace is removed last, with all that is inside.
Emptied ==
    /\ owner = "idle" => disk = {}
    /\ owner = "last" => rm.owner = <<Workspace>> \/ (rm.owner = <<>> /\ Inside \cap disk = {})
    /\ owner = "done" => Inside \cap disk = {}

Session == SessionTypes /\ Watched /\ Kept /\ Emptied

PackageTypes ==
    /\ artifacts \subseteq first_hashes /\ first_hashes \subseteq built /\ built \subseteq File
    /\ repetition \in 1 .. (Repetitions + 1) /\ reproducible \in BOOLEAN /\ ok \in BOOLEAN
    /\ scanned \subseteq [file : File, of : {"this", "other"}, ok : BOOLEAN]
    /\ exit \in {"none", "success", "failure"}
    /\ store \in [File -> {"none", "this", "other"}]

\* When files are fingerprinted, and what Result::ok says once they are copied.
Settled ==
    /\ first_hashes # {} => owner \in {"copy", "repeat", "leave", "remove", "wait", "last", "done"}
    /\ ok => owner \in {"leave", "remove", "wait", "last", "done"} /\ artifacts # {} /\ reproducible
    /\ reproducible => differed = {}
    /\ scanned # {} \/ exit # "none" => owner = "done"

\* The content of a listed artifact, in artifact_root and when it was scanned.
Contents ==
    /\ \A f \in artifacts : store[f] = "this" \/ (store[f] = "other" /\ f \in overwritten)
    /\ \A s \in scanned : s.file \in artifacts /\ (s.of = "this" \/ s.file \in overwritten)

Files == {s.file : s \in scanned}

Vouched ==
    exit = "success" => ok /\ Files = artifacts /\ \A s \in scanned : s.ok

Package == PackageTypes /\ Settled /\ Contents /\ Vouched

IInv == Session /\ Package

-----------------------------------------------------------------------------
(***************************************************************************)
(* The session.                                                            *)
(***************************************************************************)
USE DEF NoPath, Workspace, Base, Plain, Source, Writable, Path, InUse, isolated, Owner, Guardian,
        OwnerStates, GuardianStates

LEMMA Literal ==
    /\ <<>> \in Lists
    /\ \A a \in Path \cup {NoPath} : <<a>> \in Lists /\ <<a>> # <<>>
    /\ \A a, b, c \in Path \cup {NoPath} : <<a, b, c>> \in Lists
    /\ \A a, b, c, d \in Path \cup {NoPath} : <<a, b, c, d>> \in Lists
BY SMTT(60) DEF Lists

\* A path other than the first is still in the rest of a list.
LEMMA Rest ==
    ASSUME NEW S, NEW q \in Seq(S), q # <<>>
    PROVE  /\ Tail(q) \in Seq(S)
           /\ \A i \in 1 .. Len(q) : q[i] # Head(q) => \E j \in 1 .. Len(Tail(q)) : Tail(q)[j] = q[i]
<1>1. Len(q) \in Nat /\ Len(q) > 0 /\ Head(q) = q[1]
  BY SMTT(60)
<1>2. Tail(q) \in Seq(S) /\ Len(Tail(q)) = Len(q) - 1 /\ \A j \in 1 .. Len(q) - 1 : Tail(q)[j] = q[j + 1]
  BY SMTT(60), <1>1
<1>3. ASSUME NEW i \in 1 .. Len(q), q[i] # Head(q)
      PROVE  \E j \in 1 .. Len(Tail(q)) : Tail(q)[j] = q[i]
  <2>1. i - 1 \in 1 .. Len(q) - 1 /\ (i - 1) + 1 = i
    BY SMTT(60), <1>1, <1>3
  <2> QED
    BY <1>2, <2>1
<1> QED
  BY <1>2, <1>3

\* What remove_path does to the lists, and that it only removes.
LEMMA OwnerPath ==
    ASSUME SessionTypes, rm.owner # <<>>, remove_path("owner")
    PROVE  /\ rm' \in [owner : Lists, guardian : Lists]
           /\ rm'.owner = Tail(rm.owner)
           /\ disk' \subseteq disk
BY Rest DEF remove_path, SessionTypes, Lists

LEMMA GuardianPath ==
    ASSUME SessionTypes, rm.guardian # <<>>, remove_path("guardian")
    PROVE  /\ rm' \in [owner : Lists, guardian : Lists]
           /\ rm'.owner = rm.owner
           /\ disk' \subseteq disk
BY Rest DEF remove_path, SessionTypes, Lists
LEMMA SessionStart == Init => Session
<1> SUFFICES ASSUME Init PROVE Session
  OBVIOUS
<1>1. SessionTypes
  BY Literal DEF Init, SessionTypes, NoSession
<1>2. Watched /\ Kept /\ Emptied
  BY DEF Init, Watched, Kept, Emptied
<1> QED
  BY <1>1, <1>2 DEF Session

LEMMA StartStep ==
    ASSUME Session, Start
    PROVE Session'
<1> USE DEF Session
<1>1. SessionTypes'
  BY DEF Start, Inside, fixed, SessionTypes
<1>2. Watched'
  BY DEF Start, Inside, fixed, Watched
<1>3. Kept'
  BY DEF Start, Inside, fixed, Kept, ToRemove
<1>4. Emptied'
  BY DEF Start, Inside, fixed, Emptied, Inside
<1> QED
  BY <1>1, <1>2, <1>3, <1>4

LEMMA DegradeStep ==
    ASSUME Session, Degrade
    PROVE Session'
<1> USE DEF Session
<1>1. SessionTypes'
  BY DEF Degrade, NoSession, fixed, SessionTypes
<1>2. Watched'
  BY DEF Degrade, NoSession, fixed, Watched
<1>3. Kept'
  BY DEF Degrade, NoSession, fixed, Kept, ToRemove
<1>4. Emptied'
  BY DEF Degrade, NoSession, fixed, Emptied, Inside
<1> QED
  BY SMTT(60), <1>1, <1>2, <1>3, <1>4

LEMMA CreateFailsStep ==
    ASSUME Session, CreateFails
    PROVE Session'
<1> USE DEF Session
<1>1. SessionTypes'
  BY DEF CreateFails, NoSession, fixed, SessionTypes
<1>2. Watched'
  BY DEF CreateFails, NoSession, fixed, Watched
<1>3. Kept'
  BY DEF CreateFails, NoSession, fixed, Kept, ToRemove
<1>4. Emptied'
  BY DEF CreateFails, NoSession, fixed, Emptied, Inside
<1> QED
  BY SMTT(60), <1>1, <1>2, <1>3, <1>4

LEMMA SubvolumeStep ==
    ASSUME Session, create_subvolume
    PROVE Session'
<1> USE DEF Session
<1>1. SessionTypes'
  BY DEF create_subvolume, Makes, NoSession, fixed, SessionTypes
<1>2. Watched'
  BY DEF create_subvolume, Makes, NoSession, fixed, Watched
<1>3. Kept'
  BY DEF create_subvolume, Makes, NoSession, fixed, Kept, ToRemove
<1>4. Emptied'
  BY DEF create_subvolume, Makes, NoSession, fixed, Emptied, Inside
<1> QED
  BY SMTT(60), <1>1, <1>2, <1>3, <1>4

LEMMA NameStep ==
    ASSUME Session, (\E found \in BOOLEAN : Name(found))
    PROVE Session'
<1> USE DEF Session
<1>1. SessionTypes'
  BY DEF Name, fixed, SessionTypes
<1>2. Watched'
  BY DEF Name, fixed, Watched
<1>3. Kept'
  BY SMTT(60) DEF Name, fixed, Kept, ToRemove
<1>4. Emptied'
  BY DEF Name, fixed, Emptied, Inside
<1> QED
  BY <1>1, <1>2, <1>3, <1>4

LEMMA SnapshotStep ==
    ASSUME Session, snapshot
    PROVE Session'
<1> USE DEF Session
<1>1. SessionTypes'
  BY DEF snapshot, Makes, fixed, SessionTypes
<1>2. Watched'
  BY DEF snapshot, Makes, fixed, Watched
<1>3. Kept'
  BY DEF snapshot, Makes, fixed, Kept, ToRemove
<1>4. Emptied'
  BY DEF snapshot, Makes, fixed, Emptied, Inside
<1> QED
  BY SMTT(60), <1>1, <1>2, <1>3, <1>4

LEMMA SnapshotFailsStep ==
    ASSUME Session, SnapshotFails
    PROVE Session'
<1> USE DEF Session
<1>1. SessionTypes'
  BY Literal DEF SnapshotFails, fixed, SessionTypes
<1>2. Watched'
  BY DEF SnapshotFails, fixed, Watched
<1>3. Kept'
  BY SMTT(60) DEF SnapshotFails, fixed, Kept, ToRemove
<1>4. Emptied'
  BY DEF SnapshotFails, fixed, Emptied, Inside
<1> QED
  BY SMTT(60), <1>1, <1>2, <1>3, <1>4

LEMMA FallBackStep ==
    ASSUME Session, FallBack
    PROVE Session'
<1> USE DEF Session
<1>1. SessionTypes'
  BY DEF FallBack, fixed, SessionTypes
<1>2. Watched'
  BY DEF FallBack, fixed, Watched
<1>3. Kept'
  BY SMTT(60) DEF FallBack, fixed, Kept, ToRemove
<1>4. Emptied'
  BY DEF FallBack, fixed, Emptied, Inside
<1> QED
  BY SMTT(60), <1>1, <1>2, <1>3, <1>4

LEMMA LaunchStep ==
    ASSUME Session, launch_guardian
    PROVE Session'
<1> USE DEF Session
<1>1. SessionTypes'
  BY DEF launch_guardian, fixed, SessionTypes
<1>2. Watched'
  BY DEF launch_guardian, fixed, Watched
<1>3. Kept'
  BY DEF launch_guardian, fixed, Kept, ToRemove
<1>4. Emptied'
  BY DEF launch_guardian, fixed, Emptied, Inside
<1> QED
  BY SMTT(60), <1>1, <1>2, <1>3, <1>4

LEMMA ReleaseStep ==
    ASSUME Session, release
    PROVE Session'
<1> USE DEF Session
<1>1. SessionTypes'
  BY Literal DEF release, fixed, SessionTypes
<1>2. Watched'
  BY DEF release, fixed, Watched
<1>3. Kept'
  BY SMTT(60) DEF release, fixed, Kept, ToRemove
<1>4. Emptied'
  BY DEF release, fixed, Emptied, Inside
<1> QED
  BY SMTT(60), <1>1, <1>2, <1>3, <1>4

LEMMA RemovesStep ==
    ASSUME Session, OwnerRemoves
    PROVE Session'
<1> USE DEF Session
<1>0. /\ rm' \in [owner : Lists, guardian : Lists]
      /\ rm'.owner = Tail(rm.owner)
      /\ disk' \subseteq disk
      /\ owner \in {"undo", "remove", "last"}
      /\ UNCHANGED <<builds, given, inherited, owner, guardian, held>>
  BY OwnerPath DEF OwnerRemoves, fixed
<1>1. SessionTypes'
  <2> HIDE DEF NoPath, Workspace, Base, Plain, Source, Writable, Path, isolated, OwnerStates, GuardianStates
  <2> QED
    BY <1>0 DEF SessionTypes
<1>2. Watched'
  BY <1>0 DEF Watched
<1>3. Kept'
  <2>1. ASSUME given, ToRemove(Writable), Writable \in disk'
        PROVE  \E i \in 1 .. Len(rm'.owner) : rm'.owner[i] = Writable
    <3>1. Head(rm.owner) # Writable
      BY <2>1 DEF OwnerRemoves, remove_path, Tree, Undeletable
    <3>2. rm.owner # <<>> /\ rm.owner \in Seq(Path \cup {NoPath})
      BY DEF OwnerRemoves, SessionTypes, Lists
    <3>3. PICK i \in 1 .. Len(rm.owner) : rm.owner[i] = Writable
      BY <2>1 DEF ToRemove
    <3>4. \E j \in 1 .. Len(Tail(rm.owner)) : Tail(rm.owner)[j] = rm.owner[i]
      BY <3>1, <3>2, <3>3, Rest
    <3> QED
      BY <1>0, <3>3, <3>4
  <2> QED
    BY <1>0, <2>1 DEF Kept, ToRemove
<1>4. Emptied'
  <2>1. ASSUME owner = "last" PROVE rm'.owner = <<>> /\ Inside \cap disk' = {}
    <3>1. rm.owner = <<Workspace>>
      BY <2>1 DEF OwnerRemoves, Emptied
    <3>2. Head(rm.owner) = Workspace /\ Tail(rm.owner) = <<>>
      BY SMTT(60), <3>1
    <3>3. disk' = disk \ (Inside \ Undeletable)
      BY <3>2 DEF OwnerRemoves, remove_path, Tree
    <3> QED
      BY <1>0, <3>2, <3>3 DEF Inside, Undeletable
  <2> QED
    BY <1>0, <2>1 DEF Emptied, Inside
<1> QED
  BY SMTT(60), <1>1, <1>2, <1>3, <1>4

LEMMA StopStep ==
    ASSUME Session, StopGuardian
    PROVE Session'
<1> USE DEF Session
<1>1. SessionTypes'
  BY Literal DEF StopGuardian, Terminated, Cleaning, Arguments, fixed, SessionTypes
<1>2. Watched'
  BY DEF StopGuardian, Terminated, Cleaning, Arguments, fixed, Watched, SessionTypes
<1>3. Kept'
  BY SMTT(60) DEF StopGuardian, Terminated, Cleaning, Arguments, fixed, Kept, ToRemove
<1>4. Emptied'
  BY DEF StopGuardian, Terminated, Cleaning, Arguments, fixed, Emptied, Inside
<1> QED
  BY SMTT(60), <1>1, <1>2, <1>3, <1>4

LEMMA WaitStep ==
    ASSUME Session, WaitGuardian
    PROVE Session'
<1> USE DEF Session
<1>1. SessionTypes'
  BY Literal DEF WaitGuardian, fixed, SessionTypes
<1>2. Watched'
  BY DEF WaitGuardian, fixed, Watched
<1>3. Kept'
  BY DEF WaitGuardian, fixed, Kept, ToRemove
<1>4. Emptied'
  BY SMTT(60) DEF WaitGuardian, fixed, Emptied, Inside
<1> QED
  BY SMTT(60), <1>1, <1>2, <1>3, <1>4

LEMMA ReleasedStep ==
    ASSUME Session, Released
    PROVE Session'
<1> USE DEF Session
<1>1. SessionTypes'
  BY DEF Released, NoSession, fixed, SessionTypes
<1>2. Watched'
  BY DEF Released, NoSession, fixed, Watched
<1>3. Kept'
  BY DEF Released, NoSession, fixed, Kept, ToRemove
<1>4. Emptied'
  BY Literal DEF Released, NoSession, fixed, Emptied, Inside
<1> QED
  BY SMTT(60), <1>1, <1>2, <1>3, <1>4

LEMMA KilledStep ==
    ASSUME Session, Killed
    PROVE Session'
<1> USE DEF Session
<1>1. SessionTypes'
  BY Literal DEF Killed, Terminated, Cleaning, Arguments, NoSession, fixed, SessionTypes
<1>2. Watched'
  BY DEF Killed, Terminated, Cleaning, Arguments, NoSession, fixed, Watched
<1>3. Kept'
  BY DEF Killed, Terminated, Cleaning, Arguments, NoSession, fixed, Kept, ToRemove
<1>4. Emptied'
  BY DEF Killed, Terminated, Cleaning, Arguments, NoSession, fixed, Emptied, Inside
<1> QED
  BY SMTT(60), <1>1, <1>2, <1>3, <1>4

LEMMA BindStep ==
    ASSUME Session, set_pdeathsig
    PROVE Session'
<1> USE DEF Session
<1>1. SessionTypes'
  <2> HIDE DEF NoPath, Workspace, Base, Plain, Source, Writable, Path, isolated
  <2> QED
    BY DEF set_pdeathsig, fixed, SessionTypes
<1>2. Watched'
  BY DEF set_pdeathsig, fixed, Watched
<1>3. Kept'
  BY DEF set_pdeathsig, fixed, Kept, ToRemove
<1>4. Emptied'
  BY DEF set_pdeathsig, fixed, Emptied, Inside
<1> QED
  BY SMTT(60), <1>1, <1>2, <1>3, <1>4

LEMMA CheckStep ==
    ASSUME Session, check_parent
    PROVE Session'
<1> USE DEF Session
<1>1. SessionTypes'
  <2> HIDE DEF NoPath, Workspace, Base, Plain, Source, Writable, Path, isolated
  <2> QED
    BY DEF check_parent, fixed, SessionTypes
<1>2. Watched'
  BY DEF check_parent, fixed, Watched
<1>3. Kept'
  BY DEF check_parent, fixed, Kept, ToRemove
<1>4. Emptied'
  BY DEF check_parent, fixed, Emptied, Inside
<1> QED
  BY SMTT(60), <1>1, <1>2, <1>3, <1>4

LEMMA ArmStep ==
    ASSUME Session, arm
    PROVE Session'
<1> USE DEF Session
<1>1. SessionTypes'
  <2> HIDE DEF NoPath, Workspace, Base, Plain, Source, Writable, Path, isolated
  <2> QED
    BY DEF arm, fixed, SessionTypes
<1>2. Watched'
  BY DEF arm, fixed, Watched
<1>3. Kept'
  BY DEF arm, fixed, Kept, ToRemove
<1>4. Emptied'
  BY DEF arm, fixed, Emptied, Inside
<1> QED
  BY SMTT(60), <1>1, <1>2, <1>3, <1>4

LEMMA CleanupStep ==
    ASSUME Session, guardian_cleanup
    PROVE Session'
<1> USE DEF Session
<1>0. /\ rm' \in [owner : Lists, guardian : Lists]
      /\ rm'.owner = rm.owner
      /\ disk' \subseteq disk
      /\ guardian = "cleaning" /\ guardian' \in {"cleaning", "dead"}
      /\ UNCHANGED <<builds, given, inherited, owner, held>>
  BY GuardianPath DEF guardian_cleanup, fixed, SessionTypes
<1>1. SessionTypes'
  <2> HIDE DEF NoPath, Workspace, Base, Plain, Source, Writable, Path, isolated, OwnerStates
  <2> QED
    BY <1>0 DEF SessionTypes
<1>2. Watched'
  BY <1>0 DEF Watched
<1>3. Kept'
  BY <1>0 DEF Kept, Watched
<1>4. Emptied'
  BY <1>0 DEF Emptied, Watched
<1> QED
  BY SMTT(60), <1>1, <1>2, <1>3, <1>4

LEMMA OtherEndsStep ==
    ASSUME Session, OtherBuildEnds
    PROVE Session'
<1> USE DEF Session
<1>1. SessionTypes'
  <2> HIDE DEF NoPath, Workspace, Base, Plain, Source, Writable, Path, isolated, OwnerStates, GuardianStates
  <2> QED
    BY DEF OtherBuildEnds, Inside, fixed, SessionTypes
<1>2. Watched'
  BY DEF OtherBuildEnds, Inside, fixed, Watched
<1>3. Kept'
  BY DEF OtherBuildEnds, Inside, fixed, Kept, ToRemove
<1>4. Emptied'
  BY DEF OtherBuildEnds, Inside, fixed, Emptied, Inside
<1> QED
  BY SMTT(60), <1>1, <1>2, <1>3, <1>4

LEMMA StageStep ==
    ASSUME Session, Stage
    PROVE Session'
<1> USE DEF Session
<1>1. SessionTypes'
  BY DEF Stage, fixed, SessionTypes
<1>2. Watched'
  BY DEF Stage, fixed, Watched
<1>3. Kept'
  BY DEF Stage, fixed, Kept, ToRemove
<1>4. Emptied'
  BY DEF Stage, fixed, Emptied, Inside
<1> QED
  BY SMTT(60), <1>1, <1>2, <1>3, <1>4

\* The process moves on in its work, and the session is left as it is.
LEMMA WorkStep ==
    ASSUME Session, InUse, owner' \in {"use", "source", "build", "copy", "repeat", "leave"},
           UNCHANGED <<fixed, guardian, held, disk, rm>>
    PROVE Session'
<1> USE DEF Session, fixed
<1>1. SessionTypes'
  <2> HIDE DEF NoPath, Workspace, Base, Plain, Source, Writable, Path, isolated, GuardianStates
  <2> QED
    BY DEF SessionTypes
<1>2. Watched'
  BY DEF Watched
<1>3. Kept'
  BY DEF Kept
<1>4. Emptied'
  BY DEF Emptied
<1> QED
  BY <1>1, <1>2, <1>3, <1>4

LEMMA StillStep ==
    ASSUME Session, UNCHANGED <<fixed, session>>
    PROVE Session'
<1> USE DEF Session, fixed, session
<1>1. SessionTypes'
  <2> HIDE DEF NoPath, Workspace, Base, Plain, Source, Writable, Path, isolated, OwnerStates, GuardianStates
  <2> QED
    BY DEF SessionTypes
<1>2. Watched'
  BY DEF Watched
<1>3. Kept' /\ Emptied'
  BY DEF Kept, ToRemove, Emptied, Inside
<1> QED
  BY <1>1, <1>2, <1>3

LEMMA RefuseStep ==
    ASSUME Session, Refuse
    PROVE Session'
<1> USE DEF Session, Refuse, At, fixed
<1>1. SessionTypes'
  BY DEF SessionTypes
<1>2. Watched'
  BY DEF Watched
<1>3. Kept'
  BY DEF Kept, Emptied
<1>4. Emptied'
  BY DEF Emptied
<1> QED
  BY <1>1, <1>2, <1>3, <1>4

LEMMA BuildingSession ==
    ASSUME Session, Building
    PROVE Session'
<1>1. CASE Stage
  BY <1>1, StageStep
<1>2. CASE SourcePhase \/ \E files \in SUBSET File : BuildPhase(files)
  BY <1>2, WorkStep DEF SourcePhase, BuildPhase, At
<1>3. CASE (\E f \in File : CopyArtifact(f) \/ CopyFails(f)) \/ CopyEnds
  BY <1>3, WorkStep DEF CopyArtifact, CopyFails, CopyEnds, At
<1>4. CASE (\E changed \in SUBSET File : Repeat(changed)) \/ RepeatFails \/ End
  BY <1>4, WorkStep DEF Repeat, RepeatFails, End, At
<1>5. CASE Fail
  BY <1>5, WorkStep DEF Fail, At
<1>6. CASE (\E f \in File, accepted \in BOOLEAN : ScanArtifact(f, accepted)) \/ Exit
  BY <1>6, StillStep DEF ScanArtifact, Exit
<1> QED
  BY <1>1, <1>2, <1>3, <1>4, <1>5, <1>6 DEF Building

LEMMA SessionStep == Session /\ [Next]_vars => Session'
<1> SUFFICES ASSUME Session, [Next]_vars PROVE Session'
  OBVIOUS
<1>1. CASE Creating
  BY <1>1, DegradeStep, CreateFailsStep, SubvolumeStep, NameStep, SnapshotStep,
     SnapshotFailsStep, FallBackStep, LaunchStep DEF Creating
<1>2. CASE Releasing
  BY <1>2, ReleaseStep, RemovesStep, StopStep, WaitStep, ReleasedStep DEF Releasing
<1>3. CASE Guarding
  BY <1>3, BindStep, CheckStep, ArmStep, CleanupStep DEF Guarding
<1>4. CASE Scanned
  BY <1>4, WorkStep DEF Scanned, At
<1>5. CASE \E f \in File : OtherBuildCopies(f)
  BY <1>5, StillStep DEF OtherBuildCopies
<1>6. CASE UNCHANGED vars
  BY <1>6, StillStep DEF vars
<1> QED
  BY <1>1, <1>2, <1>3, <1>4, <1>5, <1>6, RefuseStep, StartStep, BuildingSession, KilledStep,
     OtherEndsStep DEF Next, Owning, Guard

-----------------------------------------------------------------------------
(***************************************************************************)
(* The build.                                                              *)
(***************************************************************************)
LEMMA PackageStart == BuildInit => Package
<1> SUFFICES ASSUME BuildInit PROVE Package
  BY SMTT(60)
<1>0. 1 \in 1 .. (Repetitions + 1)
  BY SMTT(60), RepetitionAssumption
<1>1. PackageTypes
  BY <1>0 DEF BuildInit, PackageTypes
<1>2. Settled /\ Contents /\ Vouched
  BY DEF BuildInit, Settled, Contents, Vouched
<1> QED
  BY SMTT(60), <1>1, <1>2 DEF Package

\* A step of the session, which does not take the process back to work.
LEMMA AsideStep ==
    ASSUME Package, UNCHANGED <<build, main, directory>>,
           owner = "done" => owner' = "done",
           owner \in {"copy", "repeat"} => owner' = owner,
           owner \in {"leave", "remove", "wait", "last", "done"} =>
              owner' \in {"leave", "remove", "wait", "last", "done"}
    PROVE Package'
<1> USE DEF Package, build, main, directory
<1>1. PackageTypes'
  BY DEF PackageTypes
<1>2. Settled'
  BY DEF Settled
<1>3. Contents' /\ Vouched'
  BY DEF Contents, Vouched, Files
<1> QED
  BY <1>1, <1>2, <1>3

LEMMA CreatingAside ==
    ASSUME Package, Creating, UNCHANGED <<build, main, directory>>
    PROVE Package'
BY AsideStep DEF Creating, Degrade, CreateFails, create_subvolume, Name, snapshot, SnapshotFails,
   FallBack, launch_guardian

LEMMA ReleasingAside ==
    ASSUME Package, Releasing, UNCHANGED <<build, main, directory>>
    PROVE Package'
BY AsideStep DEF Releasing, release, OwnerRemoves, StopGuardian, WaitGuardian, Released

LEMMA GuardingAside ==
    ASSUME Package, Guarding, UNCHANGED <<build, main, directory>>
    PROVE Package'
BY AsideStep DEF Guarding, set_pdeathsig, check_parent, arm, guardian_cleanup

\* A process that is killed leaves neither a Result nor a scan.
LEMMA ForgetStep ==
    ASSUME Package, Killed, Forget
    PROVE Package'
<1> USE DEF Package, Killed, Forget, main, directory
<1>1. scanned = {} /\ exit = "none"
  BY DEF Settled
<1>0. 1 \in 1 .. (Repetitions + 1)
  BY SMTT(60), RepetitionAssumption
<1>2. PackageTypes'
  BY <1>0, <1>1 DEF PackageTypes
<1>3. Settled'
  BY <1>1 DEF Settled
<1>4. Contents' /\ Vouched'
  BY <1>1 DEF Contents, Vouched
<1> QED
  BY <1>2, <1>3, <1>4

\* While the build works there is no verdict and no scan.
LEMMA AtWork ==
    ASSUME Package, InUse
    PROVE  ~ok /\ scanned = {} /\ exit = "none"
BY DEF Package, Settled

LEMMA BuildPhaseStep ==
    ASSUME Package, NEW files \in SUBSET File, BuildPhase(files)
    PROVE Package'
<1> USE DEF Package, BuildPhase, At, main, directory
<1>0. ~ok /\ scanned = {} /\ exit = "none" /\ first_hashes = {}
  BY AtWork DEF Settled
<1>1. PackageTypes'
  BY <1>0 DEF PackageTypes
<1>2. Settled'
  BY <1>0 DEF Settled
<1>3. Contents' /\ Vouched'
  BY <1>0 DEF Contents, Vouched
<1> QED
  BY <1>1, <1>2, <1>3

LEMMA CopyStep ==
    ASSUME Package, NEW f \in File, CopyArtifact(f)
    PROVE Package'
<1> USE DEF Package, CopyArtifact, At, main
<1>0. ~ok /\ scanned = {} /\ exit = "none"
  BY AtWork
<1>1. PackageTypes'
  BY DEF PackageTypes
<1>2. Settled'
  BY <1>0 DEF Settled
<1>3. Contents'
  BY <1>0 DEF Contents, PackageTypes
<1>4. Vouched'
  BY <1>0 DEF Vouched
<1> QED
  BY <1>1, <1>2, <1>3, <1>4

LEMMA CopyFailsStep ==
    ASSUME Package, NEW f \in File, CopyFails(f)
    PROVE Package'
<1> USE DEF Package, CopyFails, At, main, directory
<1>0. ~ok /\ scanned = {} /\ exit = "none"
  BY AtWork
<1>1. PackageTypes'
  BY DEF PackageTypes
<1>2. Settled'
  BY <1>0 DEF Settled
<1>3. Contents' /\ Vouched'
  BY <1>0 DEF Contents, Vouched
<1> QED
  BY <1>1, <1>2, <1>3

LEMMA RepeatStep ==
    ASSUME Package, RepeatFails \/ \E changed \in SUBSET File : Repeat(changed)
    PROVE Package'
<1> USE DEF Package, RepeatFails, Repeat, At, main, directory
<1>0. ~ok /\ scanned = {} /\ exit = "none"
  BY AtWork
<1>1. PackageTypes'
  <2>1. repetition' \in 1 .. (Repetitions + 1)
    BY SMTT(60), RepetitionAssumption DEF PackageTypes
  <2>2. reproducible' \in BOOLEAN
    BY DEF PackageTypes
  <2>3. UNCHANGED <<artifacts, first_hashes, built, ok, scanned, exit, store>>
    OBVIOUS
  <2> QED
    BY <2>1, <2>2, <2>3 DEF PackageTypes
<1>2. Settled'
  BY SMTT(60), <1>0 DEF Settled, PackageTypes
<1>3. Contents' /\ Vouched'
  BY <1>0 DEF Contents, Vouched
<1> QED
  BY <1>1, <1>2, <1>3

LEMMA EndStep ==
    ASSUME Package, End
    PROVE Package'
<1> USE DEF Package, End, At, main, directory
<1>0. ~ok /\ scanned = {} /\ exit = "none"
  BY AtWork
<1>1. PackageTypes'
  BY DEF PackageTypes
<1>2. Settled'
  BY <1>0 DEF Settled
<1>3. Contents' /\ Vouched'
  BY <1>0 DEF Contents, Vouched
<1> QED
  BY <1>1, <1>2, <1>3

LEMMA ScanStep ==
    ASSUME Package, NEW f \in File, NEW accepted \in BOOLEAN, ScanArtifact(f, accepted)
    PROVE Package'
<1> USE DEF Package, ScanArtifact, fixed, session, build, directory
<1>0. store[f] \in {"this", "other"} /\ (store[f] = "this" \/ f \in overwritten)
  BY DEF Contents
<1>1. PackageTypes'
  BY SMTT(60), <1>0 DEF PackageTypes
<1>2. Settled'
  BY DEF Settled
<1>3. Contents'
  BY SMTT(60), <1>0 DEF Contents
<1>4. Vouched'
  BY DEF Vouched
<1> QED
  BY <1>1, <1>2, <1>3, <1>4

LEMMA ExitStep ==
    ASSUME Package, Exit
    PROVE Package'
<1> USE DEF Package, Exit, fixed, session, build, directory
<1>0. ok => Files = artifacts
  BY DEF Contents, Files
<1>1. PackageTypes'
  BY DEF PackageTypes
<1>2. Settled'
  BY DEF Settled
<1>3. Contents'
  BY DEF Contents
<1>4. Vouched'
  BY <1>0 DEF Vouched, Files
<1> QED
  BY <1>1, <1>2, <1>3, <1>4

LEMMA OtherCopiesStep ==
    ASSUME Package, NEW f \in File, OtherBuildCopies(f)
    PROVE Package'
<1> USE DEF Package, OtherBuildCopies, fixed, session, build, main
<1>1. PackageTypes'
  BY DEF PackageTypes
<1>2. Settled'
  BY DEF Settled
<1>3. Contents'
  BY DEF Contents, PackageTypes
<1>4. Vouched'
  BY DEF Vouched, Files
<1> QED
  BY <1>1, <1>2, <1>3, <1>4

LEMMA BuildingPackage ==
    ASSUME Package, Building
    PROVE Package'
<1>1. CASE Stage \/ SourcePhase \/ Fail
  BY <1>1, AsideStep DEF Stage, SourcePhase, Fail, At
<1>2. CASE CopyEnds
  <2> USE DEF Package, CopyEnds, At, build, main, directory
  <2>1. PackageTypes'
    BY <1>2 DEF PackageTypes
  <2>2. Settled'
    BY <1>2 DEF Settled
  <2>3. Contents' /\ Vouched'
    BY <1>2 DEF Contents, Vouched, Files
  <2> QED
    BY <2>1, <2>2, <2>3
<1> QED
  BY <1>1, <1>2, BuildPhaseStep, CopyStep, CopyFailsStep, RepeatStep, EndStep, ScanStep, ExitStep
     DEF Building

LEMMA PackageStep == Package /\ [Next]_vars => Package'
<1> SUFFICES ASSUME Package, [Next]_vars PROVE Package'
  BY SMTT(60)
<1>1. CASE Refuse
  BY <1>1, AsideStep DEF Refuse, At
<1>2. CASE Start /\ UNCHANGED <<build, main, directory>>
  BY <1>2, AsideStep DEF Start
<1>3. CASE Scanned
  BY <1>3, AsideStep DEF Scanned, At
<1>4. CASE OtherBuildEnds /\ UNCHANGED <<build, main, directory>>
  BY <1>4, AsideStep DEF OtherBuildEnds
<1>5. CASE UNCHANGED vars
  BY <1>5, AsideStep DEF vars, session
<1> QED
  BY <1>1, <1>2, <1>3, <1>4, <1>5, CreatingAside, ReleasingAside, GuardingAside, BuildingPackage,
     ForgetStep, OtherCopiesStep DEF Next, Owning, Guard

-----------------------------------------------------------------------------
(***************************************************************************)
(* The theorems.                                                           *)
(***************************************************************************)
LEMMA Invariant == Spec => []IInv
<1>1. BuildInit => IInv
  BY SessionStart, PackageStart DEF BuildInit, IInv
<1>2. IInv /\ [Next]_vars => IInv'
  BY SessionStep, PackageStep DEF IInv
<1> QED
  BY <1>1, <1>2, PTL DEF Spec

\* The types of the variables, for any files and any number of repetitions.
THEOREM TypesHold == Spec => []TypeOK
<1>1. IInv => TypeOK
  BY DEF IInv, Session, SessionTypes, Lists, Package, PackageTypes, TypeOK
<1> QED
  BY <1>1, Invariant, PTL

\* Neither a guardian, nor the clean-up of a failed snapshot, nor what a process
\* with the same id left takes the tree from a session in use.
THEOREM InUseHolds == Spec => []NotRemovedInUse
<1>1. IInv => NotRemovedInUse
  BY DEF IInv, Session, Kept, NotRemovedInUse
<1> QED
  BY <1>1, Invariant, PTL

\* A released session has no guardian, and leaves nothing it made but a
\* read-only snapshot with files in it.
THEOREM GoneHolds == Spec => []SessionGone
<1>1. IInv => SessionGone
  <2> SUFFICES ASSUME IInv, owner = "done"
               PROVE  guardian = "none" /\ disk \ inherited \subseteq Undeletable
    BY DEF SessionGone
  <2>1. guardian = "none"
    BY DEF IInv, Session, Watched
  <2>2. disk \subseteq Path /\ Inside \cap disk = {} /\ given \in BOOLEAN
    BY DEF IInv, Session, SessionTypes, Emptied
  <2>3. given => Writable \notin disk \ inherited
    BY DEF IInv, Session, Kept
  <2>4. CASE given
    BY <2>1, <2>2, <2>3, <2>4 DEF Inside, Undeletable
  <2>5. CASE ~given
    BY <2>1, <2>2, <2>5 DEF Inside, Undeletable
  <2> QED
    BY <2>4, <2>5
<1> QED
  BY <1>1, Invariant, PTL

\* A build that exits successfully has made packages, each the same in every
\* repetition, and has scanned and accepted each of them as it made it, unless
\* another build replaced it.
THEOREM SuccessHolds == Spec => []SuccessVouches
<1>1. IInv => SuccessVouches
  <2> SUFFICES ASSUME IInv, exit = "success"
               PROVE  /\ artifacts # {} /\ differed = {}
                      /\ \A f \in artifacts : \E s \in scanned :
                            s.file = f /\ s.ok /\ (s.of = "this" \/ f \in overwritten)
    BY DEF SuccessVouches
  <2>1. ok /\ Files = artifacts /\ \A s \in scanned : s.ok
    BY DEF IInv, Package, Vouched
  <2>2. artifacts # {} /\ differed = {}
    BY <2>1 DEF IInv, Package, Settled
  <2>3. \A f \in artifacts : \E s \in scanned : s.file = f
    BY <2>1 DEF Files
  <2> QED
    BY <2>1, <2>2, <2>3 DEF IInv, Package, Contents
<1> QED
  BY <1>1, Invariant, PTL
=============================================================================
