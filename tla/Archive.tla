------------------------------- MODULE Archive -------------------------------
(***************************************************************************)
(* The rules of the archive reader (src/src/package/archive.cpp) for one   *)
(* entry.  A path is the sequence of what stands between its slashes:      *)
(* "/etc" is <<"", "etc">>, "./a" is <<".", "a">>, "usr/" is <<"usr", "">>, *)
(* the empty text <<"">>, and no text at all <<>>.  Its length in bytes is  *)
(* counted in parts.                                                       *)
(***************************************************************************)
EXTENDS Naturals, Integers, Sequences

CONSTANTS
    MaxUnpacked,  \* Limits::max_unpacked_bytes
    MaxEntries,   \* Limits::max_entries
    MaxPath       \* Limits::max_path_bytes

ASSUME LimitAssumption == MaxUnpacked \in Nat /\ MaxEntries \in Nat /\ MaxPath \in Nat

None == <<>>

\* while (path.starts_with("./")) path.erase(0, 2)
Stripped(raw) ==
    LET first == CHOOSE i \in 1 .. Len(raw) :
                    /\ raw[i] # "." \/ i = Len(raw)
                    /\ \A j \in 1 .. i - 1 : raw[j] = "."
    IN SubSeq(raw, first, Len(raw))

\* Mutant: a part ".." is let through.
safe_path_dots(raw) ==
    IF raw = None THEN None
    ELSE LET path == Stripped(raw) IN
         IF Len(path) > MaxPath \/ \E i \in DOMAIN path : path[i] \in {"", "."} THEN None ELSE path

\* The path, or None where the code returns an error.
safe_path(raw) ==
    IF raw = None THEN None
    ELSE LET path == Stripped(raw) IN
         IF Len(path) > MaxPath \/ \E i \in DOMAIN path : path[i] \in {"", ".", ".."}
         THEN None ELSE path

\* A target that is empty or begins with a slash has an empty first part.
safe_link(raw) ==
    IF raw = None THEN None
    ELSE IF Len(raw) > MaxPath \/ raw[1] = "" \/ \E i \in DOMAIN raw : raw[i] = ".." THEN None
    ELSE raw

\* An entry as libarchive gives it has a path, a file type, the names it links to
\* as a symbolic and as a hard link (None where it has no such name, whatever its
\* type), the size its header declares (-1 if it does not), the number of bytes
\* that can be read, whether reading them ends in an error, and setuid or setgid.
NoEntry == [path |-> None, kind |-> "none", link |-> None, size |-> 0]

\* The branch that entry_of takes: a symbolic link by its type, then a hard link by
\* its name, whatever its type, then the other types.
branch(raw) ==
    IF raw.type = "symlink" THEN "symlink"
    ELSE IF raw.hardlink # None THEN "hardlink"
    ELSE raw.type

target(raw) == IF raw.type = "symlink" THEN raw.symlink ELSE raw.hardlink

\* The Entry, or NoEntry where the code returns an error.
entry_of(raw) ==
    LET path == safe_path(raw.path)
        linked == safe_link(target(raw))
        size == IF raw.size < 0 THEN 0 ELSE raw.size
        entry(kind, link, bytes) == [path |-> path, kind |-> kind, link |-> link, size |-> bytes]
    IN
    IF path = None \/ raw.setid THEN NoEntry
    ELSE CASE branch(raw) \in {"symlink", "hardlink"} ->
                 IF linked = None THEN NoEntry ELSE entry(branch(raw), linked, size)
           [] branch(raw) = "file" -> entry("regular", None, size)
           [] branch(raw) = "directory" -> entry("regular", None, 0)
           [] OTHER -> NoEntry
=============================================================================
