------------------------------ MODULE FdTable -------------------------------
(***************************************************************************)
(* execell::trace::FdTable (src/src/trace/fd_table.cpp): which path a      *)
(* descriptor was opened with.  The map is a total function; a descriptor  *)
(* that is not in it has the value NoPath.                                 *)
(***************************************************************************)
EXTENDS Integers

CONSTANTS
    Fd,     \* descriptor numbers
    Path    \* path names

ASSUME FdAssumption == Fd \subseteq Nat

NoPath == "none"

ASSUME PathAssumption == NoPath \notin Path

NoEntries == [f \in Fd |-> NoPath]

lookup(T, fd) == IF fd \in Fd THEN T[fd] ELSE NoPath

track(T, fd, path) == [T EXCEPT ![fd] = path]

close(T, fd) == [T EXCEPT ![fd] = NoPath]

duplicate(T, source_fd, target_fd) ==
    IF lookup(T, source_fd) = NoPath
    THEN close(T, target_fd)
    ELSE track(T, target_fd, lookup(T, source_fd))

\* Mutant: the last descriptor of the range is kept.
close_range_open_end(T, first, last) ==
    [f \in Fd |-> IF first <= f /\ f < last THEN NoPath ELSE T[f]]

close_range(T, first, last) ==
    [f \in Fd |-> IF first <= f /\ f <= last THEN NoPath ELSE T[f]]
=============================================================================
