----------------------------- MODULE MCDecoder ------------------------------
(***************************************************************************)
(* Instance of Decoder for TLC.                                            *)
(***************************************************************************)
EXTENDS Decoder

CONSTANTS whole, cut, lost   \* paths

\* A path that is read as it is, one whose beginning spells the first, and one
\* of which no word can be read.
MCPath == {whole, cut, lost}
MCShown == [p \in MCPath |-> IF p = lost THEN NoText ELSE whole]

\* A task whose table is out of reach of the properties cannot affect another
\* task's table again, except through its children, which are excepted too.
Observed == stale = {}

\* Observed tasks share no descriptors, so their calls commute: one task at a
\* time is inside a call, beside the ones inside fork and execve.
OneInCall == \A t, u \in Task : mode[t] = "incall" /\ mode[u] = "incall" => t = u

\* A table that lacks paths is followed while the root is the only task the
\* tracer knows: registered tasks do not touch each other's tables.
Alone == missing # {} => tasks = {Root}

\* Beside a registered child the root opens, copies and closes, enough to tell
\* a copied table from a shared one; its other calls are checked without a child.
Beside == tasks # {Root} /\ mode[Root] = "incall" => call[Root].nr \in {"open", "dup2", "close"}
=============================================================================
