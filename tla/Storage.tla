------------------------------- MODULE Storage ------------------------------
(***************************************************************************)
(* storage::Database (src/src/package/storage.cpp) as several scanners use *)
(* it: one writer at a time (BEGIN IMMEDIATE, and no busy timeout: a second*)
(* one fails), and a transaction that a crash rolls back.                  *)
(***************************************************************************)
EXTENDS Naturals, Sequences

CONSTANT Free   \* no scanner: nobody holds the lock

VARIABLES
    schema,   \* MAX(version) of schema_migrations, 0 without the tables
    rows,     \* the committed observations, in the order of their ids
    lock,     \* the scanner that has a transaction open
    pending   \* the observation that transaction has inserted

storage == <<schema, rows, lock, pending>>

NoRow == [name |-> "", version |-> "", baseline |-> FALSE, events |-> FALSE]

Named(name) == {i \in DOMAIN rows : rows[i].name = name}

\* Database::open and migrate, one transaction.
open ==
    /\ lock = Free /\ schema <= 1
    /\ schema' = 1
    /\ UNCHANGED <<rows, lock, pending>>

\* Mutant: the name of the package is not compared.
previous_of_any(name, version) ==
    LET others == {i \in DOMAIN rows : rows[i].version # version}
    IN  IF others = {} THEN "" ELSE rows[CHOOSE i \in others : \A j \in others : j <= i].version

\* Database::previous_version, "" when there is none.
previous_version(name, version) ==
    LET others == {i \in Named(name) : rows[i].version # version}
    IN  IF others = {} THEN "" ELSE rows[CHOOSE i \in others : \A j \in others : j <= i].version

\* Mutant: a row is baseline when the caller saw no other version of the package.
insert_stale(s, name, version, previous) ==
    /\ lock = Free
    /\ lock' = s
    /\ pending' = [name |-> name, version |-> version, baseline |-> previous = "", events |-> FALSE]
    /\ UNCHANGED <<schema, rows>>

\* Database::store: BEGIN IMMEDIATE and the row, baseline if it is the first of its name.
insert(s, name, version, previous) ==
    /\ lock = Free
    /\ lock' = s
    /\ pending' = [name |-> name, version |-> version, baseline |-> Named(name) = {}, events |-> FALSE]
    /\ UNCHANGED <<schema, rows>>

\* Mutant: each statement is committed by itself.
insert_events_autocommit(s) ==
    /\ lock = s
    /\ rows' = Append(rows, pending)
    /\ pending' = [pending EXCEPT !.events = TRUE]
    /\ UNCHANGED <<schema, lock>>

insert_events(s) ==
    /\ lock = s
    /\ pending' = [pending EXCEPT !.events = TRUE]
    /\ UNCHANGED <<schema, rows, lock>>

commit(s) ==
    /\ lock = s
    /\ rows' = Append(rows, pending)
    /\ lock' = Free
    /\ pending' = NoRow
    /\ UNCHANGED schema

\* ROLLBACK, by the code or by the next user of the database after a crash.
rollback(s) ==
    /\ lock' = IF lock = s THEN Free ELSE lock
    /\ pending' = IF lock = s THEN NoRow ELSE pending
    /\ UNCHANGED <<schema, rows>>

\* Database::compare finds observations of both versions.
compared(name, from, to) ==
    \A version \in {from, to} : \E i \in Named(name) : rows[i].version = version
=============================================================================
